--------------------------- MODULE MCSchedulerLock ---------------------------
(* Two processes and the two shapes of key a job asks for: the global scope *)
(* and one church.  c1 and c2 overlap in process i1, c3 is the same job in  *)
(* process i2, c4 is the job of one church in process i1.                   *)
EXTENDS SchedulerLock, TLC

CONSTANTS i1, i2, globalKey, churchKey, k1, k2, k3, c1, c2, c3, c4

MCInstanceOf == (c1 :> i1) @@ (c2 :> i1) @@ (c3 :> i2) @@ (c4 :> i1)
MCKeyOf ==
    (c1 :> globalKey) @@ (c2 :> globalKey) @@ (c3 :> globalKey) @@ (c4 :> churchKey)

\* Distinct lock numbers, and two keys whose 32-bit hashes collide.
MCDistinctIds == (globalKey :> 1) @@ (churchKey :> 2)
MCCollidingIds == (globalKey :> 1) @@ (churchKey :> 1)

\* One connection per process (connection_limit=1), and a pool of two.
MCSinglePools == (k1 :> i1) @@ (k3 :> i2)
MCPools == (k1 :> i1) @@ (k2 :> i1) @@ (k3 :> i2)
=============================================================================

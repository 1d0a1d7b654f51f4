----------------------- MODULE MCAutomationScheduler -----------------------
(* Two processes; the timer's cycle of each and one an administrator starts *)
(* for a church; a rule of each trigger type the scheduler runs.            *)
EXTENDS AutomationScheduler, TLC

CONSTANTS p1, p2, timer1, timer2, admin1, daily, absences, ana, bia,
          global, church

MCProcessOf == (timer1 :> p1) @@ (timer2 :> p2) @@ (admin1 :> p1)
MCScopeOf == (timer1 :> global) @@ (timer2 :> global) @@ (admin1 :> church)

MCRuleOrder == <<daily, absences>>
MCTriggerOf == (daily :> "TIME") @@ (absences :> "THRESHOLD")
MCEveryOf == [r \in Rules |-> 1]
MCCooldownOf == [r \in Rules |-> IF r = absences THEN 1 ELSE 0]

\* A strategy that fits the triggers; the default, BY_EVENT, does not.
MCStrategyOf == [r \in Rules |-> "BY_ENTITY_WINDOW"]
============================================================================

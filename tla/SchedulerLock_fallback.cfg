CONSTANTS
    i1 = i1
    i2 = i2
    globalKey = globalKey
    churchKey = churchKey
    k1 = k1
    k2 = k2
    k3 = k3
    c1 = c1
    c2 = c2
    c3 = c3
    c4 = c4
    Instances = {i1, i2}
    Callers = {c1, c2, c3, c4}
    Keys = {globalKey, churchKey}
    LockIds = {1, 2}
    Connections = {k1, k3}
    InstanceOf <- MCInstanceOf
    KeyOf <- MCKeyOf
    LockIdOf <- MCDistinctIds
    OwnerOf <- MCSinglePools
    WithPostgres = {i1, i2}
    Faults = {"acquire"}
    MaxCount = 3
SPECIFICATION Spec
INVARIANTS
    MutualExclusion

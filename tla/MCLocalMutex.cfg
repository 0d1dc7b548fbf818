SPECIFICATION FairMutexSpec
CONSTANTS
    Procs = {p1, p2, p3}
    Keys = {k1, k2}
    Lockers = {l1, l2, l3}
    Nil = Nil
INVARIANT NoStaleKey
PROPERTY LockIsGranted

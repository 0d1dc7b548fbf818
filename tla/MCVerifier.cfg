SPECIFICATION FairSpec
CONSTANTS
    Tasks = {t1}
    Comics = {c1, c2}
    Images = {i1}
    None = None
    VerifyPoolSize = 2
    FixPoolSize = 1
    FixQueueCap = 1
INVARIANTS
    WaitGroupCounts
    CleanupIsLast
    CountedOnce
    ListsShowJobs
    SavedValidIsGood
PROPERTIES
    TaskFinishes
CHECK_DEADLOCK FALSE

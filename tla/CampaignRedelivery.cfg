\* One recipient dispatched twice, with retries and lost workers.
SPECIFICATION FairSpec
CONSTANTS
    a = a
    b = b
    u1 = u1
    u2 = u2
    Recipients = {a}
    Uploads = {u1}
    Batch <- Single
    Reports = {"delivered"}
    LifecycleOps = {}
    MaxDispatches = 2
    MaxRetries = 1
    MaxCrashes = 1
INVARIANTS
    
    DuplicatesNeedCrashes
    WaitCycleNeedsDuplicate
PROPERTIES
    SkipsWhatWasSent
    TasksEnd
CHECK_DEADLOCK FALSE

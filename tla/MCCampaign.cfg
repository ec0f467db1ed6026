\* Two recipients, two overlapping uploads, one dispatch, reports
\* and the life cycle.
SPECIFICATION Spec
CONSTANTS
    a = a
    b = b
    u1 = u1
    u2 = u2
    Recipients = {a, b}
    Uploads = {u1, u2}
    Batch <- TwoUploads
    Reports = {"failed"}
    LifecycleOps = {"pause", "cancel"}
    MaxDispatches = 1
    MaxRetries = 0
    MaxCrashes = 0
SYMMETRY Swaps
INVARIANTS
    TypeOK
    SentCountSound
    TotalSound
    OutcomeBacked
PROPERTY EndedLeftByStaleOnly
CHECK_DEADLOCK FALSE

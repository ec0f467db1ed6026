\* Is a completed campaign done?
SPECIFICATION Spec
CONSTANTS
    a = a
    b = b
    u1 = u1
    u2 = u2
    Recipients = {a, b}
    Uploads = {u1}
    Batch <- OneUpload
    Reports = {"delivered", "read"}
    LifecycleOps = {}
    MaxDispatches = 1
    MaxRetries = 0
    MaxCrashes = 0
INVARIANT CompletedMeansDone
CHECK_DEADLOCK FALSE

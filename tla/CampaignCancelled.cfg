\* Does cancelling stop the sends?
SPECIFICATION Spec
CONSTANTS
    a = a
    b = b
    u1 = u1
    u2 = u2
    Recipients = {a}
    Uploads = {u1}
    Batch <- Single
    Reports = {}
    LifecycleOps = {"cancel"}
    MaxDispatches = 1
    MaxRetries = 0
    MaxCrashes = 0
PROPERTY NoSendAfterCancel
CHECK_DEADLOCK FALSE

\* Does back-pressure end after a Redis command has failed?
SPECIFICATION FairSpec
CONSTANTS
    c1 = c1
    c2 = c2
    x = x
    Callers = {c1, c2}
    Recipients = {x}
    Sec = Sec
    Capacity <- SmallCapacity
    Window <- SmallWindow
    MaxFaults = 1
    MaxResets = 0
PROPERTY FailureNeverBlocks

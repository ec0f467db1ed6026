\* Two senders, failing Redis commands and a reset.
SPECIFICATION FairSpec
CONSTANTS
    c1 = c1
    c2 = c2
    x = x
    Callers = {c1, c2}
    Recipients = {x}
    Sec = Sec
    Capacity <- SmallCapacity
    Window <- SmallWindow
    MaxFaults = 2
    MaxResets = 1
INVARIANTS
    TypeOK
    SlidingBound
PROPERTY
    BackPressureEnds

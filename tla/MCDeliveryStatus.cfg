\* Payloads with reports on one message, redelivered and handled concurrently.
SPECIFICATION FairSpec
CONSTANTS
    m1 = m1
    i1 = i1
    i2 = i2
    pDelivered = pDelivered
    pRead = pRead
    pMixed = pMixed
    pForeign = pForeign
    Messages = {m1}
    InboundIds = {i1, i2}
    Payloads = {pForeign, pMixed}
    Authentic = {pForeign, pMixed}
    Inferred = {pMixed}
    Items <- BatchItems
    MaxPosts = 2
INVARIANTS
    TypeOK
    StampedStatus
    EffectsKept
    InboundKept
    ProcessedMeansApplied
PROPERTY EventuallyStored
CHECK_DEADLOCK FALSE

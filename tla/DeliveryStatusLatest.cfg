\* Does the row show the latest status?
SPECIFICATION Spec
CONSTANTS
    m1 = m1
    i1 = i1
    i2 = i2
    pDelivered = pDelivered
    pRead = pRead
    pMixed = pMixed
    pForeign = pForeign
    Messages = {m1}
    InboundIds = {i1, i2}
    Payloads = {pDelivered, pRead}
    Authentic = {pDelivered, pRead}
    Inferred = {pDelivered, pRead}
    Items <- TwoReports
    MaxPosts = 1
INVARIANT LatestStatus
CHECK_DEADLOCK FALSE

\* Three concurrent requests, two of them with the same client key.
SPECIFICATION FairSpec
CONSTANTS
    r1 = r1
    r2 = r2
    r3 = r3
    k1 = k1
    Admin = Admin
    Requests = {r1, r2, r3}
    Keys = {k1}
    KeyOf <- ThreeCallers
    Limit = 1
    Attempts = 2
    HttpErrors = {400, 401, 429, 503}
    ErrorCodes = {0, 190}
INVARIANTS
    TypeOK
    UsageSound
    SoleKeyExact
    AnswerTellsRow
    NoLaterAttempt
PROPERTIES
    RefinesLedger
    RevokedNeverSends
    EveryRequestEnds
CHECK_DEADLOCK FALSE

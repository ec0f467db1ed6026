\* Overlapping syncs of two templates while one changes at Meta, and a repeated notification.
SPECIFICATION FairSpec
CONSTANTS
    t1 = t1
    t2 = t2
    s1 = s1
    s2 = s2
    Templates = {t1, t2}
    Pages = 2
    PageOf <- TwoPages
    Raws = {"APPROVED", "IN_APPEAL"}
    Syncs = {s1, s2}
    MaxChanges = 1
    MaxPosts = 2
INVARIANTS
    TypeOK
    CampaignWasApproved
    SyncIsComplete
PROPERTY SyncsConverge
CHECK_DEADLOCK FALSE

SPECIFICATION FairSpec
CONSTANTS
    Tab = {t1, t2}
    Acct = {a1, a2}
    Nobody = nobody
    Rotates = {TRUE}
    MaxToken = 2
    MaxAct = 2
CHECK_DEADLOCK FALSE
INVARIANTS ScreenFollowsAccount
PROPERTIES TabsFollow

SPECIFICATION DeskSpec
CONSTANTS
    Body = {b1, b2}
    MaxKey = 3
    MaxWish = 3
    MaxCopy = 3
    Plans = {{}, {1, 2}}
    Dates = {1}
    LastDay = 2
    MaxSlot = 3
    File = {f1, f2}
    MaxPost = 2
    MaxPhotos = 2
    MaxPick = 2
    MaxEdit = 1
    Clerk = {m1, m2}
    MaxSend = 2
    MaxDecide = 3
    MaxSheet = 3
    People = {p1}
    Cats = {c1}
    Places = {d0, d1}
    Default = d0
    MaxAct = 2
    Total = 2
    Support = {s1}
    Lead = {l1}
    LimitSupport = 1
    LimitLead = 1
    MaxOffer = 2
    MaxResolution = 2
CHECK_DEADLOCK FALSE
INVARIANTS DeskTyped TwiceOnlyAfterRefusal OneClaim OneDecision ScreenSettles
PROPERTIES SavedMeansRemoved NotSweptInUse GoneStaysGone

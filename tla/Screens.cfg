SPECIFICATION ScreensFairSpec
CONSTANTS
    Text = {"contact"}
    PageSize = 2
    MaxMsg = 2
    Email = {e1, e2}
    Guarded = {e2}
    MaxTry = 3
    MaxRun = 2
    Tab = {t1, t2}
    MaxSecret = 2
    MaxNote = 2
    MaxMark = 2
    MaxPress = 1
    MaxPost = 2
CHECK_DEADLOCK FALSE
INVARIANTS ScreensTyped ClosedForGood OnlyTheirs
PROPERTIES WrittenBlind NobodyWaits

SPECIFICATION PagesSpec
CONSTANTS
    Total = 2
    Phases = {1, 2, 3, 4, 6, 7}
    Hours = {1, 2}
    LastHour = 1
    MaxRate = 2
    MaxCall = 2
    MaxOther = 1
    MaxPick = 1
    MaxPut = 2
CHECK_DEADLOCK FALSE
INVARIANTS PagesTyped PageTellsTheTruth HeldAsShown
PROPERTIES DownForGood

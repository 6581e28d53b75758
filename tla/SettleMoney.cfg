SPECIFICATION FairSpec
CONSTANTS
  Amount = 3
  OwnerNet = 2
  MayCrash = TRUE
  MayPause = TRUE
  MayDispute = TRUE
  MaxDebt = 1
INVARIANTS MoneyConserved MoneyFollowsBooking PagesTellTheMoney HalfDoneIsFinished
PROPERTIES EveryEventHandled NoPayoutUnderDispute
CHECK_DEADLOCK FALSE

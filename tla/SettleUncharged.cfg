SPECIFICATION Spec
CONSTANTS
  Amount = 2
  OwnerNet = 1
  MayCrash = FALSE
  MayPause = FALSE
  MayDispute = FALSE
  MaxDebt = 0
INVARIANTS CancelledWasCharged
CHECK_DEADLOCK FALSE

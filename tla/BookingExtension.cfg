SPECIFICATION FairSpec
CONSTANTS
  ann = ann
  bob = bob
  hugo = hugo
  saw = saw
  r1 = r1
  r2 = r2
  r3 = r3
  k1 = k1
  None = None
  People = {ann, bob, hugo}
  Listings = {saw}
  Requests = {r1, r2}
  Body <- ExtendedBody
  Owner <- MCOwner
  Policy <- AllStrict
  Instant = {}
  Amount = 2
  PaymentTimeout = 1
  AnswerWithin = 2
  AutoCompleteAfter = 1
  StartEarly = 1
  MinLead = 1
  MaxUnpaid = 3
  MaxRequestsPerDay = 10
  NoShowGrace = 1
  NoShowReportable = 2
  Day = 1
  Week = 2
  MayModerate = {}
  MayRemove = {}
  MayBlock = {}
  MaxTime = 4
PROPERTIES EndingSettlesAll NothingIsLeftOpen
CHECK_DEADLOCK FALSE

SPECIFICATION FairSpec
CONSTANTS
  relay1 = relay1
  relay2 = relay2
  worker1 = worker1
  worker2 = worker2
  Relays = {relay1, relay2}
  Workers = {worker1, worker2}
  Events = {1, 2}
  Refused = {}
  MaxAttempts = 2
  MaxFaults = 1
  BatchSize = 2
  ChunkSize = 1
  MaxReceives = 2
  MaxCopies = 2
INVARIANTS ClaimsAreApart SentIsSomewhere
PROPERTIES AppliedOnce EveryEventArrives
CHECK_DEADLOCK FALSE

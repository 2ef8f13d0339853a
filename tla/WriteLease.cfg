SPECIFICATION Spec
CHECK_DEADLOCK FALSE
CONSTANTS
  Acquirers = {r1}
  Timed = {r1}
  Cancellable = {r1, s1}
  Precise = {s1}
  Direct = {d1}
  Nobody = Nobody
  MaxFaults = 1
INVARIANTS
  LeaseHasOneHolder
  EndedMeansReleased
  NobodyWaitsForever

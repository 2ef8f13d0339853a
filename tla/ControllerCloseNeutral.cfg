SPECIFICATION Spec
CONSTANTS
  Actions = {a1, a2}
  Interval = 1
  SharedLease = FALSE
  MaxFaults = 0
INVARIANT
  ClosedNeutral
CHECK_DEADLOCK FALSE

SPECIFICATION Spec
CONSTANTS
  Actions = {a1, a2}
  Interval = 1
  SharedLease = TRUE
  MaxFaults = 1
SYMMETRY ActionSymmetry
INVARIANTS
  TruthfulOutcome
  ActionsArePaced
  EveryoneIsAnswered
PROPERTIES
  SettledOnce
  ReleaseIsLast
CHECK_DEADLOCK FALSE

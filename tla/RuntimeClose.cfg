\* One operation of any mode with its owner task, a resource, two callers of
\* close and one explicit join of the task.
SPECIFICATION CloseSpec
CONSTANTS
  Ops = {o1}
  Waiters = {}
  Resources = {r1}
  Closers = {c1, c2}
  Joiners = {j1}
SYMMETRY CloserSymmetry
INVARIANTS
  JoinNeverPanics
  ClosedMeansConverged
  FailuresDecideOutcome
  WorkerOutlivesOwners
  FinalEventTellsOutcome
  CloseReturns
CHECK_DEADLOCK FALSE

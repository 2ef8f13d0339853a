\* One operation of any mode (legacy, exclusive, transferable) and one waiter.
SPECIFICATION FairTreeSpec
CONSTANTS
  Ops = {o1}
  Waiters = {w1}
  MaxChildren = 2
  Cancellers = {t1}
  None = None
INVARIANTS
  NoPanicUnderLock
  TerminalMatchesEvidence
  HandoffRecordSettles
  EventsFollowLifecycle
  NoChildEscapes
PROPERTIES
  ImplementsLifecycle
  FinishingReachesWaiters
CHECK_DEADLOCK FALSE

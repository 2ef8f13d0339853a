\* Two registrations, due at once or later, a close, and disarms at any time.
SPECIFICATION FairSpec
CONSTANTS
  Registrations = 2
  MaxNow = 1
INVARIANTS
  ResolvedExactlyOnce
  FiresInOrder
  NoLostNotification
PROPERTIES
  NobodyIsForgotten
CHECK_DEADLOCK FALSE

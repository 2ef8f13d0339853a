SPECIFICATION Spec
CONSTANTS
  Subscriptions = {s1}
  Readers = {r1, r2}
  Capacity = 2
  MaxEvents = 6
INVARIANTS
  StreamAccountsForEvents
  SleepersHaveNothingToRead
PROPERTIES
  CriticalsDisplaceOrdinary
CHECK_DEADLOCK FALSE

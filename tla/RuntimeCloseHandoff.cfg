\* The same instance as RuntimeClose.cfg, for the claim about the handoff.
SPECIFICATION CloseSpec
CONSTANTS
  Ops = {o1}
  Waiters = {}
  Resources = {}
  Closers = {c1}
  Joiners = {j1}
PROPERTIES
  HandoffNotLost
CHECK_DEADLOCK FALSE

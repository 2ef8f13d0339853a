SPECIFICATION Spec
CONSTANTS
  FrameLen = 2
  MaxFaults = 1
  MaxOwed = 1
  Connects = {k1}
  Acks = {a1}
  Selects = {e1}
  Saves = {s1}
  Bauds = 2
  Chunks = 1
  MaxRetries = 1
  MaxCancels = 1
  MaxRequests = 3
INVARIANTS
  SettlementIsTruthful
  NoOrphanTransfer
  OwnReplies
  NobodyIsStuck
PROPERTIES
  NoHalfSave
CHECK_DEADLOCK FALSE

CONSTANTS
  RingSize = 2
  TxFifoBytes = 200
  EvqSize = 8
  SeqBits = 2
  UnsolMod = 4
  UnsolCap = 2
  Lens = {56}
  DmaIds = {d1, d2}
  TxTimestamps = TRUE
  NicErrors = TRUE
  MaxAdded = 3
  Sec0 = 255
  MaxSecs = 1
  POSTED_ID = POSTED_ID
  ID_MASK = ID_MASK
  NoSync = NoSync
SPECIFICATION Spec
INVARIANT TxTimestampCorrect
PROPERTY TxQueueSafety

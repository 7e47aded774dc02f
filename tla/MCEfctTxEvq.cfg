CONSTANTS
  RingSize = 1
  TxFifoBytes = 200
  EvqSize = 4
  SeqBits = 2
  UnsolMod = 4
  UnsolCap = 2
  Lens = {56}
  DmaIds = {d1}
  TxTimestamps = TRUE
  NicErrors = FALSE
  MaxAdded = 2
  Sec0 = 254
  MaxSecs = 4
  POSTED_ID = POSTED_ID
  ID_MASK = ID_MASK
  NoSync = NoSync
SPECIFICATION Spec
INVARIANT NoEvqOverflow

CONSTANTS
  RingSize = 2
  TxFifoBytes = 200
  EvqSize = 8
  SeqBits = 2
  UnsolMod = 4
  UnsolCap = 2
  Lens = {56, 57}
  DmaIds = {d1}
  TxTimestamps = FALSE
  NicErrors = FALSE
  MaxAdded = 4
  Sec0 = 254
  MaxSecs = 0
  POSTED_ID = POSTED_ID
  ID_MASK = ID_MASK
  NoSync = NoSync
SPECIFICATION Spec
INVARIANT TypeOK
INVARIANT CtFifoWithinHardware
INVARIANT NoTxBug
PROPERTY AllTxCompleted
PROPERTY TxQueueRefinement

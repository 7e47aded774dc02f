CONSTANTS
  NoWord = NoWord
  Unused = Unused
  RxqIx = {0, 1, 6, 7}
  SbIx  = {0, 1, 1023, 1024, 2047}
  PktIx = {0, 1, 2, 32767, 32768, 65534, 65535}
SPECIFICATION Spec
INVARIANT TypeOK
INVARIANT ApertureHoldsPacket
INVARIANT PktIdRoundTrip
INVARIANT DescLookupAgrees
INVARIANT ClassifyMatchesTableForStatusFlags
INVARIANT PollWithinArray
INVARIANT CheckEventComplete
PROPERTY EveryQueueServed
PROPERTY SbFreeRefinement
CHECK_DEADLOCK FALSE

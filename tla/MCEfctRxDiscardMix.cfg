CONSTANTS
  Qix = 1
  SB = {0, 1}
  SbPkts = 2
  SeqBits = 8
  MaxSuperbufs = 4
  MaxEvs = 2
  MaxGen = 1
  Hdrs <- MCHdrs
  RxDiscardMask <- DefaultDiscardMask
  Sleeps = FALSE
  Stamps = TRUE
  NoWake = NoWake
  NoSb = NoSb
  NoPkt = NoPkt
SPECIFICATION Spec
INVARIANT RxDiscardsMatchMetadata
INVARIANT RxTimestampOwn

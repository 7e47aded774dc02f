CONSTANTS
  Qix = 1
  SB = {0, 1, 2}
  SbPkts = 2
  SeqBits = 8
  MaxSuperbufs = 4
  MaxEvs = 2
  MaxGen = 1
  Hdrs <- MCHdrs1
  RxDiscardMask <- DefaultDiscardMask
  Sleeps = FALSE
  Stamps = FALSE
  NoWake = NoWake
  NoSb = NoSb
  NoPkt = NoPkt
SPECIFICATION Spec
INVARIANT TypeOK
INVARIANT RefcntConservation
INVARIANT NoUseAfterFree
INVARIANT RxInOrder
INVARIANT NoLostWakeup
PROPERTY AllDelivered

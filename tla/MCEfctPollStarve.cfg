CONSTANTS
  Active = {0, 1}
  SbPkts = 2
  AvailCap = 2
  EvsLens = {1, 2}
  TxQ = TRUE
  MaxTxEvs = 1
  Sustained = TRUE
  MaxArrivals = 4
  MaxCfg = 1
SPECIFICATION Spec
PROPERTY EveryQueueServed

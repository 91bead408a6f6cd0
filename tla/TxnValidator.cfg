CONSTANTS
  p = p
  c = c
  x = x
  q = q
  o = o
  k = k
  A = A
  Txs <- Family
  Inputs <- FamilyInputs
  Outputs <- OneOutput
  Peer <- OnePeer
  Coins <- ChainCoins
  BlockChoices = {{p}}
  Submitted = {p}
  Slow = {p}
  Shady = {x}
  MaxToSchedule = 2
  MaxStd = 1
  MaxNonStd = 1
  MaxQueue = 1
  MaxPool = 1
  MaxOrphanTxs = 1
  MaxOrphansInBatch = 2
  Fragile = {c}
  MaxUpsets = 1
SPECIFICATION FairSpec
INVARIANTS
  PoolConsistent
  DetectorExact
  ParentsFirst
  OrphanRetried
PROPERTY SlowProcessed
CHECK_DEADLOCK FALSE

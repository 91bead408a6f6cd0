CONSTANTS
  p = p
  c = c
  x = x
  q = q
  o = o
  k = k
  A = A
  Txs <- Line
  Inputs <- LineInputs
  Outputs <- OneOutput
  Peer <- OnePeer
  Coins <- ChainCoins
  BlockChoices = {}
  Submitted = {}
  Slow = {o}
  Shady = {}
  MaxToSchedule = 4
  MaxStd = 3
  MaxNonStd = 1
  MaxQueue = 3
  MaxPool = 4
  MaxOrphanTxs = 3
  MaxOrphansInBatch = 3
  Fragile = {}
  MaxUpsets = 0
SPECIFICATION Spec
INVARIANT PoolConsistent
CHECK_DEADLOCK FALSE

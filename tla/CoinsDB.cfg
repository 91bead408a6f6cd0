CONSTANTS
  g = g
  a1 = a1
  a2 = a2
  b1 = b1
  x = x
  y = y
  Blocks <- Fork
  Genesis = g
  Parent <- ForkParent
  Chain <- ForkChain
  Work <- ForkWork
  Addr <- ForkAddr
  Outpoints <- ForkOutpoints
  Spent = Spent
  Spends <- ForkSpends
  Creates <- ForkCreates
  Coinbase = {}
  Utxo <- ForkUtxo
  Threads = {t1, t2, t3}
  None = None
  MaxJobs = 3
SPECIFICATION FairSpec
INVARIANTS
  CoinsMatchBestBlock
  ViewsAreSnapshots
  AssertionsHold
PROPERTY
  JobsEnd
CHECK_DEADLOCK FALSE

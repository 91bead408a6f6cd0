CONSTANTS
  g = g
  a1 = a1
  a2 = a2
  b1 = b1
  x = x
  y = y
  c = c
  Blocks <- Fork
  Genesis = g
  Parent <- ForkParent
  Chain <- ForkChain
  Work <- ForkWork
  Addr <- ForkAddr
  Outpoints <- ForkOutpoints
  Spent = Spent
  Spends <- ForkSpends
  Creates <- ForkCreates
  Coinbase <- ForkCoinbase
  Utxo <- ForkUtxo
  Down = Down
  Null = Null
  MinBlocksToKeep = 1
  Prunes = FALSE
  MaxCrashes = 1
  Invalidable = {a1}
SPECIFICATION Spec
INVARIANT
  StartupSucceeds

SPECIFICATION Spec
CONSTANTS
  g = g
  a1 = a1
  a2 = a2
  b1 = b1
  b2 = b2
  c1 = c1
  None = None
  Blocks <- Fork
  Genesis = g
  Parent <- ForkParent
  Chain <- ForkChain
  Work <- ForkWork
  Addr <- ForkAddr
  FreezeDuration = 1
  Threads = {t1, t2}
  MaxParallelBlocks = 2
  BadContext = {}
  BadScripts = {}
  FrozenSpend = {}
  BadTTOR = {}
  TTORDistance = 10
  KeepBlocks = 10
  Invalidatable = {a1}
  SoftRejectable = {}
  SoftRejectFor = {}
  MaxPrecious = 0
  Prunable = {}
  MaxSeqId = 0
INVARIANTS
  ActiveChainValid

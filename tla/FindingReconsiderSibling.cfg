SPECIFICATION Spec
CONSTANTS
  g = g
  a1 = a1
  a2 = a2
  b1 = b1
  b2 = b2
  c1 = c1
  None = None
  Blocks <- Split
  Genesis = g
  Parent <- SplitParent
  Chain <- SplitChain
  Work <- SplitWork
  Addr <- SplitAddr
  FreezeDuration = 1
  Threads = {t1}
  MaxParallelBlocks = 2
  BadContext = {}
  BadScripts = {}
  FrozenSpend = {}
  BadTTOR = {}
  TTORDistance = 10
  KeepBlocks = 10
  Invalidatable = {a1, a2}
  SoftRejectable = {}
  SoftRejectFor = {}
  MaxPrecious = 0
  Prunable = {}
  MaxSeqId = 0
INVARIANTS
  FailureHasSource

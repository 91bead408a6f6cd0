SPECIFICATION Spec
CONSTANTS
  g = g
  a1 = a1
  a2 = a2
  b1 = b1
  b2 = b2
  c1 = c1
  None = None
  Blocks <- TwoBranches
  Genesis = g
  Parent <- TwoParent
  Chain <- TwoChain
  Work <- HeavyWork
  Addr <- TwoAddr
  FreezeDuration = 0
  Threads = {t1}
  MaxParallelBlocks = 2
  BadContext = {a2}
  BadScripts = {}
  FrozenSpend = {b1}
  BadTTOR = {}
  TTORDistance = 10
  KeepBlocks = 1
  Invalidatable = {b2}
  SoftRejectable = {a1, b2}
  SoftRejectFor = {0, 1}
  MaxPrecious = 0
  Prunable = {a1, b1}
  MaxSeqId = 5
INVARIANTS
  QuiescentTipIsBest
  UnlinkedExact

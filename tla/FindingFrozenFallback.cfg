SPECIFICATION Spec
CONSTANTS
  g = g
  a1 = a1
  a2 = a2
  b1 = b1
  b2 = b2
  c1 = c1
  None = None
  Blocks <- Tall
  Genesis = g
  Parent <- TallParent
  Chain <- TallChain
  Work <- TallWork
  Addr <- TallAddr
  FreezeDuration = 1
  Threads = {t1, t2}
  MaxParallelBlocks = 2
  BadContext = {}
  BadScripts = {b2}
  FrozenSpend = {a1}
  BadTTOR = {}
  TTORDistance = 10
  KeepBlocks = 10
  Invalidatable = {}
  SoftRejectable = {}
  SoftRejectFor = {0, 1}
  MaxPrecious = 0
  Prunable = {}
  MaxSeqId = 0
INVARIANTS
  QuiescentTipIsBest

SPECIFICATION Spec
CONSTANTS
  g = g
  a1 = a1
  a2 = a2
  b1 = b1
  b2 = b2
  c1 = c1
  None = None
  Blocks <- Line
  Genesis = g
  Parent <- LineParent
  Chain <- LineChain
  Work <- LineWork
  Addr <- LineAddr
  FreezeDuration = 1
  Threads = {t1}
  MaxParallelBlocks = 2
  BadContext = {}
  BadScripts = {}
  FrozenSpend = {a1}
  BadTTOR = {}
  TTORDistance = 10
  KeepBlocks = 10
  Invalidatable = {}
  SoftRejectable = {a1, a2}
  SoftRejectFor = {0, 1}
  MaxPrecious = 0
  Prunable = {}
  MaxSeqId = 0
INVARIANTS
  QuiescentTipNotFrozen

SPECIFICATION Spec
CONSTANTS
  g = g
  a1 = a1
  a2 = a2
  b1 = b1
  b2 = b2
  c1 = c1
  None = None
  Blocks <- Crown
  Genesis = g
  Parent <- CrownParent
  Chain <- CrownChain
  Work <- CrownWork
  Addr <- CrownAddr
  FreezeDuration = 1
  Threads = {t1}
  MaxParallelBlocks = 2
  BadContext = {}
  BadScripts = {b2}
  FrozenSpend = {a1}
  BadTTOR = {}
  TTORDistance = 10
  KeepBlocks = 10
  Invalidatable = {b1}
  SoftRejectable = {a1}
  SoftRejectFor = {1}
  MaxPrecious = 1
  Prunable = {}
  MaxSeqId = 0
INVARIANTS
  QuiescentTipIsBest
  QuiescentTipNotFrozen
  SoftRejectInherited

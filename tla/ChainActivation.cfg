SPECIFICATION FairSpec
CONSTANTS
  g = g
  a1 = a1
  a2 = a2
  b1 = b1
  b2 = b2
  c1 = c1
  None = None
  Blocks <- TwoBranches
  Genesis = g
  Parent <- TwoParent
  Chain <- TwoChain
  Work <- TwoWork
  Addr <- TwoAddr
  FreezeDuration = 1
  Threads = {t1, t2}
  MaxParallelBlocks = 1
  BadContext = {}
  BadScripts = {b2}
  FrozenSpend = {}
  BadTTOR = {}
  TTORDistance = 10
  KeepBlocks = 10
  Invalidatable = {}
  SoftRejectable = {}
  SoftRejectFor = {}
  MaxPrecious = 0
  Prunable = {}
  MaxSeqId = 0
INVARIANTS
  TypeOK
  NoDoubleValidation
  QuiescentTipIsBest
  LinkedIffReceived
PROPERTIES
  ConnectExtendsTip
  ActivationConverges

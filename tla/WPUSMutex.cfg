CONSTANTS
  Threads = {t1, t2, t3, t4}
SPECIFICATION LockFairSpec
INVARIANTS
  MutualExclusion
  SnapshotStable
  NoLostWakeup
PROPERTIES
  WriteGranted
  TryReturns
  ImplementsSharedMutex

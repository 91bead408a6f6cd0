CONSTANTS
  a = a
  b = b
  c = c
  d = d
  x = x
  Txs <- Family
  Parents <- FamilyParents
  Conflicts <- FamilyConflicts
  Surplus <- FamilySurplus
  BlockChoices <- FamilyBlocks
  NonFinal = {c}
  Prioritised = {}
  MaxDelta = 1
  MaxBlocks = 2
  MaxChanges = 4
  Overlaps = TRUE
  MaxVisited = 10
  MaxDisconnected = 1
SPECIFICATION Spec
INVARIANT JournalSynced

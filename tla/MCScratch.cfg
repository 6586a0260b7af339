CONSTANTS
  Owner = {o1, o2, o3}
  NoFile = NoFile
  Limit = 3
  MaxExtent = 2
SPECIFICATION FairSpec
INVARIANT InUseIsAnonymous
INVARIANT LeftoversRemovable
INVARIANT NamesAreExclusive
INVARIANT IdleMeansClean
INVARIANT UsageWithinBudget
PROPERTY ReopensWhenQuiet

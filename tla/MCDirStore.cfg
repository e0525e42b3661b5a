SPECIFICATION DSpec
CONSTANTS
  Ids <- MCIds
  Size <- MCSize
  ItemSettings = {2}
  SizeSettings = {4}
  Jobs = {j1, j2}
  Adapters = {"dir", "memory"}
  Policies = {"keep", "purge", "access"}
  MaxStrays = 1
SYMMETRY JobSymmetry
INVARIANTS
  NamedByContent
  TempsAreOwned
  ListedIsOnDisk
PROPERTIES
  PolicyAppliedAtStart
  RefStoreSpec

SPECIFICATION LSpec
CONSTANTS
  Ids <- MCIds
  Size <- MCSize
  ItemSettings <- MCItemSettings
  SizeSettings <- MCSizeSettings
INVARIANTS
  ListConsistent
  TotalIsListed
PROPERTY LruSpec

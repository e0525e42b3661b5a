SPECIFICATION LSpec
CONSTANTS
  Ids <- MCIds
  Size <- MCSize
  ItemSettings = {0, 2}
  SizeSettings = {0, 4}
INVARIANT ZeroIsNoLimit

SPECIFICATION USpec
CONSTANTS
  GuessLimit = 2
  Forbidden <- MCForbidden
  Dotted <- MCDotted
  Funny <- MCFunny
  TexSegments <- MCTexSegments
  Stem <- MCStem
  StdEncoding <- MCStdEncoding
  RawURLEncoding <- MCRawURLEncoding
  Size = 2
  Spare = 2
  Hash <- MCHash
  Uploads <- MCUploads
  Stores = {"dir", "nop"}
  KeepSettings = {"on-failure"}
INVARIANTS
  FilesAsSent
  DetectedInHead
  MainInputIsClear
  SizesAccounted
  MissingReportedTogether
  RetrySuffices
  ResultIsFound
CHECK_DEADLOCK FALSE

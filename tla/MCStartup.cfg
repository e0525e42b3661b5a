SPECIFICATION SSpec
CONSTANTS
  Tags <- MCTags
  Ids <- MCIds
  Registry <- MCRegistry
  CommandLines <- MCCommandLines
  JobDirFlags <- MCJobDirFlags
  Cwd <- MCCwd
  TempDir <- MCTempDir
  Writable <- MCWritable
  MountLists <- MCMountLists
  Job = "job"
  StartArgs <- MCStartArgs
INVARIANTS
  ServesAsAsked
  RefusedBeforeFilesGo
  AllTagsServed
  ContainersFromList
  RunReportsContainer
  MountShowsFiles
CHECK_DEADLOCK FALSE

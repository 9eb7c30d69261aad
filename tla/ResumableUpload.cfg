\* Two uploads of one shard, and lookups without end.
SPECIFICATION FairSpec
CONSTANTS
  u1 = u1
  u2 = u2
  Uploads = {u1, u2}
  Root <- MCRoot
  Prefix <- MCPrefix
  Fitting = {"short"}
  Sha256 <- MCSha256
  Key <- MCKey
  FileId <- MCFileId
  OtherFiles <- MCOtherFiles
  ChunkSize = 2
  MaxRecovery = 1
  Folders = {1, 2}
  Wanted = u1
  None = None
INVARIANTS
  WholeObject
  NoFalseAlarm
  SearchComplete
PROPERTIES
  Termination

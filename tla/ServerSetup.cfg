\* Two editing commands and two server processes on one file and database.
SPECIFICATION Spec
CONSTANTS
  gh = gh
  s1 = s1
  r1 = r1
  r2 = r2
  dir = dir
  g1 = g1
  None = None
  DefaultName = DefaultName
  Editors = {e1, e2}
  Servers = {p1, p2}
  Providers = {gh, gh2}
  Storages = {s1}
  MappingIds = {r1, r2}
  Identities <- MCIdentities
  Lower <- MCLower
  Malformed <- MCMalformed
  Dirs = {dir}
  DefaultDir = dir
  Accounts = {g1}
  FolderIds = {1, 2}
  OfferedRoots = {1}
  InitialSetups <- MCInitialSetups
  MaxCommands = 3
  MaxStarts = 2
  MaxTrashed = 1
SYMMETRY Symmetry
INVARIANTS
  ServedAsConfigured
  RoutesReachOwn
  ReportedStands
  OneDefaultRoot
\* When the commands and starts are used up nothing is left to do.
CHECK_DEADLOCK FALSE

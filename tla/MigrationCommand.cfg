CONSTANTS
  k1 = k1  k2 = k2  k3 = k3  k4 = k4  k5 = k5
  t1 = t1  t2 = t2  t3 = t3  t4 = t4  t5 = t5  td = td
  bA = bA  bB = bB  bC = bC  all = all  both = both  text = text
  o1 = o1  o2 = o2  o3 = o3
  attributes = attributes  n1 = n1  n2 = n2  dir = dir  sub = sub
  main = main  side = side  head = head  gone = gone
  here = here  alias = alias  old = old  implied = implied  unset = unset

  NoCommit = NoCommit
  Commits <- MCCommits
  Trees <- MCTrees
  Blobs <- MCBlobs
  Objects <- MCObjects
  NoObject = gone
  Attributes = attributes
  RevList <- MCRevList
  TreeOf <- MCTreeOf
  EntriesOf <- MCEntriesOf
  PointerOf <- MCPointerOf
  RulesOf <- MCRulesOf
  Invocations = {"m1", "m2"}
  Branches <- MCBranches
  RefOrder <- MCRefOrder
  ObjectOrder <- MCObjectOrder
  Routes <- MCRoutes
  Legacy <- MCLegacy
  DefaultEndpoint = implied
  Unset = unset
  Clones <- MCClones
  Options <- MCOptions
  CheckedOut = head
  OnGitHub = {implied}
  InitServers = {here}
  BatchSize = 3
  MaxBatchObjects = 2
  MaxBodyObjects = 5
  PublicRoute = here
  TooLarge = {}
  MaxEvents = 1
SPECIFICATION FairSpec
INVARIANTS
  ScanComplete
  NotStranded
  SourceKept
PROPERTIES
  InvocationEnds
CHECK_DEADLOCK FALSE

\* Two processes over two worktrees.
SPECIFICATION Spec
CONSTRAINT ThreeDisturbances
CONSTANTS
  c1 = c1
  c2 = c2
  w1 = w1
  w2 = w2
  p1 = p1
  p2 = p2
  a = a
  pa = pa
  ppa = ppa
  empty = empty
  e1 = e1
  s1 = s1
  Procs = {c1, c2}
  Worktrees = {w1, w2}
  Paths = {p1, p2}
  Blobs = {a, pa, ppa, empty, e1}
  Objects = {a, pa, empty}
  Stripes = {s1}
  Pointer <- MCPointer
  WorktreeOf <- MCWorktreeOf
  Index <- MCIndex
  StripeOf <- MCStripeOf
  UserBlobs = {e1, empty}
  None = None
  MaxCommands = 2
  MaxEdits = 2
  MaxFaults = 1
  MaxMoves = 1
SYMMETRY Twins
INVARIANTS
  DehydratedKept
  SavesSurvive
  NobodyStuck
CHECK_DEADLOCK FALSE

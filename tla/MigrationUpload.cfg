\* Two invocations migrate two objects to one target.
SPECIFICATION FairSpec
CONSTANTS
  Runs = {r1, r2}
  Objects = {o1, o2}
  Garbled = Garbled
  Torn = Torn
  Empty = Empty
  MaxConcurrent = 1
  MaxKills = 1
  MaxStarts = 2
  MaxBreaks = 1
  MaxDeletes = 1
INVARIANTS
  CheckpointTruthful
  SuccessWasLive
PROPERTY
  InvocationEnds
\* The invocations are over when their starts are used up.
CHECK_DEADLOCK FALSE

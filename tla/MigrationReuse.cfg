\* One invocation, killed in the middle of an append and started again.
SPECIFICATION Spec
CONSTANTS
  Runs = {r1}
  Objects = {o1, o2}
  Garbled = Garbled
  Torn = Torn
  Empty = Empty
  MaxConcurrent = 2
  MaxKills = 1
  MaxStarts = 3
  MaxBreaks = 0
  MaxDeletes = 0
INVARIANT
  NeverRefused
CHECK_DEADLOCK FALSE

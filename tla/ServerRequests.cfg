\* Half minutes: a token that lives longer than the skew of one minute.
SPECIFICATION MCSpec
CONSTANTS
  None = None
  Callers = {c1, c2, c3}
  Providers = {p}
  ProviderOf <- MCProviderOf
  Lifetime = 3
  Skew = 2
  Timeout = 1
  MaxTime = 4
  Requests = {q}
  Objects <- MCObjects
  BatchLists <- MCBatchLists
  MaxConcurrentRequests = 1
  MaxBatchObjects = 3
  MaxUploadSize = 1
  LookupConcurrency = 2
  StorageErrors = {"IntegrityMismatch"}
  Nil = Nil
  Downloads = {d1, d2}
  Streaming = {d2}
  Length = 2
  Files = {1, 2}
  Nothing = Nothing
  a1 = a1
  a2 = a2
  b1 = b1
  alice = alice
  bob = bob
  Uploads = {a1, a2, b1}
  Users = {alice, bob}
  UserOf <- MCUserOf
  Declared <- MCDeclared
  GlobalLimit = 2
  PerUserLimit = 1
  MaxUpload = 2
  MinFree = 1
  Capacity = 3
  Unknown = Unknown
  MaxCrashes = 1
INVARIANT
  TokenUsable
  AnswersKept
  ServedWhole
  TempGone
  VolumeShared
PROPERTY
  Answered
\* When every request is answered and the clock stops nothing is left to do.
CHECK_DEADLOCK FALSE

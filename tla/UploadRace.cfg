\* Two server processes upload one object; a download repairs its row, or a
\* batch looks it up; against the promise of ObjectService too.
SPECIFICATION Spec
CONSTRAINT OneStaysAway
CONSTANTS
  u1 = u1
  u2 = u2
  u3 = u3
  d1 = d1
  d2 = d2
  b1 = b1
  p1 = p1
  p2 = p2
  o1 = o1
  o2 = o2
  o3 = o3
  s1 = s1
  Uploads = {u1, u2}
  Downloads = {d1}
  Batches = {b1}
  Processes = {p1, p2}
  Objects = {o1}
  Stripes = {s1}
  FileId <- ThreeIds
  NoId = NoId
  NoRow = NoRow
  Nobody = Nobody
  ObjectOf <- RaceObjectOf
  ProcessOf <- RaceProcessOf
  StripeOf <- OneStripe
  MaxProviderCalls = 2
  BlockingThreads = 2
  MaxFaults = 2
PROPERTY
  ImplementsObjectService
INVARIANTS
  MappingTruthful
  NoDuplicateFiles
  AcknowledgedIsDurable
  NothingLeaks
\* A finite set of requests: when all of them ended nothing is left to do.
CHECK_DEADLOCK FALSE

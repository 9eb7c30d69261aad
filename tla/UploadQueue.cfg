\* One process: two uploads of one object, and an upload of
\* another object whose durable lock is the same stripe; one provider permit.
\* Two of them may fill the pool with their waits while the third holds the lock.
SPECIFICATION FairSpec
CONSTANTS
  u1 = u1
  u2 = u2
  u3 = u3
  d1 = d1
  d2 = d2
  b1 = b1
  p1 = p1
  p2 = p2
  o1 = o1
  o2 = o2
  o3 = o3
  s1 = s1
  Uploads = {u1, u2, u3}
  Downloads = {}
  Batches = {}
  Processes = {p1}
  Objects = {o1, o2}
  Stripes = {s1}
  FileId <- ThreeIds
  NoId = NoId
  NoRow = NoRow
  Nobody = Nobody
  ObjectOf <- QueueObjectOf
  ProcessOf <- QueueProcessOf
  StripeOf <- OneStripe
  MaxProviderCalls = 1
  BlockingThreads = 2
  MaxFaults = 1
PROPERTY
  Termination
\* A finite set of requests: when all of them ended nothing is left to do.
CHECK_DEADLOCK FALSE

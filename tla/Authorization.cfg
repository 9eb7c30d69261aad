\* Two downloads and an upload of one session, one provider call at a time.
SPECIFICATION Spec
CONSTANTS
  r1 = r1
  r2 = r2
  w1 = w1
  s1 = s1
  l1 = l1
  l2 = l2
  l3 = l3
  Requests = {r1, r2, w1}
  Sessions = {s1}
  SessionOf <- MCSessionOf
  WriteOf <- MCWriteOf
  Locks = {l1, l2, l3}
  None = None
  MaxProviderCalls = 1
  Ttl = 1
  CallTime = 1
  MaxTime = 3
  MaxChanges = 1
  MaxDrops = 1
  MaxRepeats = 1
SYMMETRY Twins
INVARIANTS
  SingleFlight
  AuthorizedByFreshGrant
  NobodyStuck
\* A finite set of requests: when all of them ended nothing is left to do.
CHECK_DEADLOCK FALSE

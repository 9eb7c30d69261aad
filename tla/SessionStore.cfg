\* Logins, revocations, expiry, restarts and rotations of one installation.
SPECIFICATION Spec
CONSTANTS
  t1 = t1
  t2 = t2
  p1 = p1
  p2 = p2
  alice = alice
  Tokens = {t1, t2}
  Principals = {alice}
  PrincipalOf <- MCPrincipalOf
  Processes = {p1, p2}
  Rotator = Rotator
  Nobody = Nobody
  None = None
  TicksPerSecond = 2
  Ttl = 3
  Window = 1
  MaxSessions = 2
  MaxPerPrincipal = 1
  MaxIssuances = 1
  MaxTime = 3
  MaxKeys = 3
  MaxFaults = 2
  MaxOverruns = 1
SYMMETRY Twins
INVARIANTS
  RevokedStaysRevoked
  IssuedSurvives
  RestartPossible
\* A finite set of logins and a bounded clock: nothing may be left to do.
CHECK_DEADLOCK FALSE

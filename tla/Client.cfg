\* Two repositories of one server and two tokens; a process writes up to two
\* units of output to a pipe, one more than a hard limit allows.
SPECIFICATION Spec
CONSTANTS
  None = None
  Host = Host
  HandStored = HandStored
  Repos = {r1, r2}
  Tokens = {t1, t2}
  MaxFaults = 2
  Limit = 1
  MaxOutput = 2
INVARIANTS
  CommandOver
  CredentialsAgree
PROPERTIES
  Returns
  LogoutCompletes
\* A process that was waited for, and a user who has logged out for good,
\* have nothing left to do.
CHECK_DEADLOCK FALSE

---------------------------- MODULE SessionStore ----------------------------
(***************************************************************************)
(* Local LFS sessions: a map in the memory of the server process, guarded  *)
(* by one mutex and written through to rows of the metadata database whose *)
(* provider token is encrypted under a key of the operating system's       *)
(* credential store.  A login issues a session, a revocation removes it,   *)
(* the clock expires it, a restart restores it from its row, and the       *)
(* offline rotation command deletes all rows and replaces the key.  The    *)
(* lifecycle lock keeps servers and rotations apart, except that a server  *)
(* whose drain deadline expires gives it up while handlers still run.      *)
(*                                                                         *)
(* Memory keeps instants (ticks), the database whole seconds.              *)
(***************************************************************************)
EXTENDS Integers, FiniteSets

CONSTANTS
  Tokens,           \* one for each login; the login and the session's name
  Principals, PrincipalOf,
  Processes,        \* server processes, one after the other
  Rotator, Nobody,  \* the rotation command; nobody
  None,             \* null value
  TicksPerSecond, Ttl, Window,
  MaxSessions, MaxPerPrincipal, MaxIssuances,  \* SessionStoreLimits
  MaxTime, MaxKeys, MaxFaults, MaxOverruns     \* bounds

ASSUME SessionAssumption ==
  /\ PrincipalOf \in [Tokens -> Principals] /\ IsFiniteSet(Tokens)
  /\ Rotator \notin Processes /\ Nobody \notin Processes \cup {Rotator}
  /\ None \notin Nat \cup Tokens /\ None \notin [expires : Nat, key : Nat]
  /\ TicksPerSecond \in Nat \ {0} /\ Ttl \in Nat /\ Window \in Nat
  /\ Ttl >= TicksPerSecond
  /\ {MaxSessions, MaxPerPrincipal, MaxIssuances} \subseteq Nat \ {0}
  /\ {MaxTime, MaxKeys, MaxFaults, MaxOverruns} \subseteq Nat

VARIABLES
  now,     \* the clock
  phase,   \* phase[t]: where the login or the revocation of t is
  proc,    \* proc[t]: the process that handles it
  at,      \* at[t]: the clock reading its handler works with
  mode,    \* mode[p]: the life of a process
  mutex,   \* mutex[p]: the handler inside p's session store
  mem,     \* mem[p][t]: expiry of t in the memory of p, or None
  recent,  \* recent[p][t]: when p issued t, or None
  procKey, \* procKey[p]: the key p encrypts with
  rows,    \* rows[t]: the durable row of t, or None
  key,     \* the key in the credential store, or None
  keys,    \* keys generated so far
  holder,  \* who holds the lifecycle lock
  rotation,\* the rotation command
  faults, overruns

vars == <<now, phase, proc, at, mode, mutex, mem, recent, procKey, rows, key,
          keys, holder, rotation, faults, overruns>>
memory == <<mem, recent>>
lives == <<mode, procKey, holder, rotation, overruns>>
secret == <<key, keys>>

Row == [expires : Nat, key : Nat]
Inside == {"prune", "insert", "remember", "delete", "forget"}
Waiting == {"issue", "revoke"}
Phases == {"new", "refused", "live", "revoked", "lost", "invalidated"}
            \cup Inside \cup Waiting

Seconds(tick) == tick \div TicksPerSecond

Ticks(second) == second * TicksPerSecond

NoTokens == [t \in Tokens |-> None]

Init ==
  /\ now = 0
  /\ phase = [t \in Tokens |-> "new"]
  /\ proc = [t \in Tokens |-> Nobody]
  /\ at = [t \in Tokens |-> 0]
  /\ mode = [p \in Processes |-> "off"]
  /\ mutex = [p \in Processes |-> None]
  /\ mem = [p \in Processes |-> NoTokens]
  /\ recent = [p \in Processes |-> NoTokens]
  /\ procKey = [p \in Processes |-> None]
  /\ rows = NoTokens
  /\ key = None /\ keys = 0
  /\ holder = Nobody /\ rotation = "off"
  /\ faults = 0 /\ overruns = 0

Goto(t, ph) == phase' = [phase EXCEPT ![t] = ph]

(* In memory a session lives while its expiry is in the future; a row      *)
(* lives while its whole second is.                                        *)
Valid(p, t) == mem[p][t] # None /\ mem[p][t] > now
RowLivesRounded(t, second) == \* mutant: the row's second counts as over
  rows[t] # None /\ rows[t].expires > second + 1

RowLives(t, second) == rows[t] # None /\ rows[t].expires > second

UnexpiredRows(second) ==
  [t \in Tokens |-> IF RowLives(t, second) THEN rows[t] ELSE None]

Kept(f) == {t \in Tokens : f[t] # None}
KeptOf(f, x) == {t \in Kept(f) : PrincipalOf[t] = x}

----------------------------------------------------------------------------
(* Issue.  The clock is read before the mutex is taken.                    *)

Login(p, t) ==
  /\ mode[p] = "up" /\ phase[t] = "new"
  /\ proc' = [proc EXCEPT ![t] = p] /\ at' = [at EXCEPT ![t] = now]
  /\ Goto(t, "issue")
  /\ UNCHANGED <<now, mutex, memory, rows, secret, lives, faults>>

Enter(t) ==
  /\ phase[t] \in Waiting /\ mutex[proc[t]] = None
  /\ mutex' = [mutex EXCEPT ![proc[t]] = t]
  /\ Goto(t, IF phase[t] = "issue" THEN "prune" ELSE "delete")
  /\ UNCHANGED <<now, proc, at, memory, rows, secret, lives, faults>>

Leave(t) == mutex' = [mutex EXCEPT ![proc[t]] = None]

(* Memory forgets what expired, and issuances older than the window.       *)
Unexpired(t) ==
  [s \in Tokens |-> LET e == mem[proc[t]][s] IN
                     IF e # None /\ e > at[t] THEN e ELSE None]
StillRecent(t) ==
  [s \in Tokens |-> LET i == recent[proc[t]][s] IN
                     IF i # None /\ i + Window > at[t] THEN i ELSE None]

PruneMemory(t) ==
  /\ mem' = [mem EXCEPT ![proc[t]] = Unexpired(t)]
  /\ recent' = [recent EXCEPT ![proc[t]] = StillRecent(t)]

(* enforce_session_admission                                               *)
Admitted(t) ==
  /\ Cardinality(KeptOf(Unexpired(t), PrincipalOf[t])) < MaxPerPrincipal
  /\ Cardinality(KeptOf(StillRecent(t), PrincipalOf[t])) < MaxIssuances
  /\ Cardinality(Kept(Unexpired(t))) < MaxSessions

(* Expired rows are deleted too, then the limits are enforced.             *)
Prune(t) ==
  /\ phase[t] = "prune"
  /\ PruneMemory(t)
  /\ rows' = UnexpiredRows(Seconds(at[t]))
  /\ IF Admitted(t) THEN Goto(t, "insert") /\ UNCHANGED mutex
                    ELSE Goto(t, "refused") /\ Leave(t)
  /\ UNCHANGED <<now, proc, at, secret, lives, faults>>

Insert(t) ==
  /\ phase[t] = "insert" /\ Goto(t, "remember")
  /\ rows' = [rows EXCEPT ![t] = [expires |-> Seconds(at[t] + Ttl),
                                  key |-> procKey[proc[t]]]]
  /\ UNCHANGED <<now, proc, at, mutex, memory, secret, lives, faults>>

Remember(t) ==
  /\ phase[t] = "remember" /\ Goto(t, "live") /\ Leave(t)
  /\ mem' = [mem EXCEPT ![proc[t]][t] = at[t] + Ttl]
  /\ recent' = [recent EXCEPT ![proc[t]][t] = at[t]]
  /\ UNCHANGED <<now, proc, at, rows, secret, lives, faults>>

----------------------------------------------------------------------------
(* Verification and revocation.                                            *)

(* A request with an expired token removes it from memory.                 *)
Expire(p, t) ==
  /\ mode[p] = "up" /\ mutex[p] = None
  /\ mem[p][t] # None /\ ~Valid(p, t)
  /\ mem' = [mem EXCEPT ![p][t] = None]
  /\ UNCHANGED <<now, phase, proc, at, mutex, recent, rows, secret, lives,
                 faults>>

(* The owner logs out, or GitHub no longer accepts the session's token.    *)
Logout(p, t) ==
  /\ mode[p] = "up" /\ phase[t] = "live" /\ mutex[p] = None /\ Valid(p, t)
  /\ proc' = [proc EXCEPT ![t] = p] /\ Goto(t, "revoke")
  /\ UNCHANGED <<now, at, mutex, memory, rows, secret, lives, faults>>

DeleteLater(t) ==            \* mutant: only memory forgets
  /\ phase[t] = "delete" /\ Goto(t, "forget")
  /\ UNCHANGED <<now, proc, at, mutex, memory, rows, secret, lives, faults>>

Delete(t) ==
  /\ phase[t] = "delete" /\ Goto(t, "forget")
  /\ rows' = [rows EXCEPT ![t] = None]
  /\ UNCHANGED <<now, proc, at, mutex, memory, secret, lives, faults>>

Forget(t) ==
  /\ phase[t] = "forget" /\ Goto(t, "revoked") /\ Leave(t)
  /\ mem' = [mem EXCEPT ![proc[t]][t] = None]
  /\ UNCHANGED <<now, proc, at, recent, rows, secret, lives, faults>>

(* SQLite fails: a login is refused after memory has been pruned, a        *)
(* revocation leaves the session as it was.                                *)
DatabaseFails(t) ==
  /\ faults < MaxFaults /\ faults' = faults + 1
  /\ phase[t] \in {"prune", "insert", "delete"} /\ Leave(t)
  /\ Goto(t, IF phase[t] = "delete" THEN "live" ELSE "refused")
  /\ IF phase[t] = "prune" THEN PruneMemory(t) ELSE UNCHANGED memory
  /\ UNCHANGED <<now, proc, at, rows, secret, lives>>

----------------------------------------------------------------------------
(* The life of a process.                                                  *)

Start(p) ==
  /\ mode[p] = "off" /\ holder = Nobody
  /\ holder' = p /\ mode' = [mode EXCEPT ![p] = "loading"]
  /\ UNCHANGED <<now, phase, proc, at, mutex, memory, procKey, rows, secret,
                 rotation, faults, overruns>>

(* load_or_create_managed_session_key: a missing key is generated only     *)
(* when no unexpired session would become unreadable.                      *)
LoadKey(p) ==
  /\ mode[p] = "loading"
  /\ IF key # None
       THEN /\ procKey' = [procKey EXCEPT ![p] = key]
            /\ mode' = [mode EXCEPT ![p] = "opening"]
            /\ UNCHANGED <<rows, secret, holder>>
       ELSE /\ rows' = UnexpiredRows(Seconds(now))
            /\ IF rows' = NoTokens
                 THEN /\ keys < MaxKeys
                      /\ keys' = keys + 1 /\ key' = keys'
                      /\ procKey' = [procKey EXCEPT ![p] = key']
                      /\ mode' = [mode EXCEPT ![p] = "opening"]
                      /\ UNCHANGED holder
                 ELSE /\ mode' = [mode EXCEPT ![p] = "off"]
                      /\ holder' = Nobody
                      /\ UNCHANGED <<secret, procKey>>
  /\ UNCHANGED <<now, phase, proc, at, mutex, memory, rotation, faults,
                 overruns>>

(* A row another key encrypts, or too many of them, fail the start.        *)
decrypt(p, row) == row.key = procKey[p]

Readable(p, live) ==
  /\ \A t \in Kept(live) : decrypt(p, live[t])
  /\ Cardinality(Kept(live)) <= MaxSessions

(* open_durable                                                            *)
Open(p) ==
  /\ mode[p] = "opening"
  /\ rows' = UnexpiredRows(Seconds(now))
  /\ IF Readable(p, rows')
       THEN /\ mem' = [mem EXCEPT ![p] = [t \in Tokens |->
                         IF rows'[t] = None THEN None
                                            ELSE Ticks(rows'[t].expires)]]
            /\ mode' = [mode EXCEPT ![p] = "up"] /\ UNCHANGED holder
       ELSE /\ mode' = [mode EXCEPT ![p] = "off"] /\ holder' = Nobody
            /\ UNCHANGED mem
  /\ UNCHANGED <<now, phase, proc, at, mutex, recent, procKey, secret,
                 rotation, faults, overruns>>

Busy(p) == {t \in Tokens : proc[t] = p /\ phase[t] \in Inside \cup Waiting}

(* Whatever p had in memory is gone, and so are its handlers; phases is    *)
(* what becomes of their logins and revocations.                           *)
Vanish(p, phases) ==
  /\ mode' = [mode EXCEPT ![p] = "off"]
  /\ holder' = IF holder = p THEN Nobody ELSE holder
  /\ mem' = [mem EXCEPT ![p] = NoTokens]
  /\ recent' = [recent EXCEPT ![p] = NoTokens]
  /\ procKey' = [procKey EXCEPT ![p] = None]
  /\ mutex' = [mutex EXCEPT ![p] = None]
  /\ phase' = phases

(* A drained server, or one whose last handlers ran out, exits.            *)
Exit(p) ==
  /\ mode[p] \in {"up", "overrun"} /\ Busy(p) = {}
  /\ Vanish(p, phase)
  /\ UNCHANGED <<now, proc, at, rows, secret, rotation, faults, overruns>>

(* serve returns at the drain deadline and drops the lifecycle lock; a     *)
(* handler that is inside the session store runs on.                       *)
DrainDeadline(p) ==
  /\ mode[p] = "up" /\ Busy(p) # {}
  /\ overruns < MaxOverruns /\ overruns' = overruns + 1
  /\ mode' = [mode EXCEPT ![p] = "overrun"] /\ holder' = Nobody
  /\ UNCHANGED <<now, phase, proc, at, mutex, memory, procKey, rows, secret,
                 rotation, faults>>

(* A revocation that was not answered did not happen, for its owner; but   *)
(* one whose row is gone leaves no session behind.                         *)
AfterCrash(p) ==
  [t \in Tokens |->
     IF t \notin Busy(p) THEN phase[t]
     ELSE IF phase[t] \in {"revoke", "delete"} THEN "live" ELSE "lost"]

Crash(p) ==
  /\ mode[p] # "off" /\ faults < MaxFaults /\ faults' = faults + 1
  /\ Vanish(p, AfterCrash(p))
  /\ UNCHANGED <<now, proc, at, rows, secret, rotation, overruns>>

----------------------------------------------------------------------------
(* lfscloud sessions generate-key                                          *)

Rotate ==
  /\ rotation = "off" /\ holder = Nobody /\ keys < MaxKeys
  /\ rotation' = "delete" /\ holder' = Rotator
  /\ UNCHANGED <<now, phase, proc, at, mode, mutex, memory, procKey, rows,
                 secret, faults, overruns>>

DeleteNone ==                \* mutant: the rows are left to expire
  /\ rotation = "delete" /\ rotation' = "store"
  /\ phase' = [t \in Tokens |-> IF phase[t] = "live" THEN "invalidated"
                                                    ELSE phase[t]]
  /\ UNCHANGED <<now, proc, at, mode, mutex, memory, procKey, rows, secret,
                 holder, faults, overruns>>

DeleteAll ==
  /\ rotation = "delete" /\ rotation' = "store"
  /\ rows' = NoTokens
  /\ phase' = [t \in Tokens |-> IF phase[t] = "live" THEN "invalidated"
                                                    ELSE phase[t]]
  /\ UNCHANGED <<now, proc, at, mode, mutex, memory, procKey, secret, holder,
                 faults, overruns>>

StoreKey ==
  /\ rotation = "store" /\ rotation' = "off" /\ holder' = Nobody
  /\ keys' = keys + 1 /\ key' = keys'
  /\ UNCHANGED <<now, phase, proc, at, mode, mutex, memory, procKey, rows,
                 faults, overruns>>

(* The credential store refuses the new key, or the command is killed.     *)
RotationFails ==
  /\ rotation # "off" /\ faults < MaxFaults /\ faults' = faults + 1
  /\ rotation' = "off" /\ holder' = Nobody
  /\ UNCHANGED <<now, phase, proc, at, mode, mutex, memory, procKey, rows,
                 secret, overruns>>

(* The user or the system removes the entry from the credential store.     *)
LoseKey ==
  /\ key # None /\ key' = None
  /\ faults < MaxFaults /\ faults' = faults + 1
  /\ UNCHANGED <<now, phase, proc, at, mutex, memory, rows, keys, lives>>

Tick ==
  /\ now < MaxTime /\ now' = now + 1
  /\ UNCHANGED <<phase, proc, at, mutex, memory, rows, secret, lives, faults>>

Next ==
  \/ \E p \in Processes, t \in Tokens :
       Login(p, t) \/ Expire(p, t) \/ Logout(p, t)
  \/ \E t \in Tokens :
       \/ Enter(t) \/ Prune(t) \/ Insert(t) \/ Remember(t)
       \/ Delete(t) \/ Forget(t) \/ DatabaseFails(t)
  \/ \E p \in Processes :
       \/ Start(p) \/ LoadKey(p) \/ Open(p)
       \/ Exit(p) \/ DrainDeadline(p) \/ Crash(p)
  \/ Rotate \/ DeleteAll \/ StoreKey \/ RotationFails \/ LoseKey \/ Tick

Spec == Init /\ [][Next]_vars

----------------------------------------------------------------------------
(* The state has the shape the code gives it, and at most one handler is   *)
(* inside the session store of a process (its mutex).                      *)
TypeOK ==
  /\ now \in 0..MaxTime
  /\ phase \in [Tokens -> Phases]
  /\ proc \in [Tokens -> Processes \cup {Nobody}]
  /\ at \in [Tokens -> 0..MaxTime]
  /\ mode \in [Processes -> {"off", "loading", "opening", "up", "overrun"}]
  /\ mutex \in [Processes -> Tokens \cup {None}]
  /\ mem \in [Processes -> [Tokens -> (0..MaxTime + Ttl) \cup {None}]]
  /\ recent \in [Processes -> [Tokens -> (0..MaxTime) \cup {None}]]
  /\ procKey \in [Processes -> (1..MaxKeys) \cup {None}]
  /\ rows \in [Tokens -> Row \cup {None}]
  /\ key \in (1..MaxKeys) \cup {None} /\ keys \in 0..MaxKeys
  /\ holder \in Processes \cup {Rotator, Nobody}
  /\ rotation \in {"off", "delete", "store"}
  /\ faults \in 0..MaxFaults /\ overruns \in 0..MaxOverruns
  /\ \A t \in Tokens : phase[t] \in Inside => mutex[proc[t]] = t

(* No server has overrun its drain deadline: the lifecycle lock did keep   *)
(* servers and rotations apart.                                            *)
Exclusive == overruns = 0

(* An acknowledged revocation is final: no process accepts the token, and  *)
(* no row is left from which a restart could bring it back (revoke).       *)
RevokedStaysRevoked ==
  \A t \in Tokens :
    phase[t] = "revoked" =>
      /\ rows[t] = None
      /\ Exclusive => \A p \in Processes : mem[p][t] = None

(* A session whose login was answered is accepted by every server that is  *)
(* up, whatever crashed or restarted in between, until the whole second in *)
(* which it expires, or a rotation (issue_session_record, open_durable).   *)
IssuedSurvives ==
  \A t \in Tokens :
    /\ Exclusive
    /\ phase[t] = "live" /\ Seconds(now) < Seconds(at[t] + Ttl)
    => /\ RowLives(t, Seconds(now))
       /\ \A p \in Processes : mode[p] = "up" => Valid(p, t)

(* Restarts and crashes between the row and the memory of a session never  *)
(* take a server over its limits, nor leave it too many rows to start; but *)
(* a handler that outlasts its server's drain deadline may leave a user    *)
(* one row too many, since each server counts only what it has in memory   *)
(* (enforce_session_admission, open_durable).                              *)
LimitsHold ==
  /\ \A p \in Processes :
       /\ Cardinality(Kept(mem[p])) <= MaxSessions
       /\ \A x \in Principals :
            /\ Exclusive => Cardinality(KeptOf(mem[p], x)) <= MaxPerPrincipal
            /\ Cardinality(KeptOf(recent[p], x)) <= MaxIssuances
  /\ Exclusive => Cardinality(Kept(UnexpiredRows(Seconds(now)))) <= MaxSessions

(* Every row can be decrypted with the key of the credential store, as     *)
(* long as the store has one: a start is never refused for a wrong key     *)
(* (rotate_managed_session_key, load_or_create_managed_session_key).       *)
RowsReadable ==
  Exclusive /\ key # None => \A t \in Kept(rows) : rows[t].key = key

(* No crash, restart or rotation leaves rows that the next start would     *)
(* refuse: rows it cannot decrypt, or more of them than it may have.       *)
RestartPossible == RowsReadable /\ LimitsHold
=============================================================================

--------------------------- MODULE Authorization ---------------------------
(***************************************************************************)
(* How the server decides that a request may act on a repository.  The     *)
(* session of its token is verified first.  Then a cache of successful     *)
(* decisions is looked up; on a miss, requests with the same key queue for *)
(* a lock of that key, look again, take a provider-call permit and ask the *)
(* repository provider.  The locks live in a map from which the last       *)
(* request to need one removes it.  A token the provider rejects ends its  *)
(* session.  Meanwhile permissions change, users log out, the clock runs,  *)
(* and a client that leaves drops its request's future where it waits.     *)
(***************************************************************************)
EXTENDS Integers, FiniteSets, GitHubPermission

CONSTANTS
  Requests, Sessions,
  SessionOf, WriteOf,  \* of a request: its session; does it upload?
  Locks,               \* identities of lock objects
  MaxProviderCalls,    \* server.max_provider_calls
  Ttl,                 \* AUTHORIZATION_CACHE_TTL
  CallTime,            \* the timeouts of the provider's two requests
  MaxTime, MaxChanges, MaxDrops, MaxRepeats  \* bounds

ASSUME AuthorizationAssumption ==
  /\ SessionOf \in [Requests -> Sessions] /\ WriteOf \in [Requests -> BOOLEAN]
  /\ None \notin Requests \cup Locks \cup Nat
  /\ MaxProviderCalls \in Nat \ {0}
  /\ {Ttl, CallTime, MaxTime, MaxChanges, MaxDrops, MaxRepeats} \subseteq Nat

VARIABLES
  now,      \* the clock
  pc,       \* pc[r]: where the request is
  session,  \* session[s]: does the session store accept s?
  level,    \* level[s]: the permission of the session's user and token
  name,     \* whom the configured repository name belongs to: own or other
  login,    \* login[s]: whom the user's login name belongs to: own or other
  said,     \* said[n]: when the provider last answered yes to need n, or None
  cache,    \* cache[k]: when the decision of key k expires, or None
  entry,    \* entry[k]: the lock the map holds for key k, or None
  owner,    \* owner[l]: the request that holds lock l, or None
  mine,     \* mine[r]: the lock request r has a reference to, or None
  permits,  \* the requests that hold a provider-call permit
  verified, \* the requests for which the name belonged to the repository
  answer,   \* answer[r]: what the provider answered r
  sent,     \* sent[r]: when the provider was asked
  basis,    \* basis[r]: the age of the decision r was authorized by, or None
  changes, drops, repeats

vars == <<now, pc, session, level, name, login, said, cache, entry, owner, mine,
          permits, verified, answer, sent, basis, changes, drops, repeats>>
names == <<name, login>>
world == <<session, level, names, changes, repeats>>
locks == <<entry, owner, mine>>
result == <<verified, answer, sent, said>>

(* What a request needs of the provider, and what its decision is cached   *)
(* under: its session and its permission, of the one repository.           *)
Needs == Sessions \X BOOLEAN
Need(r) == <<SessionOf[r], WriteOf[r]>>

Key(r) == <<SessionOf[r], WriteOf[r]>>

Levels == {"none", "read", "write", "rejected"}
Answers == {"yes", "no", "rejected", "error"}

(* What GitHub may answer.  Whoever else has the repository's name or the  *)
(* login name now, the permission is ample; a token it does not accept, or *)
(* that the session record does not have, is rejected.                     *)
Refusals(s) ==
  IF level[s] = "rejected" THEN {"unauthorized", "forbidden: token"}
  ELSE FailureStatuses \ {"unauthorized", "forbidden: token", "not found"}

IdentityReplies(s) ==
  {Failed(status) : status \in Refusals(s)}
    \cup IF level[s] = "rejected" THEN {}
         ELSE {Ok(name, None), Ok(None, None)}
              \cup IF name = "own" THEN {} ELSE {Failed("not found")}

PermissionOf(s) ==
  IF name = "own" /\ login[s] = "own" THEN level[s] ELSE "admin"

PermissionReplies(s) ==
  {Failed(status) : status \in Refusals(s)}
    \cup IF level[s] = "rejected" THEN {}
         ELSE {Ok(login[s], PermissionOf(s)), Ok(None, PermissionOf(s))}

Phases == {"new", "look", "getLock", "waitLock", "recheck", "waitPermit", "ask",
           "askPermission", "receive", "unlock", "cleanup", "revoke", "authorized", "denied",
           "gone"}

Init ==
  /\ now = 0
  /\ pc = [r \in Requests |-> "new"]
  /\ session = [s \in Sessions |-> TRUE]
  /\ level \in [Sessions -> {"none", "read", "write"}]
  /\ name = "own" /\ login = [s \in Sessions |-> "own"]
  /\ said = [n \in Needs |-> None]
  /\ cache = [k \in Needs |-> None]
  /\ entry = [k \in Needs |-> None]
  /\ owner = [l \in Locks |-> None]
  /\ mine = [r \in Requests |-> None]
  /\ permits = {} /\ verified = {}
  /\ answer = [r \in Requests |-> None]
  /\ sent = [r \in Requests |-> None]
  /\ basis = [r \in Requests |-> None]
  /\ changes = 0 /\ drops = 0 /\ repeats = 0

Goto(r, phase) == pc' = [pc EXCEPT ![r] = phase]

References(l) == {r \in Requests : mine[r] = l}
InMap(l) == \E k \in Needs : entry[k] = l

(* authorization_is_cached drops an expired entry.                         *)
Cached(r) == cache[Key(r)] # None /\ cache[Key(r)] > now

CacheAfterLook(r) == [cache EXCEPT ![Key(r)] = IF Cached(r) THEN @ ELSE None]

(* The age of the provider's last yes to what r needs.                     *)
Age(r) == IF said[Need(r)] = None THEN None ELSE now - said[Need(r)]

AuthorizeBy(r, age) == basis' = [basis EXCEPT ![r] = age]

----------------------------------------------------------------------------
Authenticate(r) ==
  /\ pc[r] = "new"
  /\ Goto(r, IF session[SessionOf[r]] THEN "look" ELSE "denied")
  /\ UNCHANGED <<now, world, cache, locks, permits, result, basis, drops>>

Look(r) ==
  /\ pc[r] = "look"
  /\ cache' = CacheAfterLook(r)
  /\ IF Cached(r) THEN Goto(r, "authorized") /\ AuthorizeBy(r, Age(r))
                  ELSE Goto(r, "getLock") /\ UNCHANGED basis
  /\ UNCHANGED <<now, world, locks, permits, result, drops>>

GetLock(r) ==
  /\ pc[r] = "getLock" /\ Goto(r, "waitLock")
  /\ IF entry[Key(r)] # None
       THEN mine' = [mine EXCEPT ![r] = entry[Key(r)]] /\ UNCHANGED entry
       ELSE \E l \in Locks :
              /\ ~InMap(l) /\ References(l) = {}
              /\ mine' = [mine EXCEPT ![r] = l]
              /\ entry' = [entry EXCEPT ![Key(r)] = l]
  /\ UNCHANGED <<now, world, cache, owner, permits, result, basis, drops>>

Lock(r) ==
  /\ pc[r] = "waitLock" /\ owner[mine[r]] = None
  /\ owner' = [owner EXCEPT ![mine[r]] = r] /\ Goto(r, "recheck")
  /\ UNCHANGED <<now, world, cache, entry, mine, permits, result, basis, drops>>

RecheckLocked(r) ==          \* mutant: the early return keeps the lock
  /\ pc[r] = "recheck"
  /\ cache' = CacheAfterLook(r)
  /\ IF Cached(r)
       THEN /\ answer' = [answer EXCEPT ![r] = "yes"]
            /\ AuthorizeBy(r, Age(r)) /\ Goto(r, "cleanup")
       ELSE UNCHANGED <<answer, basis>> /\ Goto(r, "waitPermit")
  /\ UNCHANGED <<now, world, locks, permits, verified, sent, said,
                 drops>>

(* Another request may have got the decision in the meantime.              *)
Recheck(r) ==
  /\ pc[r] = "recheck"
  /\ cache' = CacheAfterLook(r)
  /\ IF Cached(r)
       THEN /\ answer' = [answer EXCEPT ![r] = "yes"]
            /\ AuthorizeBy(r, Age(r)) /\ Goto(r, "unlock")
       ELSE UNCHANGED <<answer, basis>> /\ Goto(r, "waitPermit")
  /\ UNCHANGED <<now, world, locks, permits, verified, sent, said,
                 drops>>

TakePermit(r) ==
  /\ pc[r] = "waitPermit" /\ Cardinality(permits) < MaxProviderCalls
  /\ permits' = permits \cup {r} /\ Goto(r, "ask")
  /\ UNCHANGED <<now, world, cache, locks, result, basis, drops>>

(* The provider is asked whose the repository name is ...                  *)
Ask(r) ==
  /\ pc[r] = "ask"
  /\ \E reply \in IdentityReplies(SessionOf[r]) :
       LET identity == verify_repository_identity(reply)
       IN  IF identity = "verified"
             THEN Goto(r, "askPermission") /\ UNCHANGED answer
             ELSE /\ answer' = [answer EXCEPT ![r] = Outcome(identity)]
                  /\ Goto(r, "receive")
  /\ verified' = IF name = "own" THEN verified \cup {r} ELSE verified \ {r}
  /\ sent' = [sent EXCEPT ![r] = now]
  /\ UNCHANGED <<now, world, cache, locks, permits, said, basis, drops>>

(* ... and then for the permission of the login name.  A yes counts if it  *)
(* is to the session's own user, in what was the repository when asked.    *)
AskPermission(r) ==
  /\ pc[r] = "askPermission" /\ Goto(r, "receive")
  /\ \E reply \in PermissionReplies(SessionOf[r]) :
       LET outcome == Outcome(check_permission(reply, WriteOf[r]))
       IN  /\ answer' = [answer EXCEPT ![r] = outcome]
           /\ said' = IF outcome = "yes" /\ reply.id = "own" /\ r \in verified
                      THEN [said EXCEPT ![Need(r)] = now] ELSE said
  /\ UNCHANGED <<now, world, cache, locks, permits, verified, sent, basis, drops>>

ExpiryInMillis == 1000 * (now + Ttl)  \* mutant: a wrong unit

Expiry == now + Ttl

(* The decision arrives some time later.                                  *)
Receive(r) ==
  /\ pc[r] = "receive" /\ Goto(r, "unlock")
  /\ IF answer[r] = "yes"
       THEN /\ cache' = [k \in Needs |->
                           IF k = Key(r) THEN Expiry
                           ELSE IF cache[k] # None /\ cache[k] > now
                                THEN cache[k] ELSE None]
            /\ AuthorizeBy(r, Age(r))
       ELSE UNCHANGED <<cache, basis>>
  /\ sent' = [sent EXCEPT ![r] = None] /\ verified' = verified \ {r}
  /\ UNCHANGED <<now, world, locks, permits, answer, said, drops>>

Unlock(r) ==
  /\ pc[r] = "unlock" /\ Goto(r, "cleanup")
  /\ owner' = [owner EXCEPT ![mine[r]] = None]
  /\ UNCHANGED <<now, world, cache, entry, mine, permits, result, basis, drops>>

(* The lock leaves the map if only the map and r have a reference to it.   *)
UnusedByHolder(r) == entry[Key(r)] = mine[r]  \* mutant: waiters not counted

LastUser(r) == References(mine[r]) = {r} /\ entry[Key(r)] = mine[r]

Return(r) ==
  /\ Goto(r, IF answer[r] = "yes" THEN "authorized" ELSE "denied")
  /\ mine' = [mine EXCEPT ![r] = None]
  /\ permits' = permits \ {r}

Cleanup(r) ==
  /\ pc[r] = "cleanup"
  /\ entry' = IF LastUser(r) THEN [entry EXCEPT ![Key(r)] = None] ELSE entry
  /\ IF answer[r] = "rejected"
       THEN Goto(r, "revoke") /\ UNCHANGED <<mine, permits>>
       ELSE Return(r)
  /\ UNCHANGED <<now, world, cache, owner, result, basis, drops>>

(* A session whose row could not be deleted goes on; the request ends in   *)
(* that error instead of the rejection.                                    *)
Revoke(r) ==
  /\ pc[r] = "revoke" /\ Return(r)
  /\ \/ session' = [session EXCEPT ![SessionOf[r]] = FALSE]
     \/ UNCHANGED session
  /\ UNCHANGED <<now, level, names, changes, cache, entry, owner, result, basis,
                 drops, repeats>>

(* The future is dropped where it waits: for the lock, for a permit or for *)
(* the provider.  Its guards are released, but nothing is cleaned up.      *)
Drop(r) ==
  /\ pc[r] \in {"waitLock", "waitPermit", "ask", "askPermission", "receive"}
  /\ drops < MaxDrops /\ drops' = drops + 1
  /\ Goto(r, "gone")
  /\ owner' = [l \in Locks |-> IF owner[l] = r THEN None ELSE owner[l]]
  /\ mine' = [mine EXCEPT ![r] = None]
  /\ permits' = permits \ {r}
  /\ answer' = [answer EXCEPT ![r] = None]
  /\ sent' = [sent EXCEPT ![r] = None] /\ verified' = verified \ {r}
  /\ UNCHANGED <<now, world, cache, entry, said, basis>>

(* The client makes the same request again: a retry, or a transfer after   *)
(* its batch.                                                              *)
Repeat(r) ==
  /\ pc[r] \in {"authorized", "denied", "gone"} /\ Goto(r, "new")
  /\ repeats < MaxRepeats /\ repeats' = repeats + 1
  /\ answer' = [answer EXCEPT ![r] = None]
  /\ basis' = [basis EXCEPT ![r] = None]
  /\ UNCHANGED <<now, session, level, names, changes, verified, sent, said,
                 cache, locks, permits, drops>>

----------------------------------------------------------------------------
(* The world changes.                                                      *)

ChangeLevel(s, l) ==
  /\ changes < MaxChanges /\ changes' = changes + 1
  /\ level[s] # l /\ level' = [level EXCEPT ![s] = l]
  /\ UNCHANGED <<now, pc, session, names, cache, locks, permits, result, basis, drops,
                 repeats>>

EndSession(s) ==
  /\ changes < MaxChanges /\ changes' = changes + 1
  /\ session[s] /\ session' = [session EXCEPT ![s] = FALSE]
  /\ UNCHANGED <<now, pc, level, names, cache, locks, permits, result, basis,
                 drops, repeats>>

(* The repository, or the user, is renamed and another takes the name; or  *)
(* gets it back.                                                           *)
Others(holder) == IF holder = "own" THEN "other" ELSE "own"

PassName ==
  /\ changes < MaxChanges /\ changes' = changes + 1
  /\ name' = Others(name)
  /\ UNCHANGED <<now, pc, session, level, login, cache, locks, permits, result,
                 basis, drops, repeats>>

PassLogin(s) ==
  /\ changes < MaxChanges /\ changes' = changes + 1
  /\ login' = [login EXCEPT ![s] = Others(@)]
  /\ UNCHANGED <<now, pc, session, level, name, cache, locks, permits, result,
                 basis, drops, repeats>>

(* A provider call does not outlast its timeouts.                          *)
Tick ==
  /\ now < MaxTime /\ now' = now + 1
  /\ \A r \in Requests : pc[r] \in {"askPermission", "receive"} => now < sent[r] + CallTime
  /\ UNCHANGED <<pc, world, cache, locks, permits, result, basis, drops>>

Step(r) ==
  \/ Authenticate(r) \/ Look(r) \/ GetLock(r) \/ Lock(r) \/ Recheck(r)
  \/ TakePermit(r) \/ Ask(r) \/ AskPermission(r) \/ Receive(r) \/ Unlock(r)
  \/ Cleanup(r) \/ Revoke(r)

Next ==
  \/ \E r \in Requests : Step(r) \/ Drop(r) \/ Repeat(r)
  \/ \E s \in Sessions :
       EndSession(s) \/ PassLogin(s) \/ \E l \in Levels : ChangeLevel(s, l)
  \/ PassName \/ Tick

Spec == Init /\ [][Next]_vars

----------------------------------------------------------------------------
TypeOK ==
  /\ now \in 0..MaxTime
  /\ pc \in [Requests -> Phases]
  /\ session \in [Sessions -> BOOLEAN]
  /\ level \in [Sessions -> Levels]
  /\ name \in {"own", "other"} /\ login \in [Sessions -> {"own", "other"}]
  /\ said \in [Needs -> (0..MaxTime) \cup {None}]
  /\ cache \in [Needs -> (0..MaxTime + Ttl) \cup {None}]
  /\ entry \in [Needs -> Locks \cup {None}]
  /\ owner \in [Locks -> Requests \cup {None}]
  /\ mine \in [Requests -> Locks \cup {None}]
  /\ permits \subseteq Requests /\ verified \subseteq Requests
  /\ answer \in [Requests -> Answers \cup {None}]
  /\ sent \in [Requests -> (0..MaxTime) \cup {None}]
  /\ basis \in [Requests -> (0..MaxTime) \cup {None}]
  /\ changes \in 0..MaxChanges /\ drops \in 0..MaxDrops
  /\ repeats \in 0..MaxRepeats

(* However locks enter and leave the map, and whoever is dropped while it  *)
(* waits, the provider is asked about one session, repository and          *)
(* operation by one request at a time (authorize,                          *)
(* remove_unused_authorization_lock).                                      *)
SingleFlight ==
  \A r, q \in Requests :
    /\ pc[r] \in {"waitPermit", "ask", "askPermission", "receive"}
    /\ pc[q] \in {"waitPermit", "ask", "askPermission", "receive"}
    /\ Need(r) = Need(q)
    => r = q

(* docs/configuration.md: a decision is reused "only for the same local    *)
(* session, repository, and operation for 15 seconds".  Every authorized   *)
(* request rests on a yes of the provider to its own need, about the very  *)
(* user who logged in and under a name that belonged to the configured     *)
(* repository when the provider was asked, that is no older than the       *)
(* cache's lifetime and the time a call may take.                          *)
AuthorizedByFreshGrant ==
  \A r \in Requests :
    pc[r] = "authorized" => basis[r] # None /\ basis[r] <= Ttl + CallTime

(* Nobody waits for ever: whoever else was dropped or left without         *)
(* cleaning up, some request that has begun and not ended can take a step. *)
(* Every step takes its request nearer to its end.                         *)
Begun == {r \in Requests : pc[r] \notin {"new", "authorized", "denied", "gone"}}

NobodyStuck == Begun # {} => \E r \in Begun : ENABLED Step(r)
=============================================================================

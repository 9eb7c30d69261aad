------------------------ MODULE AuthorizationProofs ------------------------
(* Theorems about authorization, for every number of requests and sessions, *)
(* whatever the lifetimes and limits are.                                  *)
EXTENDS Authorization, TLAPS

----------------------------------------------------------------------------
(* The constants, as the proofs cite them.                                 *)
LEMMA Constants ==
  /\ Ttl \in Nat /\ CallTime \in Nat /\ MaxTime \in Nat /\ MaxChanges \in Nat
  /\ MaxDrops \in Nat /\ MaxRepeats \in Nat
  /\ None \notin Requests /\ None \notin Locks /\ None \notin Nat
  /\ \A r \in Requests : /\ SessionOf[r] \in Sessions /\ Key(r) \in Needs
                         /\ Need(r) = Key(r)
  BY AuthorizationAssumption DEF Key, Need, Needs

----------------------------------------------------------------------------
(* The lock of a key.  Who has a reference to the lock of its key finds it *)
(* in the map until it has cleaned up, because only the last of its users  *)
(* takes it out; and who is past the lock owns it.                         *)

Holding == {"recheck", "waitPermit", "ask", "askPermission", "receive", "unlock"}
Using == Holding \cup {"waitLock", "cleanup"}

LockInv ==
  \A r \in Requests :
    /\ pc[r] \in Using \cup {"revoke"} => mine[r] \in Locks
    /\ pc[r] \in Using => entry[Key(r)] = mine[r]
    /\ pc[r] \in Holding => owner[mine[r]] = r

(* The age of a decision.  A yes that is on its way was said after the     *)
(* call began, which is no longer ago than a call may take; a cached one   *)
(* expires within its lifetime of the yes that it keeps.                   *)

CallInv ==
  \A r \in Requests :
    /\ pc[r] \in {"askPermission", "receive"} =>
         sent[r] \in Nat /\ sent[r] <= now /\ now <= sent[r] + CallTime
    /\ pc[r] = "askPermission" => r \in verified
    /\ pc[r] = "receive" /\ answer[r] = "yes" =>
         said[Need(r)] # None /\ sent[r] <= said[Need(r)]

SaidInv == \A n \in Needs : said[n] # None => said[n] <= now

CacheInv ==
  \A k \in Needs :
    cache[k] # None => said[k] # None /\ cache[k] <= said[k] + Ttl + CallTime

BasisInv ==
  \A r \in Requests :
    /\ \/ pc[r] = "authorized"
       \/ pc[r] \in {"unlock", "cleanup"} /\ answer[r] = "yes"
       => basis[r] # None /\ basis[r] <= Ttl + CallTime
    /\ pc[r] = "revoke" => answer[r] # "yes"

----------------------------------------------------------------------------
(* Types.                                                                  *)

LEMMA OutcomeType == \A word : Outcome(word) \in Answers
  BY DEF Outcome, Answers

LEMMA TypeStep == TypeOK /\ SaidInv /\ [Next]_vars => TypeOK'
<1> SUFFICES ASSUME TypeOK, SaidInv, [Next]_vars PROVE TypeOK'
  OBVIOUS
<1>1. ASSUME NEW r \in Requests, Authenticate(r) PROVE TypeOK'
  BY <1>1, Constants
  DEF TypeOK, Phases, Authenticate, Goto, world, names, locks, result
<1>2. ASSUME NEW r \in Requests, Look(r) PROVE TypeOK'
  BY <1>2, Constants
  DEF TypeOK, SaidInv, Phases, Look, Goto, CacheAfterLook, Cached,
      AuthorizeBy, Age, world, names, locks, result
<1>3. ASSUME NEW r \in Requests, GetLock(r) PROVE TypeOK'
  BY <1>3, Constants
  DEF TypeOK, Phases, GetLock, Goto, world, names, locks, result
<1>4. ASSUME NEW r \in Requests, Lock(r) PROVE TypeOK'
  BY <1>4, Constants
  DEF TypeOK, Phases, Lock, Goto, world, names, locks, result
<1>5. ASSUME NEW r \in Requests, Recheck(r) PROVE TypeOK'
  BY <1>5, Constants
  DEF TypeOK, SaidInv, Phases, Answers, Recheck, Goto, CacheAfterLook, Cached,
      AuthorizeBy, Age, world, names, locks, result
<1>6. ASSUME NEW r \in Requests, TakePermit(r) PROVE TypeOK'
  BY <1>6, Constants
  DEF TypeOK, Phases, TakePermit, Goto, world, names, locks, result
<1>7. ASSUME NEW r \in Requests, Ask(r) PROVE TypeOK'
  BY <1>7, Constants, OutcomeType
  DEF TypeOK, Phases, Answers, Ask, Goto, world, names, locks, result
<1>8. ASSUME NEW r \in Requests, AskPermission(r) PROVE TypeOK'
  BY <1>8, Constants, OutcomeType
  DEF TypeOK, Phases, Answers, AskPermission, Goto, world, names, locks,
      result
<1>9. ASSUME NEW r \in Requests, Receive(r) PROVE TypeOK'
  BY <1>9, Constants
  DEF TypeOK, SaidInv, Phases, Answers, Receive, Goto, Expiry, AuthorizeBy,
      Age, world, names, locks, result
<1>10. ASSUME NEW r \in Requests, Unlock(r) PROVE TypeOK'
  BY <1>10, Constants
  DEF TypeOK, Phases, Unlock, Goto, world, names, locks, result
<1>11. ASSUME NEW r \in Requests, Cleanup(r) PROVE TypeOK'
  BY <1>11, Constants
  DEF TypeOK, Phases, Cleanup, Return, Goto, world, names, locks, result
<1>12. ASSUME NEW r \in Requests, Revoke(r) PROVE TypeOK'
  BY <1>12, Constants
  DEF TypeOK, Phases, Revoke, Return, Goto, world, names, locks, result
<1>13. ASSUME NEW r \in Requests, Drop(r) PROVE TypeOK'
  BY <1>13, Constants
  DEF TypeOK, Phases, Drop, Goto, world, names, locks, result
<1>14. ASSUME NEW r \in Requests, Repeat(r) PROVE TypeOK'
  BY <1>14, Constants
  DEF TypeOK, Phases, Repeat, Goto, world, names, locks, result
<1>15. ASSUME NEW s \in Sessions,
              EndSession(s) \/ PassLogin(s) \/ \E l \in Levels : ChangeLevel(s, l)
      PROVE  TypeOK'
  <2>1. CASE EndSession(s)
    BY <2>1, Constants DEF TypeOK, EndSession, locks, result, names
  <2>2. CASE PassLogin(s)
    BY <2>2, Constants DEF TypeOK, PassLogin, Others, locks, result
  <2>3. ASSUME NEW l \in Levels, ChangeLevel(s, l) PROVE TypeOK'
    BY <2>3, Constants DEF TypeOK, ChangeLevel, locks, result, names
  <2> QED
    BY <1>15, <2>1, <2>2, <2>3
<1>16. CASE PassName
  BY <1>16, Constants
  DEF TypeOK, PassName, Others, world, names, locks, result
<1>17. CASE Tick
  BY <1>17, Constants
  DEF TypeOK, Tick, world, names, locks, result
<1>18. CASE UNCHANGED vars
  BY <1>18
  DEF TypeOK, vars, world, names, locks, result
<1> QED
  BY <1>1, <1>2, <1>3, <1>4, <1>5, <1>6, <1>7, <1>8, <1>9, <1>10, <1>11,
     <1>12, <1>13, <1>14, <1>15, <1>16, <1>17, <1>18
  DEF Next, Step

----------------------------------------------------------------------------
(* Locks.                                                                  *)

LEMMA LockStep == TypeOK /\ LockInv /\ [Next]_vars => LockInv'
<1> SUFFICES ASSUME TypeOK, LockInv, [Next]_vars PROVE LockInv'
  OBVIOUS
<1>1. ASSUME NEW r \in Requests, Authenticate(r) PROVE LockInv'
  BY <1>1, Constants
  DEF TypeOK, LockInv, Using, Holding, Authenticate, Goto, world, names,
      locks, result
<1>2. ASSUME NEW r \in Requests, Look(r) PROVE LockInv'
  BY <1>2, Constants
  DEF TypeOK, LockInv, Using, Holding, Look, Goto, CacheAfterLook, Cached,
      AuthorizeBy, Age, world, names, locks, result
<1>3. ASSUME NEW r \in Requests, GetLock(r) PROVE LockInv'
  BY <1>3, Constants
  DEF TypeOK, LockInv, Using, Holding, GetLock, Goto, world, names, locks,
      result
<1>4. ASSUME NEW r \in Requests, Lock(r) PROVE LockInv'
  BY <1>4, Constants
  DEF TypeOK, LockInv, Using, Holding, Lock, Goto, world, names, locks, result
<1>5. ASSUME NEW r \in Requests, Recheck(r) PROVE LockInv'
  BY <1>5, Constants
  DEF TypeOK, LockInv, Using, Holding, Recheck, Goto, CacheAfterLook, Cached,
      AuthorizeBy, Age, world, names, locks, result
<1>6. ASSUME NEW r \in Requests, TakePermit(r) PROVE LockInv'
  BY <1>6, Constants
  DEF TypeOK, LockInv, Using, Holding, TakePermit, Goto, world, names, locks,
      result
<1>7. ASSUME NEW r \in Requests, Ask(r) PROVE LockInv'
  BY <1>7, Constants
  DEF TypeOK, LockInv, Using, Holding, Ask, Goto, world, names, locks, result
<1>8. ASSUME NEW r \in Requests, AskPermission(r) PROVE LockInv'
  BY <1>8, Constants
  DEF TypeOK, LockInv, Using, Holding, AskPermission, Goto, world, names,
      locks, result
<1>9. ASSUME NEW r \in Requests, Receive(r) PROVE LockInv'
  BY <1>9, Constants
  DEF TypeOK, LockInv, Using, Holding, Receive, Goto, Expiry, AuthorizeBy,
      Age, world, names, locks, result
<1>10. ASSUME NEW r \in Requests, Unlock(r) PROVE LockInv'
  BY <1>10, Constants
  DEF TypeOK, LockInv, Using, Holding, Unlock, Goto, world, names, locks,
      result
<1>11. ASSUME NEW r \in Requests, Cleanup(r) PROVE LockInv'
  <2>1. /\ pc[r] = "cleanup" /\ UNCHANGED owner
        /\ pc' = [pc EXCEPT ![r] = pc'[r]] /\ mine' = [mine EXCEPT ![r] = mine'[r]]
        /\ pc'[r] \in {"revoke", "authorized", "denied"}
        /\ pc'[r] = "revoke" => mine'[r] = mine[r]
        /\ entry' = IF LastUser(r) THEN [entry EXCEPT ![Key(r)] = None] ELSE entry
    BY <1>11 DEF TypeOK, Cleanup, Return, Goto
  <2>2. ASSUME NEW q \in Requests
        PROVE  /\ pc'[q] \in Using \cup {"revoke"} => mine'[q] \in Locks
               /\ pc'[q] \in Using => entry'[Key(q)] = mine'[q]
               /\ pc'[q] \in Holding => owner'[mine'[q]] = q
    <3>1. CASE q = r
      BY <2>1, <3>1 DEF LockInv, Using, Holding
    <3>2. CASE q # r
      <4>1. pc'[q] = pc[q] /\ mine'[q] = mine[q]
        BY <2>1, <3>2 DEF TypeOK
      <4>2. pc[q] \in Using => entry'[Key(q)] = entry[Key(q)]
        <5> SUFFICES ASSUME pc[q] \in Using, LastUser(r), Key(q) = Key(r) PROVE FALSE
          BY <2>1, Constants DEF TypeOK
        <5>1. mine[q] = entry[Key(r)] /\ mine[r] = entry[Key(r)]
          BY <2>1 DEF LockInv, Using
        <5> QED
          BY <3>2, <5>1 DEF LastUser, References
      <4> QED
        BY <2>1, <4>1, <4>2 DEF LockInv
    <3> QED
      BY <3>1, <3>2
  <2> QED
    BY <2>2 DEF LockInv
<1>12. ASSUME NEW r \in Requests, Revoke(r) PROVE LockInv'
  BY <1>12, Constants
  DEF TypeOK, LockInv, Using, Holding, Revoke, Return, Goto, world, names,
      locks, result
<1>13. ASSUME NEW r \in Requests, Drop(r) PROVE LockInv'
  BY <1>13, Constants
  DEF TypeOK, LockInv, Using, Holding, Drop, Goto, world, names, locks, result
<1>14. ASSUME NEW r \in Requests, Repeat(r) PROVE LockInv'
  BY <1>14, Constants
  DEF TypeOK, LockInv, Using, Holding, Repeat, Goto, world, names, locks,
      result
<1>15. ASSUME NEW s \in Sessions,
              EndSession(s) \/ PassLogin(s) \/ \E l \in Levels : ChangeLevel(s, l)
      PROVE  LockInv'
  BY <1>15
  DEF TypeOK, LockInv, Using, Holding, EndSession, PassLogin, ChangeLevel,
      world, names, locks, result
<1>16. CASE PassName
  BY <1>16, Constants
  DEF TypeOK, LockInv, Using, Holding, PassName, Others, world, names, locks,
      result
<1>17. CASE Tick
  BY <1>17, Constants
  DEF TypeOK, LockInv, Using, Holding, Tick, world, names, locks, result
<1>18. CASE UNCHANGED vars
  BY <1>18
  DEF TypeOK, LockInv, Using, Holding, vars, world, names, locks, result
<1> QED
  BY <1>1, <1>2, <1>3, <1>4, <1>5, <1>6, <1>7, <1>8, <1>9, <1>10, <1>11,
     <1>12, <1>13, <1>14, <1>15, <1>16, <1>17, <1>18
  DEF Next, Step

(* Two requests past the lock of one key are the same request.             *)
LEMMA LockExcludes == LockInv => SingleFlight
<1> SUFFICES ASSUME LockInv, NEW r \in Requests, NEW q \in Requests,
                    pc[r] \in {"waitPermit", "ask", "askPermission", "receive"},
                    pc[q] \in {"waitPermit", "ask", "askPermission", "receive"},
                    Need(r) = Need(q)
             PROVE  r = q
  BY DEF SingleFlight
<1>1. Key(r) = Key(q)
  BY Constants
<1>2. mine[r] = entry[Key(r)] /\ mine[q] = entry[Key(q)]
  BY DEF LockInv, Using, Holding
<1>3. owner[mine[r]] = r /\ owner[mine[q]] = q
  BY DEF LockInv, Holding
<1> QED
  BY <1>1, <1>2, <1>3

----------------------------------------------------------------------------
(* Ages.                                                                   *)

(* The provider's word counts only if it is about the session's own user   *)
(* and about what has the repository's name because it is the repository.  *)
LEMMA YesIsOwn ==
  /\ \A reply, write : Outcome(check_permission(reply, write)) = "yes" => reply.id = "own"
  /\ \A reply : Outcome(verify_repository_identity(reply)) # "yes"
  /\ \A s \in Sessions : \A reply \in IdentityReplies(s) :
       verify_repository_identity(reply) = "verified" => name = "own"
<1>1. ASSUME NEW reply, NEW write, Outcome(check_permission(reply, write)) = "yes"
      PROVE  reply.id = "own"
  <2>1. check_permission(reply, write) = "granted"
    BY <1>1 DEF Outcome
  <2>2. RequestError(reply.status, "PermissionDenied") # "granted"
    BY DEF RequestError
  <2> QED
    BY <2>1, <2>2 DEF check_permission
<1>2. ASSUME NEW reply PROVE Outcome(verify_repository_identity(reply)) # "yes"
  BY DEF Outcome, verify_repository_identity, RequestError
<1>3. ASSUME NEW s \in Sessions, NEW reply \in IdentityReplies(s),
             verify_repository_identity(reply) = "verified"
      PROVE  name = "own"
  <2>1. reply.status = "ok" /\ reply.id = "own"
    BY <1>3 DEF verify_repository_identity, RequestError
  <2>2. \A status \in Refusals(s) \cup {"not found"} : status # "ok"
    BY DEF Refusals, FailureStatuses
  <2>3. \A status : Failed(status).status = status /\ Failed(status).id = None
    BY DEF Failed
  <2>4. \A id, permission : Ok(id, permission).id = id
    BY DEF Ok
  <2>5. reply = Ok(name, None) \/ reply = Ok(None, None)
    BY <2>1, <2>2, <2>3 DEF IdentityReplies
  <2>6. reply.id = name \/ reply.id = None
    BY <2>4, <2>5
  <2> QED
    BY <1>3, <2>1, <2>6 DEF verify_repository_identity
<1> QED
  BY <1>1, <1>2, <1>3

AgeInv == CallInv /\ SaidInv /\ CacheInv /\ BasisInv

LEMMA AgeStep == TypeOK /\ AgeInv /\ [Next]_vars => AgeInv'
<1> SUFFICES ASSUME TypeOK, AgeInv, [Next]_vars PROVE AgeInv'
  OBVIOUS
<1>1. ASSUME NEW r \in Requests, Authenticate(r) PROVE AgeInv'
  BY <1>1, Constants
  DEF TypeOK, AgeInv, CallInv, SaidInv, CacheInv, BasisInv,
      Authenticate, Goto, world, names, locks, result
<1>2. ASSUME NEW r \in Requests, Look(r) PROVE AgeInv'
  BY <1>2, Constants
  DEF TypeOK, AgeInv, CallInv, SaidInv, CacheInv, BasisInv,
      Look, Goto, CacheAfterLook, Cached, AuthorizeBy, Age, world, names, locks, result
<1>3. ASSUME NEW r \in Requests, GetLock(r) PROVE AgeInv'
  BY <1>3, Constants
  DEF TypeOK, AgeInv, CallInv, SaidInv, CacheInv, BasisInv,
      GetLock, Goto, world, names, locks, result
<1>4. ASSUME NEW r \in Requests, Lock(r) PROVE AgeInv'
  BY <1>4, Constants
  DEF TypeOK, AgeInv, CallInv, SaidInv, CacheInv, BasisInv,
      Lock, Goto, world, names, locks, result
<1>5. ASSUME NEW r \in Requests, Recheck(r) PROVE AgeInv'
  BY <1>5, Constants
  DEF TypeOK, AgeInv, CallInv, SaidInv, CacheInv, BasisInv,
      Recheck, Goto, CacheAfterLook, Cached, AuthorizeBy, Age, world, names, locks, result
<1>6. ASSUME NEW r \in Requests, TakePermit(r) PROVE AgeInv'
  BY <1>6, Constants
  DEF TypeOK, AgeInv, CallInv, SaidInv, CacheInv, BasisInv,
      TakePermit, Goto, world, names, locks, result
<1>7. ASSUME NEW r \in Requests, Ask(r) PROVE AgeInv'
  <2>1. PICK reply \in IdentityReplies(SessionOf[r]) :
          LET identity == verify_repository_identity(reply)
          IN  IF identity = "verified"
                THEN Goto(r, "askPermission") /\ UNCHANGED answer
                ELSE /\ answer' = [answer EXCEPT ![r] = Outcome(identity)]
                     /\ Goto(r, "receive")
    BY <1>7 DEF Ask
  <2>2. /\ pc[r] = "ask" /\ sent' = [sent EXCEPT ![r] = now]
        /\ verified' = IF name = "own" THEN verified \cup {r} ELSE verified \ {r}
        /\ UNCHANGED <<now, cache, said, basis>>
    BY <1>7 DEF Ask
  <2>3. CASE verify_repository_identity(reply) = "verified"
    <3>1. name = "own"
      BY <2>3, YesIsOwn, Constants
    <3>2. pc' = [pc EXCEPT ![r] = "askPermission"] /\ UNCHANGED answer
      BY <2>1, <2>3 DEF Goto
    <3> QED
      BY <2>2, <3>1, <3>2, Constants
      DEF TypeOK, AgeInv, CallInv, SaidInv, CacheInv, BasisInv
  <2>4. CASE verify_repository_identity(reply) # "verified"
    <3> DEFINE outcome == Outcome(verify_repository_identity(reply))
    <3>1. pc' = [pc EXCEPT ![r] = "receive"] /\ answer' = [answer EXCEPT ![r] = outcome]
      BY <2>1, <2>4 DEF Goto
    <3>2. outcome # "yes"
      BY YesIsOwn
    <3> HIDE DEF outcome
    <3> QED
      BY <2>2, <3>1, <3>2, Constants
      DEF TypeOK, AgeInv, CallInv, SaidInv, CacheInv, BasisInv
  <2> QED
    BY <2>3, <2>4
<1>8. ASSUME NEW r \in Requests, AskPermission(r) PROVE AgeInv'
  <2>1. PICK reply \in PermissionReplies(SessionOf[r]) :
          LET outcome == Outcome(check_permission(reply, WriteOf[r]))
          IN  /\ answer' = [answer EXCEPT ![r] = outcome]
              /\ said' = IF outcome = "yes" /\ reply.id = "own" /\ r \in verified
                         THEN [said EXCEPT ![Need(r)] = now] ELSE said
    BY <1>8 DEF AskPermission
  <2>2. /\ pc[r] = "askPermission" /\ pc' = [pc EXCEPT ![r] = "receive"]
        /\ UNCHANGED <<now, cache, verified, sent, basis>>
    BY <1>8 DEF AskPermission, Goto
  <2> DEFINE outcome == Outcome(check_permission(reply, WriteOf[r]))
  <2>3. /\ answer' = [answer EXCEPT ![r] = outcome] /\ r \in verified
        /\ said' = IF outcome = "yes" THEN [said EXCEPT ![Need(r)] = now] ELSE said
    BY <2>1, <2>2, YesIsOwn DEF AgeInv, CallInv
  <2> HIDE DEF outcome
  <2>4. \A n \in Needs : /\ said'[n] = said[n] \/ said'[n] = now
                         /\ said[n] # None => said'[n] # None /\ said[n] <= said'[n]
                         /\ said'[n] # None => said'[n] <= now
    BY <2>3, Constants DEF TypeOK, AgeInv, SaidInv
  <2>5. outcome = "yes" => said'[Need(r)] = now
    BY <2>3, Constants DEF TypeOK
  <2>6. CallInv'
    BY <2>2, <2>3, <2>4, <2>5, Constants DEF TypeOK, AgeInv, CallInv
  <2>7. SaidInv' /\ CacheInv'
    <3>1. \A k \in Needs : /\ said[k] # None => said[k] \in Nat
                           /\ said'[k] # None => said'[k] \in Nat
                           /\ cache[k] # None => cache[k] \in Nat
      BY <2>4, Constants DEF TypeOK
    <3>2. CacheInv'
      BY <2>2, <2>4, <3>1, Constants DEF AgeInv, CacheInv
    <3> QED
      BY <2>2, <2>4, <3>2 DEF SaidInv
  <2>8. BasisInv'
    BY <2>2, <2>3 DEF TypeOK, AgeInv, BasisInv
  <2> QED
    BY <2>6, <2>7, <2>8 DEF AgeInv
<1>9. ASSUME NEW r \in Requests, Receive(r) PROVE AgeInv'
  BY <1>9, Constants
  DEF TypeOK, AgeInv, CallInv, SaidInv, CacheInv, BasisInv,
      Receive, Goto, Expiry, AuthorizeBy, Age, world, names, locks, result
<1>10. ASSUME NEW r \in Requests, Unlock(r) PROVE AgeInv'
  BY <1>10, Constants
  DEF TypeOK, AgeInv, CallInv, SaidInv, CacheInv, BasisInv,
      Unlock, Goto, world, names, locks, result
<1>11. ASSUME NEW r \in Requests, Cleanup(r) PROVE AgeInv'
  BY <1>11, Constants
  DEF TypeOK, AgeInv, CallInv, SaidInv, CacheInv, BasisInv,
      Cleanup, Return, Goto, world, names, locks, result
<1>12. ASSUME NEW r \in Requests, Revoke(r) PROVE AgeInv'
  BY <1>12, Constants
  DEF TypeOK, AgeInv, CallInv, SaidInv, CacheInv, BasisInv,
      Revoke, Return, Goto, world, names, locks, result
<1>13. ASSUME NEW r \in Requests, Drop(r) PROVE AgeInv'
  BY <1>13, Constants
  DEF TypeOK, AgeInv, CallInv, SaidInv, CacheInv, BasisInv,
      Drop, Goto, world, names, locks, result
<1>14. ASSUME NEW r \in Requests, Repeat(r) PROVE AgeInv'
  BY <1>14, Constants
  DEF TypeOK, AgeInv, CallInv, SaidInv, CacheInv, BasisInv,
      Repeat, Goto, world, names, locks, result
<1>15. ASSUME NEW s \in Sessions,
             EndSession(s) \/ PassLogin(s) \/ \E l \in Levels : ChangeLevel(s, l)
      PROVE  AgeInv'
  BY <1>15, Constants
  DEF TypeOK, AgeInv, CallInv, SaidInv, CacheInv, BasisInv,
      EndSession, PassLogin, ChangeLevel, world, names, locks, result
<1>16. CASE PassName
  BY <1>16, Constants
  DEF TypeOK, AgeInv, CallInv, SaidInv, CacheInv, BasisInv,
      PassName, world, names, locks, result
<1>17. CASE Tick
  BY <1>17, Constants
  DEF TypeOK, AgeInv, CallInv, SaidInv, CacheInv, BasisInv,
      Tick, world, names, locks, result
<1>18. CASE UNCHANGED vars
  BY <1>18
  DEF TypeOK, AgeInv, CallInv, SaidInv, CacheInv, BasisInv,
      vars, world, names, locks, result
<1> QED
  BY <1>1, <1>2, <1>3, <1>4, <1>5, <1>6, <1>7, <1>8, <1>9,
     <1>10, <1>11, <1>12, <1>13, <1>14, <1>15, <1>16, <1>17, <1>18 DEF Next, Step

----------------------------------------------------------------------------
LEMMA InitHolds == Init => TypeOK /\ LockInv /\ AgeInv
<1> SUFFICES ASSUME Init PROVE TypeOK /\ LockInv /\ AgeInv
  OBVIOUS
<1>1. TypeOK
  BY Constants DEF Init, TypeOK, Phases, Levels
<1>2. LockInv
  BY DEF Init, LockInv, Using, Holding
<1>3. AgeInv
  BY DEF Init, AgeInv, CallInv, SaidInv, CacheInv, BasisInv
<1> QED
  BY <1>1, <1>2, <1>3

LEMMA TypesAndAges == Spec => [](TypeOK /\ AgeInv)
<1>1. AgeInv => SaidInv
  BY DEF AgeInv
<1>2. TypeOK /\ AgeInv /\ [Next]_vars => (TypeOK /\ AgeInv)'
  BY <1>1, TypeStep, AgeStep
<1> QED
  BY <1>2, InitHolds, PTL DEF Spec

(* THEOREM: every variable of the authorization keeps its type.            *)
THEOREM AuthorizationTyped == Spec => []TypeOK
  BY TypesAndAges, PTL

(* THEOREM: the provider is asked about one session, repository and        *)
(* operation by one request at a time, however many requests there are,    *)
(* whichever of them are dropped, and however often the lock of a key      *)
(* leaves the map and is made again.                                       *)
THEOREM OneFlight == Spec => []SingleFlight
<1>1. TypeOK /\ LockInv /\ [Next]_vars => LockInv'
  BY LockStep
<1>2. Init => LockInv
  BY InitHolds
<1> QED
  BY <1>1, <1>2, TypesAndAges, LockExcludes, PTL DEF Spec

(* THEOREM: every authorized request rests on a yes of the provider to its *)
(* own need that is no older than the cache's lifetime and the time a call *)
(* may take, whatever those are, although the cache keeps the time at      *)
(* which the answer arrived and other requests refresh the entry.          *)
THEOREM FreshGrants == Spec => []AuthorizedByFreshGrant
<1>1. AgeInv => AuthorizedByFreshGrant
  BY DEF AgeInv, BasisInv, AuthorizedByFreshGrant
<1> QED
  BY <1>1, TypesAndAges, PTL

============================================================================

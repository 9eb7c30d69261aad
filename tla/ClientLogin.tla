----------------------------- MODULE ClientLogin -----------------------------
(***************************************************************************)
(* Login, logout and status of the command-line client.  A login turns a   *)
(* GitHub token into a session on the server and stores the session's      *)
(* token with Git; a logout looks that token up, has the server revoke the *)
(* session and then erases the token.  Git runs as a child process, once   *)
(* per step (ChildProcess); the server is a request away.  Each of these   *)
(* can fail, be late, or have been done and its answer lost, and a user    *)
(* can interrupt a command and leave the Git process of its step running.  *)
(***************************************************************************)
EXTENDS ChildProcess, Sequences

CONSTANTS
  Repos,       \* repositories on this machine, all of one server
  Host,        \* where Git keeps a credential that has no path
  Tokens,      \* tokens the server can issue
  HandStored,  \* a token a user stored by hand for the whole host
  MaxFaults    \* interruptions, failures, lost messages (bound)

ASSUME LoginAssumption ==
  /\ Host \notin Repos /\ HandStored \notin Tokens
  /\ None \notin Repos \cup Tokens \cup {HandStored}
  /\ MaxFaults \in Nat

VARIABLES
  command,   \* the command that runs, or None
  orphan,    \* the Git step an interrupted command left running, or None
  protected, \* is the server reached by HTTPS or an exact loopback address?
  helper,    \* is a credential helper configured?
  pathAware, \* the repositories whose configuration has useHttpPath
  store,     \* store[k]: the token in the credential store
  active,    \* the tokens of the sessions the server accepts
  owner,     \* owner[t]: the repository whose login was given t
  kept,      \* kept[r]: the token the last login of r stored
  left,      \* the tokens whose logout was reported
  leaving,   \* the repository the user is logging out of for good, or None
  faults
loginVars == <<command, orphan, protected, helper, pathAware, store, active, owner,
               kept, left, leaving, faults>>
local == <<protected, helper, pathAware, store, kept>>
server == <<active, owner>>

LoginInit ==
  /\ command = None /\ orphan = None
  /\ protected \in BOOLEAN /\ helper \in BOOLEAN
  /\ pathAware = {}
  /\ store \in {s \in [Repos \cup {Host} -> {HandStored, None}] :
                  \A r \in Repos : s[r] = None}
  /\ active = {HandStored}
  /\ owner = [t \in Tokens \cup {HandStored} |-> None]
  /\ kept = [r \in Repos |-> None]
  /\ left = {} /\ leaving = None /\ faults = 0

Fault == faults < MaxFaults /\ faults' = faults + 1

----------------------------------------------------------------------------
(* The steps of each command, in order.                                    *)

LoginSteps ==
  <<"discover", "read", "exchange", "helper", "persist", "approve">>

LogoutStepsSwapped == <<"discover", "lookup", "reject", "revoke">>  \* mutant
LogoutSteps == <<"discover", "lookup", "revoke", "reject">>

StatusSteps == <<"discover", "lookup">>

Steps ==
  [login |-> LoginSteps, logout |-> LogoutSteps, status |-> StatusSteps]

Step == Steps[command.kind][command.at]
At(step) == command # None /\ Step = step
AtGitStep == \E s \in {"helper", "persist", "approve", "lookup", "reject"} : At(s)

Start(kind, r) ==
  /\ command = None
  /\ leaving = None \/ (leaving = r /\ kind = "logout")
  /\ command' = [kind |-> kind, repo |-> r, at |-> 1, token |-> None]
  /\ UNCHANGED <<orphan, local, server, left, leaving, faults>>

(* The user decides to log out, and to try until it works.                 *)
Leave(r) ==
  /\ command = None /\ leaving = None /\ leaving' = r
  /\ UNCHANGED <<command, orphan, local, server, left, faults>>

(* The next step, or the report that all are done; or an error, which ends *)
(* the command and takes back nothing it did before.                       *)
GoOn(token) ==
  IF command.at = Len(Steps[command.kind])
  THEN /\ command' = None
       /\ left' = IF command.kind = "logout" THEN left \cup {token} ELSE left
  ELSE /\ command' = [command EXCEPT !.at = @ + 1, !.token = token]
       /\ UNCHANGED left
Fail == command' = None /\ UNCHANGED left

(* A token goes over an unprotected transport only if the user allows it.  *)
RouteAllowed(insecure) == insecure \/ protected

(* The repository, its origin and its route are found.  A user who is      *)
(* leaving gives the option that the route needs.                          *)
Discover ==
  /\ At("discover")
  /\ \/ \E insecure \in BOOLEAN :
          /\ leaving # None => RouteAllowed(insecure)
          /\ IF RouteAllowed(insecure) THEN GoOn(None) ELSE Fail
          /\ UNCHANGED faults
     \/ Fail /\ Fault
  /\ UNCHANGED <<orphan, local, server, leaving>>

(* The GitHub token is read without echo and checked for its form.         *)
ReadToken ==
  /\ At("read")
  /\ GoOn(None) \/ Fail
  /\ UNCHANGED <<orphan, local, server, leaving, faults>>

----------------------------------------------------------------------------
(* Requests to the server.                                                 *)

(* What GitHub may answer when the server asks whose token it was given,   *)
(* what the server makes of that, and the status it answers with.          *)
GitHubAnswers ==
  {"user", "user without login or id", "unauthorized", "forbidden: token",
   "forbidden: other", "unavailable", "no answer"}

fetch_authenticated_user(answer) ==
  CASE answer = "user" -> "user"
    [] answer \in {"unauthorized", "forbidden: token"} -> "denied"
    [] OTHER -> "failed"

LoginStatus(user, limited) ==
  CASE user = "denied" -> 401
    [] user = "failed" -> 502
    [] user = "user" /\ limited -> 429
    [] OTHER -> 200

(* The server issues a session to the user of the GitHub token, or none;   *)
(* either way the request or its answer may be lost.                       *)
Exchange ==
  /\ At("exchange")
  /\ \E answer \in GitHubAnswers, limited \in BOOLEAN :
       IF LoginStatus(fetch_authenticated_user(answer), limited) = 200
       THEN \E t \in {u \in Tokens : owner[u] = None} :
              /\ active' = active \cup {t}
              /\ owner' = [owner EXCEPT ![t] = command.repo]
              /\ (GoOn(t) /\ UNCHANGED faults) \/ (Fail /\ Fault)
       ELSE Fail /\ UNCHANGED <<server, faults>>
  /\ UNCHANGED <<orphan, local, leaving>>

(* What the client makes of the answer to its revocation: 204 and 401 both *)
(* mean that the session is over.                                          *)
OverOnlyIfRevoked(answer) == answer = "no content"  \* mutant
Over(answer) == answer \in {"no content", "unauthorized"}

AfterRevoke(answer) == IF Over(answer) THEN GoOn(command.token) ELSE Fail

Revoke ==
  /\ At("revoke")
  /\ \/ /\ active' = active \ {command.token}
        /\ \/ /\ AfterRevoke(IF command.token \in active THEN "no content"
                             ELSE "unauthorized")
              /\ UNCHANGED faults
           \/ Fail /\ Fault
     \/ AfterRevoke("error") /\ Fault /\ UNCHANGED active
  /\ UNCHANGED <<orphan, local, owner, leaving>>

(* A session also ends by itself, or by an administrator.                  *)
SessionEnds(t) ==
  /\ t \in active /\ active' = active \ {t}
  /\ UNCHANGED <<command, orphan, local, owner, left, leaving, faults>>

----------------------------------------------------------------------------
(* Git steps.                                                              *)

(* Git drops the path of a credential unless useHttpPath is set.           *)
Key(r) == IF r \in pathAware THEN r ELSE Host

(* What the Git process of a step does to configuration and store.         *)
persist_path_aware_lookup(r) ==
  pathAware' = pathAware \cup {r} /\ UNCHANGED <<store, kept>>

approve_with_configured_git(r, t) ==
  /\ store' = [store EXCEPT ![Key(r)] = t]
  /\ kept' = [kept EXCEPT ![r] = t]
  /\ UNCHANGED pathAware

RejectCredential(r, t) ==
  /\ store' = [store EXCEPT ![Key(r)] = IF @ = t THEN None ELSE @]
  /\ UNCHANGED <<pathAware, kept>>

Effect(step, r, t) ==
  /\ CASE step = "persist" -> persist_path_aware_lookup(r)
       [] step = "approve" -> approve_with_configured_git(r, t)
       [] step = "reject" -> RejectCredential(r, t)
       [] OTHER -> UNCHANGED <<pathAware, store, kept>>
  /\ UNCHANGED <<protected, helper>>

(* A credential without the path that was asked for is refused.            *)
PathMatches(r) == Key(r) = r

(* A lookup never prompts: what is not stored is not found.                *)
LookupFinds(r) == store[Key(r)] # None /\ PathMatches(r)

HelperConfigured == helper

(* The other steps succeed by themselves.                                  *)
Succeeds ==
  /\ At("helper") => HelperConfigured
  /\ At("lookup") => LookupFinds(command.repo)

Found == IF At("lookup") THEN store[Key(command.repo)] ELSE command.token

GitSucceeds ==
  /\ AtGitStep /\ Succeeds
  /\ Effect(Step, command.repo, command.token)
  /\ GoOn(Found)
  /\ UNCHANGED <<orphan, server, leaving, faults>>

GitRefuses ==
  /\ AtGitStep /\ ~Succeeds /\ Fail
  /\ UNCHANGED <<orphan, local, server, leaving, faults>>

(* Git fails, or its wait ends with a timeout or an open pipe: by then it  *)
(* may have done its work.                                                 *)
GitFails ==
  /\ AtGitStep /\ Fail /\ Fault
  /\ Effect(Step, command.repo, command.token) \/ UNCHANGED local
  /\ UNCHANGED <<orphan, server, leaving>>

(* The command is interrupted.  Git, in a process group of its own, is not *)
(* and does its step when it likes, or never.                              *)
Interrupt ==
  /\ command # None /\ orphan = None /\ Fault /\ Fail
  /\ orphan' = IF AtGitStep
               THEN [step |-> Step, repo |-> command.repo, token |-> command.token]
               ELSE None
  /\ UNCHANGED <<local, server, leaving>>

OrphanActs ==
  /\ orphan # None /\ orphan' = None
  /\ Effect(orphan.step, orphan.repo, orphan.token)
  /\ UNCHANGED <<command, server, left, leaving, faults>>

----------------------------------------------------------------------------
Proceed ==
  \/ Discover \/ ReadToken \/ Exchange \/ Revoke
  \/ GitSucceeds \/ GitRefuses \/ GitFails

LoginNext ==
  \/ \E kind \in DOMAIN Steps, r \in Repos : Start(kind, r)
  \/ \E r \in Repos : Leave(r)
  \/ Proceed \/ Interrupt \/ OrphanActs
  \/ \E t \in active : SessionEnds(t)

(* A command goes on to its end, and a user who wants out tries again.     *)
LoginFairness ==
  /\ WF_loginVars(Proceed)
  /\ WF_loginVars(\E r \in Repos : leaving = r /\ Start("logout", r))

----------------------------------------------------------------------------
(* The token of a live session that a login stored stays in the store: no  *)
(* logout that fails halfway and no login in another repository of the     *)
(* host takes it away, so the session can always still be revoked.         *)
KeepsToken ==
  \A r \in Repos : kept[r] \in active => store[r] = kept[r]

(* A reported logout is one: the server no longer accepts the token and    *)
(* the store no longer has it.                                             *)
LoggedOut ==
  \A t \in left : t \notin active /\ \A k \in DOMAIN store : store[k] # t

(* A logout asks the server to revoke no session but one that a login in   *)
(* its own repository was given, whatever Git has stored for the host.     *)
RevokesOwn == At("revoke") => owner[command.token] = command.repo

(* Git's credentials and the sessions of the server agree, whichever of    *)
(* the two a login or a logout failed or was killed in between.            *)
CredentialsAgree == KeepsToken /\ LoggedOut /\ RevokesOwn

(* A user who repeats the logout gets out in the end, however often it was *)
(* interrupted, timed out or lost the server's answer before.              *)
LogoutCompletes ==
  \A r \in Repos :
    leaving = r ~> (store[r] = None /\ kept[r] \notin active)
=============================================================================

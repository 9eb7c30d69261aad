----------------------------- MODULE TokenCache -----------------------------
(***************************************************************************)
(* The cache of Google Drive access tokens that all requests of a server   *)
(* share.  A request reads the clock, waits its turn for the slot of its    *)
(* storage provider, takes the token in it if that is not due for refresh,  *)
(* and otherwise runs gcloud while the others wait.  The clock it compares  *)
(* with is the one it read before it waited.                                *)
(***************************************************************************)
EXTENDS Naturals, Sequences

CONSTANTS
  Callers,     \* requests that need a token, each once
  Providers,   \* storage providers
  ProviderOf,  \* ProviderOf[c]: the provider whose token c needs
  Lifetime,    \* GCLOUD_ADC_ACCESS_TOKEN_LIFETIME_SECONDS, in units of time
  Skew,        \* GOOGLE_ACCESS_TOKEN_REFRESH_SKEW
  Timeout,     \* GCLOUD_ADC_TOKEN_TIMEOUT
  MaxTime,     \* the clock stops here (bound of the model)
  None

ASSUME TokenAssumption ==
  /\ Lifetime \in Nat /\ Skew \in Nat /\ Timeout \in Nat \ {0} /\ MaxTime \in Nat
  /\ ProviderOf \in [Callers -> Providers]

VARIABLES
  time,    \* the clock
  caller,  \* caller[c]: where c is, the time it read, when its gcloud started
  queue,   \* queue[p]: callers of p in the order of the slot's lock; the head holds it
  slot,    \* slot[p]: the cached token of p, or None
  given    \* given[c]: the token c was given and when, or None
vars == <<time, caller, queue, slot, given>>

Init ==
  /\ time = 0
  /\ caller = [c \in Callers |-> [pc |-> "idle", now |-> 0, started |-> 0]]
  /\ queue = [p \in Providers |-> <<>>]
  /\ slot = [p \in Providers |-> None]
  /\ given = [c \in Callers |-> None]

(* The clock moves on, but never past the timeout of a running gcloud: it   *)
(* is killed then and its caller fails.                                     *)
Tick ==
  /\ time < MaxTime
  /\ \A c \in Callers : caller[c].pc = "gcloud" => time < caller[c].started + Timeout
  /\ time' = time + 1
  /\ UNCHANGED <<caller, queue, slot, given>>

(* get_or_refresh: the time is read.                                        *)
Ask(c) ==
  /\ caller[c].pc = "idle"
  /\ caller' = [caller EXCEPT ![c].pc = "asked", ![c].now = time]
  /\ UNCHANGED <<time, queue, slot, given>>

(* The slot of the provider is found or made under the lock of the map,     *)
(* which is released before the slot's lock is waited for.                  *)
Enqueue(c) ==
  /\ caller[c].pc = "asked"
  /\ caller' = [caller EXCEPT ![c].pc = "waiting"]
  /\ queue' = [queue EXCEPT ![ProviderOf[c]] = Append(@, c)]
  /\ UNCHANGED <<time, slot, given>>

Holds(c) == queue[ProviderOf[c]] # <<>> /\ Head(queue[ProviderOf[c]]) = c

(* The caller returns and leaves the slot to the next.                      *)
LeaveHeld(c) ==
  /\ caller' = [caller EXCEPT ![c].pc = "done"]
  /\ UNCHANGED queue
Leave(c) ==
  /\ caller' = [caller EXCEPT ![c].pc = "done"]
  /\ queue' = [queue EXCEPT ![ProviderOf[c]] = Tail(@)]

Due(cached, now) == cached # None => cached.refresh_at <= now

TakeCached(c) ==
  LET cached == slot[ProviderOf[c]]
  IN  /\ caller[c].pc = "waiting"
      /\ Holds(c)
      /\ ~Due(cached, caller[c].now)
      /\ given' = [given EXCEPT ![c] = [at |-> time, expires |-> cached.expires]]
      /\ Leave(c)
      /\ UNCHANGED <<time, slot>>

(* access_token: gcloud is run on the configured directory.                 *)
RunGcloud(c) ==
  /\ caller[c].pc = "waiting"
  /\ Holds(c)
  /\ Due(slot[ProviderOf[c]], caller[c].now)
  /\ caller' = [caller EXCEPT ![c].pc = "gcloud", ![c].started = time]
  /\ UNCHANGED <<time, queue, slot, given>>

(* When a token asked for at this time is due: none within the skew of its  *)
(* end is kept.                                                             *)
RefreshAtExpiry(now) == now + Lifetime
RefreshAt(now) == IF Lifetime > Skew THEN now + (Lifetime - Skew) ELSE now

(* gcloud prints a token that Google made while it ran.                     *)
TokenMinted(c) ==
  \E minted \in caller[c].started..time :
    LET refresh_at == RefreshAt(caller[c].now)
        expires == minted + Lifetime
    IN  /\ caller[c].pc = "gcloud"
        /\ slot' = [slot EXCEPT ![ProviderOf[c]] =
             IF refresh_at > caller[c].now
             THEN [expires |-> expires, refresh_at |-> refresh_at] ELSE None]
        /\ given' = [given EXCEPT ![c] = [at |-> time, expires |-> expires]]
        /\ Leave(c)
        /\ UNCHANGED time

(* The directory is not set up, gcloud fails or takes too long, or its      *)
(* output is not one token: the slot keeps what it had.                     *)
GcloudFails(c) ==
  /\ caller[c].pc = "gcloud"
  /\ Leave(c)
  /\ UNCHANGED <<time, slot, given>>

(* The request is dropped: its client is gone.                              *)
Dropped(c) ==
  /\ caller[c].pc \in {"asked", "waiting", "gcloud"}
  /\ caller' = [caller EXCEPT ![c].pc = "done"]
  /\ queue' = [queue EXCEPT ![ProviderOf[c]] = SelectSeq(@, LAMBDA o : o # c)]
  /\ UNCHANGED <<time, slot, given>>

Answer(c) == TakeCached(c) \/ RunGcloud(c) \/ TokenMinted(c) \/ GcloudFails(c)

Next ==
  \/ Tick
  \/ \E c \in Callers : Ask(c) \/ Enqueue(c) \/ Answer(c) \/ Dropped(c)

Spec == Init /\ [][Next]_vars

(* The runtime polls every task that can go on; gcloud ends or is killed at *)
(* its timeout.                                                             *)
FairSpec == Spec /\ \A c \in Callers : WF_vars(Enqueue(c)) /\ WF_vars(Answer(c))

-----------------------------------------------------------------------------
(* A request that waited no longer than the skew is given a token that has  *)
(* not expired, although the time it checks the cached token against is     *)
(* from before the wait, and refreshes by others failed meanwhile.          *)
TokenUsable ==
  \A c \in Callers :
    (given[c] # None /\ given[c].at <= caller[c].now + Skew)
      => given[c].at < given[c].expires

(* Every request that asks is answered, with a token or an error: nobody    *)
(* waits for ever behind a failed, slow or dropped refresh.                 *)
Answered ==
  \A c \in Callers : caller[c].pc = "asked" ~> caller[c].pc = "done"
=============================================================================

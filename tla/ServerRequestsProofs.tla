----------------------- MODULE ServerRequestsProofs -----------------------
(* Theorems about the token cache, the batch protocol, the bytes of a      *)
(* download and the staging of uploads, for every number of requests,      *)
(* every size and every limit.                                             *)
EXTENDS TokenCache, LfsRequests, StagedDownload, UploadStaging, FiniteSetTheorems,
        TLAPS

----------------------------------------------------------------------------
(* Tokens.  A token is cached with the time the request read before it     *)
(* waited: what keeps it usable is that gcloud starts after that.          *)

CallerPhases == {"idle", "asked", "waiting", "gcloud", "done"}

CallerInv ==
  /\ time \in Nat
  /\ caller \in [Callers -> [pc : CallerPhases, now : Nat, started : Nat]]
  /\ slot = [p \in Providers |-> slot[p]] /\ given = [c \in Callers |-> given[c]]
  /\ \A c \in Callers :
       /\ caller[c].now <= time
       /\ caller[c].pc = "gcloud" =>
            /\ caller[c].now <= caller[c].started
            /\ caller[c].started <= time /\ time <= caller[c].started + Timeout
       /\ caller[c].pc # "done" => given[c] = None

(* A cached token falls due before it expires, the skew earlier.           *)
SlotInv ==
  \A p \in Providers : slot[p] # None =>
    /\ slot[p].refresh_at \in Nat /\ slot[p].expires \in Nat
    /\ slot[p].refresh_at + Skew <= slot[p].expires

TokenInv == CallerInv /\ SlotInv /\ TokenUsable

(* One caller moves on.                                                    *)
LEMMA CallerStep ==
  ASSUME CallerInv, NEW c \in Callers, UNCHANGED time,
         NEW r \in [pc : CallerPhases, now : Nat, started : Nat],
         caller' = [caller EXCEPT ![c] = r], r.now <= time,
         r.pc = "gcloud" => r.now <= r.started /\ r.started <= time
                              /\ time <= r.started + Timeout,
         slot' = [p \in Providers |-> slot'[p]],
         given' = [d \in Callers |-> given'[d]],
         r.pc # "done" => given'[c] = None,
         \A d \in Callers \ {c} : given'[d] = given[d]
  PROVE  CallerInv'
<1>1. caller'[c] = r /\ \A d \in Callers \ {c} : caller'[d] = caller[d]
  BY DEF CallerInv
<1>2. caller' \in [Callers -> [pc : CallerPhases, now : Nat, started : Nat]]
  BY DEF CallerInv
<1>3. ASSUME NEW d \in Callers
      PROVE  /\ caller'[d].now <= time
             /\ caller'[d].pc = "gcloud" =>
                  /\ caller'[d].now <= caller'[d].started
                  /\ caller'[d].started <= time /\ time <= caller'[d].started + Timeout
             /\ caller'[d].pc # "done" => given'[d] = None
  <2>1. CASE d = c
    BY <1>1, <2>1
  <2>2. CASE d # c
    BY <1>1, <2>2 DEF CallerInv
  <2> QED
    BY <2>1, <2>2
<1> QED
  BY <1>2, <1>3 DEF CallerInv

(* Nobody is given a token that the time it read would not let it use.     *)
LEMMA GivenStep ==
  ASSUME CallerInv, TokenUsable, NEW c \in Callers,
         NEW r \in [pc : CallerPhases, now : Nat, started : Nat],
         caller' = [caller EXCEPT ![c] = r],
         given' = [d \in Callers |-> given'[d]],
         \A d \in Callers \ {c} : given'[d] = given[d],
         given'[c] # None /\ given'[c].at <= r.now + Skew
           => given'[c].at < given'[c].expires
  PROVE  TokenUsable'
<1>1. caller'[c] = r /\ \A d \in Callers \ {c} : caller'[d] = caller[d]
  BY DEF CallerInv
<1> QED
  BY <1>1 DEF TokenUsable

LEMMA TokenStep ==
  ASSUME Skew < Lifetime \/ Timeout < Lifetime, TokenInv, [Next]_vars
  PROVE  TokenInv'
<1> USE TokenAssumption DEF TokenInv
<1>a. ASSUME NEW c \in Callers, NEW place \in {"waiting", "done"}, UNCHANGED <<time, slot, given>>,
             caller' = [caller EXCEPT ![c].pc = place], caller[c].pc # "done"
      PROVE  TokenInv'
  <2> DEFINE r == [caller[c] EXCEPT !.pc = place]
  <2>1. /\ r \in [pc : CallerPhases, now : Nat, started : Nat] /\ r.now <= time
        /\ given[c] = None
        /\ slot = [p \in Providers |-> slot[p]] /\ given = [d \in Callers |-> given[d]]
    BY <1>a DEF CallerInv, CallerPhases
  <2>2. caller' = [caller EXCEPT ![c] = r]
    BY <1>a DEF CallerInv
  <2>3. r.pc # "gcloud"
    BY <1>a
  <2> HIDE DEF r
  <2>4. CallerInv'
    BY <1>a, <2>1, <2>2, <2>3, CallerStep
  <2>5. TokenUsable'
    BY <1>a, <2>1, <2>2, GivenStep
  <2> QED
    BY <1>a, <2>4, <2>5 DEF SlotInv
<1>1. CASE Tick
  BY <1>1 DEF Tick, CallerInv, SlotInv, TokenUsable, CallerPhases
<1>2. ASSUME NEW c \in Callers, Ask(c) PROVE TokenInv'
  <2> DEFINE r == [caller[c] EXCEPT !.pc = "asked", !.now = time]
  <2>1. /\ r \in [pc : CallerPhases, now : Nat, started : Nat]
        /\ r.pc = "asked" /\ r.now = time /\ given[c] = None /\ time <= time
        /\ slot = [p \in Providers |-> slot[p]] /\ given = [d \in Callers |-> given[d]]
    <3>1. /\ caller[c] \in [pc : CallerPhases, now : Nat, started : Nat]
          /\ time \in Nat /\ time <= time /\ given[c] = None
          /\ slot = [p \in Providers |-> slot[p]] /\ given = [d \in Callers |-> given[d]]
      BY <1>2 DEF Ask, CallerInv
    <3>2. r \in [pc : CallerPhases, now : Nat, started : Nat]
            /\ r.pc = "asked" /\ r.now = time
      BY <3>1 DEF CallerPhases
    <3> QED
      BY <3>1, <3>2
  <2>2. caller' = [caller EXCEPT ![c] = r]
    BY <1>2 DEF Ask, CallerInv
  <2> HIDE DEF r
  <2>3. CallerInv'
    BY <1>2, <2>1, <2>2, CallerStep DEF Ask
  <2>4. TokenUsable'
    BY <1>2, <2>1, <2>2, GivenStep DEF Ask
  <2> QED
    BY <1>2, <2>3, <2>4 DEF Ask, SlotInv
<1>3. ASSUME NEW c \in Callers, Enqueue(c) PROVE TokenInv'
  BY <1>a, <1>3 DEF Enqueue
<1>b. ASSUME NEW c \in Callers, UNCHANGED time, NEW at \in Nat, NEW expires \in Nat,
             caller' = [caller EXCEPT ![c].pc = "done"],
             slot' = [p \in Providers |-> slot'[p]], SlotInv',
             given' = [given EXCEPT ![c] = [at |-> at, expires |-> expires]],
             at <= caller[c].now + Skew => at < expires
      PROVE  TokenInv'
  <2> DEFINE r == [caller[c] EXCEPT !.pc = "done"]
  <2>1. /\ r \in [pc : CallerPhases, now : Nat, started : Nat]
        /\ r.pc = "done" /\ r.now <= time /\ r.now = caller[c].now
    BY DEF CallerInv, CallerPhases
  <2>2. caller' = [caller EXCEPT ![c] = r]
    BY <1>b DEF CallerInv
  <2>3. /\ given' = [d \in Callers |-> given'[d]]
        /\ \A d \in Callers \ {c} : given'[d] = given[d]
        /\ given'[c].at = at /\ given'[c].expires = expires
    BY <1>b DEF CallerInv
  <2> HIDE DEF r
  <2>4. CallerInv'
    BY <1>b, <2>1, <2>2, <2>3, CallerStep
  <2>5. TokenUsable'
    BY <1>b, <2>1, <2>2, <2>3, GivenStep
  <2> QED
    BY <1>b, <2>4, <2>5
<1>4. ASSUME NEW c \in Callers, TakeCached(c) PROVE TokenInv'
  <2> DEFINE cached == slot[ProviderOf[c]]
  <2>1. /\ cached # None /\ ~(cached.refresh_at <= caller[c].now)
        /\ given' = [given EXCEPT ![c] = [at |-> time, expires |-> cached.expires]]
        /\ caller' = [caller EXCEPT ![c].pc = "done"] /\ UNCHANGED <<time, slot>>
    BY <1>4 DEF TakeCached, Due, Leave
  <2>2. /\ cached.refresh_at \in Nat /\ cached.expires \in Nat
        /\ cached.refresh_at + Skew <= cached.expires
    BY <2>1 DEF SlotInv
  <2>3. time \in Nat /\ caller[c].now \in Nat /\ slot = [p \in Providers |-> slot[p]]
    BY DEF CallerInv
  <2>4. time <= caller[c].now + Skew => time < cached.expires
    BY <2>1, <2>2, <2>3
  <2>5. SlotInv'
    BY <2>1 DEF SlotInv
  <2> QED
    BY <1>b, <2>1, <2>2, <2>3, <2>4, <2>5
<1>5. ASSUME NEW c \in Callers, RunGcloud(c) PROVE TokenInv'
  <2> DEFINE r == [caller[c] EXCEPT !.pc = "gcloud", !.started = time]
  <2>1. /\ r \in [pc : CallerPhases, now : Nat, started : Nat]
        /\ r.now <= time /\ r.pc = "gcloud" /\ r.started = time
        /\ time <= time + Timeout /\ time <= time /\ given[c] = None
        /\ slot = [p \in Providers |-> slot[p]] /\ given = [d \in Callers |-> given[d]]
    <3>1. /\ caller[c] \in [pc : CallerPhases, now : Nat, started : Nat]
          /\ time \in Nat /\ caller[c].now <= time /\ given[c] = None
          /\ slot = [p \in Providers |-> slot[p]] /\ given = [d \in Callers |-> given[d]]
      BY <1>5 DEF RunGcloud, CallerInv
    <3>2. r \in [pc : CallerPhases, now : Nat, started : Nat]
            /\ r.pc = "gcloud" /\ r.started = time /\ r.now = caller[c].now
      BY <3>1 DEF CallerPhases
    <3>3. time <= time + Timeout /\ time <= time
      BY <3>1
    <3> QED
      BY <3>1, <3>2, <3>3
  <2>2. caller' = [caller EXCEPT ![c] = r]
    BY <1>5 DEF RunGcloud, CallerInv
  <2> HIDE DEF r
  <2>3. CallerInv'
    BY <1>5, <2>1, <2>2, CallerStep DEF RunGcloud
  <2>4. TokenUsable'
    BY <1>5, <2>1, <2>2, GivenStep DEF RunGcloud
  <2> QED
    BY <1>5, <2>3, <2>4 DEF RunGcloud, SlotInv
<1>6. ASSUME NEW c \in Callers, TokenMinted(c) PROVE TokenInv'
  <2> DEFINE now == caller[c].now
             fresh(minted) == [expires |-> minted + Lifetime, refresh_at |-> RefreshAt(now)]
  <2>1. PICK minted \in caller[c].started..time :
          /\ caller[c].pc = "gcloud"
          /\ slot' = [slot EXCEPT ![ProviderOf[c]] =
                        IF RefreshAt(now) > now THEN fresh(minted) ELSE None]
          /\ given' = [given EXCEPT ![c] = [at |-> time, expires |-> minted + Lifetime]]
          /\ caller' = [caller EXCEPT ![c].pc = "done"] /\ UNCHANGED time
    BY <1>6 DEF TokenMinted, Leave
  <2>2. /\ now \in Nat /\ time \in Nat /\ minted \in Nat /\ now <= minted
        /\ minted <= time /\ time <= minted + Timeout
        /\ slot = [p \in Providers |-> slot[p]]
    BY <2>1 DEF CallerInv
  <2>3. time <= now + Skew => time < minted + Lifetime
    BY <2>2
  <2>4. RefreshAt(now) > now =>
          /\ fresh(minted).refresh_at \in Nat /\ fresh(minted).expires \in Nat
          /\ fresh(minted).refresh_at + Skew <= fresh(minted).expires
    BY <2>2 DEF RefreshAt
  <2>5. /\ slot' = [p \in Providers |-> slot'[p]]
        /\ \A p \in Providers \ {ProviderOf[c]} : slot'[p] = slot[p]
        /\ slot'[ProviderOf[c]] = IF RefreshAt(now) > now THEN fresh(minted) ELSE None
    BY <2>1, <2>2
  <2> HIDE DEF fresh, now
  <2>6. SlotInv'
    BY <2>4, <2>5 DEF SlotInv
  <2>7. minted + Lifetime \in Nat
    BY <2>2
  <2> QED
    BY <1>b, <2>1, <2>2, <2>3, <2>5, <2>6, <2>7 DEF now
<1>7. ASSUME NEW c \in Callers, GcloudFails(c) PROVE TokenInv'
  BY <1>a, <1>7 DEF GcloudFails, Leave
<1>8. ASSUME NEW c \in Callers, Dropped(c) PROVE TokenInv'
  BY <1>a, <1>8 DEF Dropped
<1>9. CASE UNCHANGED vars
  BY <1>9 DEF vars, CallerInv, SlotInv, TokenUsable
<1> QED
  BY <1>1, <1>2, <1>3, <1>4, <1>5, <1>6, <1>7, <1>8, <1>9 DEF Next, Answer

(* THEOREM: no request is given a token that is expired or expires before  *)
(* the request could be the skew old, though it compares with a clock it   *)
(* read before it waited for others; a token need only live longer than    *)
(* the skew or than gcloud may take.                                       *)
THEOREM TokensUsable ==
  ASSUME Skew < Lifetime \/ Timeout < Lifetime
  PROVE  Spec => []TokenUsable
<1>1. Init => TokenInv
  BY TokenAssumption
  DEF Init, TokenInv, CallerInv, SlotInv, TokenUsable, CallerPhases
<1>2. TokenInv /\ [Next]_vars => TokenInv'
  BY TokenStep
<1>3. TokenInv => TokenUsable
  BY DEF TokenInv
<1> QED
  BY <1>1, <1>2, <1>3, PTL DEF Spec

----------------------------------------------------------------------------
(* Downloads.  What each place of a download says of what it received, of  *)
(* its files in the temp directory and of what its client has.             *)

Chunk == {"right", "wrong"}
StagedPlaces == {"temp", "copy", "orphan copy", "rename", "orphan rename", "body",
                 "send", "leaked"}
Places == StagedPlaces \cup {"idle", "lookup", "missing", "orphan missing", "open",
            "receive", "reconcile", "orphan reconcile", "done", "failed", "cut", "left"}
Unsent == {"idle", "temp", "lookup", "missing", "open", "copy", "rename", "reconcile",
           "body"}

Streams(place, got, dir, has) ==
  /\ place \notin StagedPlaces /\ dir = <<>>
  /\ place \in Unsent => has = <<>> /\ got = <<>>
  /\ place = "receive" => has = got

Stages(place, got, dir, has) ==
  /\ DOMAIN dir \subseteq {Destination, Beside}
  /\ place \in {"rename", "orphan rename"} => Beside \in DOMAIN dir /\ dir[Beside] = Whole
  /\ place \in {"reconcile", "body"} => dir = [g \in {Destination} |-> Whole]
  /\ place = "orphan reconcile" => dir = <<>>
  /\ place = "send" => got = Whole
  /\ Len(has) <= Length /\ \A i \in 1..Len(has) : has[i] = "right"
  /\ place \in Unsent \cup {"receive"} => has = <<>>

Served(d, place, got, dir, has) ==
  /\ place \in Places /\ got \in Seq(Chunk) /\ has \in Seq(Chunk)
  /\ IF d \in Streaming THEN Streams(place, got, dir, has)
                        ELSE Stages(place, got, dir, has)
  /\ place = "done" => has = Whole
  /\ place \in Over \ {"leaked"} => dir = <<>>

DomainsInv ==
  /\ step = [d \in Downloads |-> step[d]] /\ chunks = [d \in Downloads |-> chunks[d]]
  /\ onDisk = [d \in Downloads |-> onDisk[d]] /\ sent = [d \in Downloads |-> sent[d]]

BytesInv ==
  /\ DomainsInv
  /\ \A d \in Downloads : Served(d, step[d], chunks[d], onDisk[d], sent[d])

(* The content of the object, and what two contents have to agree in.      *)
LEMMA WholeIsContent ==
  /\ Whole \in Seq(Chunk) /\ Len(Whole) = Length
  /\ \A i \in 1..Length : Whole[i] = "right"
  /\ \A has \in Seq(Chunk) :
       Len(has) = Length /\ (\A i \in 1..Length : has[i] = "right") => has = Whole
  BY DownloadAssumption DEF Whole, Chunk

(* A temp directory without files.                                         *)
LEMMA EmptyFiles ==
  ASSUME NEW files, NEW f, DOMAIN files \subseteq {f}
  PROVE  Without(files, f) = <<>>
<1>1. DOMAIN files \ {f} = {}
  OBVIOUS
<1>2. Without(files, f) = [g \in {} |-> files[g]]
  BY <1>1 DEF Without
<1>3. \A empty : empty = [g \in {} |-> files[g]] => empty = <<>>
  OBVIOUS
<1> QED
  BY <1>2, <1>3

(* One download moves on.                                                  *)
LEMMA DownloadMoves ==
  ASSUME BytesInv, NEW d \in Downloads, NEW place, NEW got, NEW dir, NEW has,
         step' = [step EXCEPT ![d] = place], chunks' = [chunks EXCEPT ![d] = got],
         onDisk' = [onDisk EXCEPT ![d] = dir], sent' = [sent EXCEPT ![d] = has],
         Served(d, place, got, dir, has)
  PROVE  BytesInv'
<1>1. DomainsInv'
  BY DEF BytesInv, DomainsInv
<1>2. ASSUME NEW e \in Downloads
      PROVE  Served(e, step'[e], chunks'[e], onDisk'[e], sent'[e])
  <2>1. CASE e = d
    <3>1. /\ step'[d] = place /\ chunks'[d] = got /\ onDisk'[d] = dir /\ sent'[d] = has
      BY DEF BytesInv, DomainsInv
    <3> QED
      BY <2>1, <3>1
  <2>2. CASE e # d
    <3>1. /\ step'[e] = step[e] /\ chunks'[e] = chunks[e]
          /\ onDisk'[e] = onDisk[e] /\ sent'[e] = sent[e]
      BY <2>2 DEF BytesInv, DomainsInv
    <3> QED
      BY <3>1 DEF BytesInv
  <2> QED
    BY <2>1, <2>2
<1> QED
  BY <1>1, <1>2 DEF BytesInv

(* One download goes on and has what it had.                               *)
LEMMA DownloadGoes ==
  ASSUME BytesInv, NEW d \in Downloads, NEW place, Go(d, place),
         UNCHANGED <<chunks, onDisk, sent>>,
         Served(d, place, chunks[d], onDisk[d], sent[d])
  PROVE  BytesInv'
<1>1. /\ step' = [step EXCEPT ![d] = place] /\ chunks' = [chunks EXCEPT ![d] = chunks[d]]
      /\ onDisk' = [onDisk EXCEPT ![d] = onDisk[d]] /\ sent' = [sent EXCEPT ![d] = sent[d]]
  BY DEF BytesInv, DomainsInv, Go
<1> DEFINE got == chunks[d]  dir == onDisk[d]  has == sent[d]
<1>2. Served(d, place, got, dir, has)
  OBVIOUS
<1> HIDE DEF got, dir, has
<1>3. /\ step' = [step EXCEPT ![d] = place] /\ chunks' = [chunks EXCEPT ![d] = got]
      /\ onDisk' = [onDisk EXCEPT ![d] = dir] /\ sent' = [sent EXCEPT ![d] = has]
  BY <1>1 DEF got, dir, has
<1> QED
  BY <1>2, <1>3, DownloadMoves

(* A download that ends and owns nothing more.                             *)
LEMMA DownloadQuits ==
  ASSUME BytesInv, NEW d \in Downloads, NEW place \in {"failed", "cut", "left", "done"},
         Quit(d, place), UNCHANGED sent, place = "done" => sent[d] = Whole
  PROVE  BytesInv'
<1> DEFINE none == <<>>
<1>1. /\ step' = [step EXCEPT ![d] = place] /\ chunks' = [chunks EXCEPT ![d] = none]
      /\ onDisk' = [onDisk EXCEPT ![d] = none] /\ sent' = [sent EXCEPT ![d] = sent[d]]
  BY DEF Quit, Go, BytesInv, DomainsInv
<1>2. Served(d, step[d], chunks[d], onDisk[d], sent[d])
  BY DEF BytesInv
<1>3. Served(d, place, none, none, sent[d])
  <2>1. none \in Seq(Chunk) /\ DOMAIN none = {}
    OBVIOUS
  <2> HIDE DEF none
  <2>2. none = <<>>
    BY DEF none
  <2> QED
    BY <1>2, <2>1, <2>2 DEF Served, Streams, Stages, Places, StagedPlaces, Unsent
<1> HIDE DEF none
<1> QED
  BY <1>1, <1>3, DownloadMoves

(* What runs on a thread goes on under another name.                       *)
LEMMA OrphanPlaces ==
  /\ Orphan["missing"] = "orphan missing" /\ Orphan["reconcile"] = "orphan reconcile"
  /\ Orphan["copy"] = "orphan copy" /\ Orphan["rename"] = "orphan rename"
  BY DEF Orphan

(* Every step of a download keeps what its place says of its bytes.        *)
LEMMA BytesStep == BytesInv /\ [DownloadNext]_downloadVars => BytesInv'
<1> SUFFICES ASSUME BytesInv, [DownloadNext]_downloadVars PROVE BytesInv'
  OBVIOUS
<1> USE DownloadAssumption
<1>a. ASSUME NEW d \in Downloads
      PROVE  /\ Served(d, step[d], chunks[d], onDisk[d], sent[d])
             /\ UNCHANGED chunks => chunks' = [chunks EXCEPT ![d] = chunks[d]]
             /\ UNCHANGED onDisk => onDisk' = [onDisk EXCEPT ![d] = onDisk[d]]
             /\ UNCHANGED sent => sent' = [sent EXCEPT ![d] = sent[d]]
             /\ UNCHANGED step => step' = [step EXCEPT ![d] = step[d]]
  BY DEF BytesInv, DomainsInv
<1>b. ASSUME UNCHANGED <<step, chunks, onDisk, sent>> PROVE BytesInv'
  BY <1>b DEF BytesInv, DomainsInv
<1>1. ASSUME NEW d \in Downloads, Begin(d) PROVE BytesInv'
  <2>1. Served(d, IF d \in Streaming THEN "lookup" ELSE "temp", chunks[d], onDisk[d], sent[d])
    BY <1>1, <1>a
    DEF Begin, Served, Streams, Stages, Places, StagedPlaces, Unsent, Over, Destination,
        Beside
  <2> QED
    BY <1>1, <2>1, DownloadGoes DEF Begin
<1>2. ASSUME NEW d \in Downloads, MakeTemp(d) PROVE BytesInv'
  <2>1. CASE Fail(d) /\ UNCHANGED sent
    BY <2>1, DownloadQuits DEF Fail
  <2>2. CASE ~(Fail(d) /\ UNCHANGED sent)
    <3> DEFINE dir == With(<<>>, Destination, <<>>)
    <3>1. DOMAIN dir = {Destination}
      BY DEF With
    <3>2. /\ step[d] = "temp" /\ Go(d, "lookup") /\ UNCHANGED <<chunks, sent>>
          /\ onDisk' = [onDisk EXCEPT ![d] = dir]
      BY <1>2, <2>2 DEF MakeTemp
    <3> HIDE DEF dir
    <3>3. Served(d, "lookup", chunks[d], dir, sent[d])
      BY <1>a, <3>1, <3>2
      DEF Served, Streams, Stages, Places, StagedPlaces, Unsent, Over, Destination, Beside
    <3> QED
      BY <1>a, <3>2, <3>3, DownloadMoves DEF Go
  <2> QED
    BY <2>1, <2>2
<1>3. ASSUME NEW d \in Downloads, Find(d) PROVE BytesInv'
  <2>1. PICK place \in {"reconcile", "open", "missing"} :
          Go(d, place) /\ (place = "reconcile" => d \in Streaming)
    BY <1>3 DEF Find
  <2>2. Served(d, place, chunks[d], onDisk[d], sent[d])
    BY <1>3, <1>a, <2>1
    DEF Find, Served, Streams, Stages, Places, StagedPlaces, Unsent, Over, Destination,
        Beside
  <2> QED
    BY <1>3, <2>1, <2>2, DownloadGoes DEF Find
<1>4. ASSUME NEW d \in Downloads, Missing(d) PROVE BytesInv'
  BY <1>4, DownloadQuits DEF Missing
<1>5. ASSUME NEW d \in Downloads, OpenMedia(d) PROVE BytesInv'
  <2>1. CASE Fail(d)
    BY <1>5, <2>1, DownloadQuits DEF Fail, OpenMedia
  <2>2. CASE ~Fail(d)
    <3>1. PICK place \in {"receive", "missing"} :
            Go(d, place) /\ (place = "missing" => d \notin Streaming)
      BY <1>5, <2>2 DEF OpenMedia
    <3>2. UNCHANGED <<chunks, onDisk, sent>> /\ step[d] = "open"
      BY <1>5, <2>2 DEF OpenMedia
    <3>3. Served(d, place, chunks[d], onDisk[d], sent[d])
      BY <1>a, <3>1, <3>2
      DEF Served, Streams, Stages, Places, StagedPlaces, Unsent, Over, Destination, Beside
    <3> QED
      BY <3>1, <3>2, <3>3, DownloadGoes
  <2> QED
    BY <2>1, <2>2
<1>6. ASSUME NEW d \in Downloads, Error(d) PROVE BytesInv'
  BY <1>6, DownloadQuits DEF Error, Fail
<1>7. ASSUME NEW d \in Downloads, Receive(d) PROVE BytesInv'
  <2>1. PICK chunk \in Chunk : chunks' = [chunks EXCEPT ![d] = Append(chunks[d], chunk)]
    BY <1>7 DEF Receive, Chunk
  <2> DEFINE more == Append(chunks[d], chunk)
             has == IF d \in Streaming THEN more ELSE sent[d]
  <2>2. chunks' = [chunks EXCEPT ![d] = more] /\ chunks'[d] = more /\ more \in Seq(Chunk)
    BY <1>a, <2>1 DEF BytesInv, DomainsInv, Served
  <2>3. sent' = [sent EXCEPT ![d] = has]
    BY <1>7, <1>a, <2>2 DEF Receive
  <2> HIDE DEF more
  <2>4. Served(d, "receive", more, onDisk[d], has)
    BY <1>7, <1>a, <2>2
    DEF Receive, Served, Streams, Stages, Places, StagedPlaces, Unsent, Over, Destination,
        Beside
  <2>5. step' = [step EXCEPT ![d] = "receive"] /\ onDisk' = [onDisk EXCEPT ![d] = onDisk[d]]
    BY <1>7, <1>a DEF Receive
  <2> HIDE DEF has
  <2> QED
    BY <2>2, <2>3, <2>4, <2>5, DownloadMoves
<1>8. ASSUME NEW d \in Downloads, Verify(d) PROVE BytesInv'
  <2>1. CASE Verified(d) /\ d \notin Streaming
    <3>1. Served(d, "copy", chunks[d], onDisk[d], sent[d])
      BY <1>8, <1>a, <2>1
      DEF Verify, Served, Streams, Stages, Places, StagedPlaces, Unsent, Over,
          Destination, Beside
    <3> QED
      BY <1>8, <2>1, <3>1, DownloadGoes DEF Verify
  <2>2. CASE Verified(d) /\ d \in Streaming
    <3>1. sent[d] = Whole
      BY <1>8, <1>a, <2>2 DEF Verify, Verified, Served, Streams
    <3> QED
      BY <1>8, <2>2, <3>1, DownloadQuits DEF Verify
  <2>3. CASE ~Verified(d)
    BY <1>8, <2>3, DownloadQuits DEF Verify
  <2> QED
    BY <2>1, <2>2, <2>3
<1>9. ASSUME NEW d \in Downloads, Break(d) PROVE BytesInv'
  BY <1>9, DownloadQuits DEF Break
<1>10. ASSUME NEW d \in Downloads, Copy(d) PROVE BytesInv'
  <2> DEFINE dir == With(onDisk[d], Beside, Whole)
             place == IF step[d] = "copy" THEN "rename" ELSE "orphan rename"
  <2>1. DOMAIN dir = DOMAIN onDisk[d] \cup {Beside} /\ dir[Beside] = Whole
    BY DEF With
  <2>2. /\ step[d] \in {"copy", "orphan copy"} /\ UNCHANGED <<chunks, sent>>
        /\ onDisk' = [onDisk EXCEPT ![d] = dir] /\ step' = [step EXCEPT ![d] = place]
    BY <1>10 DEF Copy, Go, Orphan
  <2> HIDE DEF dir
  <2>3. Served(d, place, chunks[d], dir, sent[d])
    BY <1>a, <2>1, <2>2
    DEF Served, Streams, Stages, Places, StagedPlaces, Unsent, Over, Destination, Beside
  <2> HIDE DEF place
  <2> QED
    BY <1>a, <2>2, <2>3, DownloadMoves
<1>11. ASSUME NEW d \in Downloads, Rename(d) PROVE BytesInv'
  <2> DEFINE dir == With(Without(onDisk[d], Beside), Destination, onDisk[d][Beside])
             place == IF step[d] = "rename" THEN "reconcile" ELSE "leaked"
  <2>1. /\ step[d] \in {"rename", "orphan rename"} /\ UNCHANGED <<chunks, sent>>
        /\ onDisk' = [onDisk EXCEPT ![d] = dir] /\ step' = [step EXCEPT ![d] = place]
    BY <1>11 DEF Rename, Go
  <2>2. /\ d \notin Streaming /\ DOMAIN onDisk[d] \subseteq {Destination, Beside}
        /\ onDisk[d][Beside] = Whole
    BY <1>a, <2>1
    DEF Served, Streams, Stages, Places, StagedPlaces, Unsent, Over, Destination, Beside
  <2>3. dir = [g \in {Destination} |-> Whole]
    <3>1. DOMAIN Without(onDisk[d], Beside) \cup {Destination} = {Destination}
      BY <2>2 DEF Without, Destination, Beside
    <3>2. dir = [g \in DOMAIN Without(onDisk[d], Beside) \cup {Destination} |->
                    IF g = Destination THEN Whole ELSE Without(onDisk[d], Beside)[g]]
      BY <2>2 DEF With
    <3> HIDE DEF dir
    <3> QED
      BY <3>1, <3>2
  <2> HIDE DEF dir
  <2>4. Served(d, place, chunks[d], dir, sent[d])
    BY <1>a, <2>1, <2>2, <2>3
    DEF Served, Streams, Stages, Places, StagedPlaces, Unsent, Over, Destination, Beside
  <2> HIDE DEF place
  <2> QED
    BY <1>a, <2>1, <2>4, DownloadMoves
<1>12. ASSUME NEW d \in Downloads, OrphanFails(d) PROVE BytesInv'
  BY <1>12, DownloadQuits DEF OrphanFails
<1>13. ASSUME NEW d \in Downloads, Reconcile(d) PROVE BytesInv'
  <2> DEFINE place == IF step[d] = "orphan reconcile" THEN "left"
                      ELSE IF d \in Streaming THEN "open" ELSE "body"
  <2>1. /\ step[d] \in {"reconcile", "orphan reconcile"} /\ UNCHANGED <<chunks, onDisk, sent>>
        /\ Go(d, place)
    BY <1>13 DEF Reconcile
  <2>2. Served(d, place, chunks[d], onDisk[d], sent[d])
    BY <1>a, <2>1
    DEF Served, Streams, Stages, Places, StagedPlaces, Unsent, Over, Destination, Beside
  <2> HIDE DEF place
  <2> QED
    BY <2>1, <2>2, DownloadGoes
<1>14. ASSUME NEW d \in Downloads, OpenBody(d) PROVE BytesInv'
  <2> DEFINE got == onDisk[d][Destination]
  <2>1. /\ step[d] = "body" /\ UNCHANGED <<onDisk, sent>>
        /\ chunks' = [chunks EXCEPT ![d] = got] /\ step' = [step EXCEPT ![d] = "send"]
    BY <1>14 DEF OpenBody, Go
  <2>2. d \notin Streaming /\ got = Whole
    <3>1. d \notin Streaming /\ onDisk[d] = [g \in {Destination} |-> Whole]
      BY <1>a, <2>1 DEF Served, Streams, Stages, StagedPlaces
    <3>2. \A dir : dir = [g \in {Destination} |-> Whole] => dir[Destination] = Whole
      OBVIOUS
    <3> QED
      BY <3>1, <3>2
  <2>3. Whole \in Seq(Chunk)
    BY WholeIsContent
  <2> HIDE DEF got
  <2>4. Served(d, "send", got, onDisk[d], sent[d])
    BY <1>a, <2>1, <2>2, <2>3
    DEF Served, Streams, Stages, Places, StagedPlaces, Unsent, Over, Destination, Beside
  <2>5. onDisk' = [onDisk EXCEPT ![d] = onDisk[d]] /\ sent' = [sent EXCEPT ![d] = sent[d]]
    BY <1>a, <2>1
  <2> QED
    BY <2>1, <2>4, <2>5, DownloadMoves
<1>15. ASSUME NEW d \in Downloads, SendChunk(d) PROVE BytesInv'
  <2>1. step[d] = "send" /\ d \notin Streaming /\ chunks[d] = Whole
    BY <1>15, <1>a DEF SendChunk, Served, Streams, Stages, StagedPlaces
  <2>2. /\ sent[d] \in Seq(Chunk) /\ Len(sent[d]) <= Length
        /\ \A i \in 1..Len(sent[d]) : sent[d][i] = "right"
    BY <1>a, <2>1 DEF Served, Stages
  <2>3. CASE Len(sent[d]) < Len(chunks[d])
    <3> DEFINE has == Append(sent[d], chunks[d][Len(sent[d]) + 1])
    <3>1. chunks[d][Len(sent[d]) + 1] = "right"
      BY <2>1, <2>2, <2>3, WholeIsContent
    <3>2. /\ has \in Seq(Chunk) /\ Len(has) <= Length
          /\ \A i \in 1..Len(has) : has[i] = "right"
      BY <2>1, <2>2, <2>3, <3>1, WholeIsContent DEF Chunk
    <3>3. sent' = [sent EXCEPT ![d] = has] /\ UNCHANGED <<step, chunks, onDisk>>
      BY <1>15, <2>3 DEF SendChunk
    <3> HIDE DEF has
    <3>4. Served(d, step[d], chunks[d], onDisk[d], has)
      BY <1>a, <2>1, <3>2
      DEF Served, Streams, Stages, Places, StagedPlaces, Unsent, Over, Destination, Beside
    <3> QED
      BY <1>a, <3>3, <3>4, DownloadMoves
  <2>4. CASE ~(Len(sent[d]) < Len(chunks[d]))
    <3>1. Len(sent[d]) = Length
      BY <2>1, <2>2, <2>4, WholeIsContent
    <3>2. sent[d] = Whole
      BY <2>2, <3>1, WholeIsContent
    <3> QED
      BY <1>15, <2>4, <3>2, DownloadQuits DEF SendChunk
  <2> QED
    BY <2>3, <2>4
<1>16. ASSUME NEW d \in Downloads, Disconnect(d) PROVE BytesInv'
  <2>1. CASE step[d] \notin Threads
    BY <1>16, <2>1, DownloadQuits DEF Disconnect
  <2>2. CASE step[d] \in Threads
    <3> DEFINE none == <<>>
               dir == Without(onDisk[d], Destination)
               place == Orphan[step[d]]
    <3>1. /\ step' = [step EXCEPT ![d] = place] /\ chunks' = [chunks EXCEPT ![d] = none]
          /\ onDisk' = [onDisk EXCEPT ![d] = dir] /\ UNCHANGED sent
      BY <1>16, <2>2 DEF Disconnect, Go
    <3>2. /\ DOMAIN dir \subseteq DOMAIN onDisk[d]
          /\ Beside \in DOMAIN onDisk[d] =>
               Beside \in DOMAIN dir /\ dir[Beside] = onDisk[d][Beside]
          /\ DOMAIN onDisk[d] \subseteq {Destination} => dir = <<>>
      BY EmptyFiles DEF Without, Destination, Beside
    <3>3. none \in Seq(Chunk) /\ none = <<>> /\ DOMAIN none = {}
      OBVIOUS
    <3>0. sent' = [sent EXCEPT ![d] = sent[d]]
      BY <1>a, <3>1
    <3> HIDE DEF none, dir
    <3>4. ASSUME d \in Streaming PROVE Served(d, place, none, dir, sent[d])
      <4>1. onDisk[d] = <<>> /\ step[d] \in {"missing", "reconcile"}
        BY <1>a, <2>2, <3>4 DEF Served, Streams, StagedPlaces, Threads
      <4>2. dir = <<>>
        <5>1. DOMAIN onDisk[d] \subseteq {Destination}
          BY <4>1
        <5> QED
          BY <3>2, <5>1
      <4>3. place \in {"orphan missing", "orphan reconcile"}
        BY <4>1, OrphanPlaces
      <4> HIDE DEF place
      <4> QED
        BY <1>a, <3>3, <3>4, <4>2, <4>3
        DEF Served, Streams, Places, StagedPlaces, Unsent, Over
    <3>5. ASSUME d \notin Streaming PROVE Served(d, place, none, dir, sent[d])
      <4>1. Stages(step[d], chunks[d], onDisk[d], sent[d])
        BY <1>a, <3>5 DEF Served
      <4>2. CASE step[d] = "reconcile"
        <5>1. dir = <<>>
          BY <3>2, <4>1, <4>2 DEF Stages
        <5>2. place = "orphan reconcile"
          BY <4>2, OrphanPlaces
        <5> HIDE DEF place
        <5> QED
          BY <1>a, <3>3, <3>5, <4>1, <4>2, <5>1, <5>2
          DEF Served, Stages, Places, StagedPlaces, Unsent, Over
      <4>3. CASE step[d] # "reconcile"
        <5>1. /\ step[d] = "rename" /\ place = "orphan rename"
              \/ place \in {"orphan missing", "orphan copy"}
          BY <2>2, <4>3, OrphanPlaces DEF Threads
        <5>2. step[d] = "rename" => Beside \in DOMAIN dir /\ dir[Beside] = Whole
          BY <3>2, <4>1 DEF Stages
        <5> HIDE DEF place
        <5> QED
          BY <1>a, <3>2, <3>3, <3>5, <4>1, <5>1, <5>2
          DEF Served, Stages, Places, StagedPlaces, Unsent, Over
      <4> QED
        BY <4>2, <4>3
    <3>6. Served(d, place, none, dir, sent[d])
      BY <3>4, <3>5
    <3> HIDE DEF place
    <3> QED
      BY <3>0, <3>1, <3>6, DownloadMoves
  <2> QED
    BY <2>1, <2>2
<1>17. CASE Store
  BY <1>b, <1>17 DEF Store
<1>18. CASE Delete
  BY <1>b, <1>18 DEF Delete
<1>19. CASE UNCHANGED downloadVars
  BY <1>b, <1>19 DEF downloadVars
<1> QED
  BY <1>1, <1>2, <1>3, <1>4, <1>5, <1>6, <1>7, <1>8, <1>9, <1>10, <1>11, <1>12,
     <1>13, <1>14, <1>15, <1>16, <1>17, <1>18, <1>19 DEF DownloadNext

(* Before the first download nothing is received, sent or on the disk.     *)
LEMMA BytesInit == DownloadInit => BytesInv
<1> SUFFICES ASSUME DownloadInit PROVE BytesInv
  OBVIOUS
<1>1. ASSUME NEW d \in Downloads
      PROVE  Served(d, step[d], chunks[d], onDisk[d], sent[d])
  <2> DEFINE none == <<>>
  <2>1. none \in Seq(Chunk) /\ DOMAIN none = {} /\ Len(none) = 0 /\ none = <<>>
    OBVIOUS
  <2>2. step[d] = "idle" /\ chunks[d] = none /\ onDisk[d] = none /\ sent[d] = none
    BY DEF DownloadInit
  <2> HIDE DEF none
  <2> QED
    BY <2>1, <2>2, DownloadAssumption
    DEF Served, Streams, Stages, Places, StagedPlaces, Unsent, Over
<1>2. DomainsInv
  BY DEF DownloadInit, DomainsInv
<1> QED
  BY <1>1, <1>2 DEF BytesInv

(* What the two properties of a download take from that.                   *)
LEMMA BytesImply == BytesInv => ServedWhole /\ TempGone
<1> SUFFICES ASSUME BytesInv PROVE ServedWhole /\ TempGone
  OBVIOUS
<1>1. ASSUME NEW d \in Downloads
      PROVE  /\ d \notin Streaming => \A i \in DOMAIN sent[d] : sent[d][i] = "right"
             /\ step[d] = "done" => sent[d] = Whole
             /\ step[d] \in Over \ {"leaked"} => onDisk[d] = <<>>
  <2>1. Served(d, step[d], chunks[d], onDisk[d], sent[d])
    BY DEF BytesInv
  <2>2. DOMAIN sent[d] = 1..Len(sent[d])
    BY <2>1 DEF Served
  <2> QED
    BY <2>1, <2>2 DEF Served, Stages
<1> QED
  BY <1>1 DEF ServedWhole, TempGone

DownloadSpec == DownloadInit /\ [][DownloadNext]_downloadVars

(* THEOREM: a client of a staged download never has a byte that is not the *)
(* object's, and a download of either kind ends well only if it was the    *)
(* whole object, however Drive answers, files come and go and threads of   *)
(* abandoned downloads go on.                                              *)
THEOREM DownloadsWhole == DownloadSpec => []ServedWhole
<1>1. BytesInv => ServedWhole
  BY BytesImply
<1> QED
  BY <1>1, BytesInit, BytesStep, PTL DEF DownloadSpec

(* THEOREM: a download that is over has nothing in the temp directory,     *)
(* wherever it stopped, with the one exception TempGone names.             *)
THEOREM DownloadsClean == DownloadSpec => []TempGone
<1>1. BytesInv => TempGone
  BY BytesImply
<1> QED
  BY <1>1, BytesInit, BytesStep, PTL DEF DownloadSpec

----------------------------------------------------------------------------
(* Requests.  An address that an answer may give, the requests that can be *)
(* answered entry by entry, and what holds of one and its answer.          *)

Followable(r) ==
  /\ r.endpoint = "object" /\ r.method \in {"GET", "PUT"}
  /\ r.credential = "token" /\ r.size = "given"
  /\ r.method = "PUT" => ~(r.object.size > MaxUploadSize)

Listed(r) == r.endpoint = "batch" => r.objects \in Seq(Objects)
Fits(r) ==
  r.endpoint = "batch" /\ r.op = "upload" =>
    \A i \in DOMAIN r.objects : ~(r.objects[i].size > MaxUploadSize)

Right(r, state, found, reply) ==
  /\ state # "idle" => Listed(r)
  /\ state \in {"body", "lookup"} => r.endpoint = "batch"
  /\ state \in {"authorize", "lookup"} => Fits(r)
  /\ \A o \in DOMAIN found : found[o].object = o
  /\ state = "answered" /\ reply.by \in {"route", "request"} => ~Followable(r)
  /\ state = "answered" /\ reply.by = "batch" =>
       /\ Len(reply.entries) = Len(r.objects)
       /\ \A i \in DOMAIN reply.entries : reply.entries[i].object = r.objects[i]

RequestDomains ==
  /\ request = [q \in Requests |-> request[q]] /\ phase = [q \in Requests |-> phase[q]]
  /\ looked = [q \in Requests |-> looked[q]] /\ answer = [q \in Requests |-> answer[q]]

RequestInv ==
  /\ RequestDomains
  /\ \A q \in Requests : Right(request[q], phase[q], looked[q], answer[q])
  /\ \A r \in advertised : Followable(r)

(* One request moves on.                                                   *)
LEMMA RequestMoves ==
  ASSUME RequestInv, NEW q \in Requests, NEW r, NEW state, NEW found, NEW reply,
         request' = [request EXCEPT ![q] = r], phase' = [phase EXCEPT ![q] = state],
         looked' = [looked EXCEPT ![q] = found], answer' = [answer EXCEPT ![q] = reply],
         Right(r, state, found, reply), \A action \in advertised' : Followable(action)
  PROVE  RequestInv'
<1>1. RequestDomains'
  BY DEF RequestInv, RequestDomains
<1>2. ASSUME NEW p \in Requests
      PROVE  Right(request'[p], phase'[p], looked'[p], answer'[p])
  <2>1. CASE p = q
    <3>1. request'[q] = r /\ phase'[q] = state /\ looked'[q] = found /\ answer'[q] = reply
      BY DEF RequestInv, RequestDomains
    <3> QED
      BY <2>1, <3>1
  <2>2. CASE p # q
    <3>1. /\ request'[p] = request[p] /\ phase'[p] = phase[p]
          /\ looked'[p] = looked[p] /\ answer'[p] = answer[p]
      BY <2>2 DEF RequestInv, RequestDomains
    <3> QED
      BY <3>1 DEF RequestInv
  <2> QED
    BY <2>1, <2>2
<1> QED
  BY <1>1, <1>2 DEF RequestInv

(* The server answers a request, or goes on with it.                       *)
LEMMA RequestReplied ==
  ASSUME RequestInv, NEW q \in Requests, NEW status, NEW by,
         Reply(q, status, by), UNCHANGED <<request, looked, advertised>>,
         phase[q] # "idle", by # "batch",
         by \in {"route", "request"} => ~Followable(request[q])
  PROVE  RequestInv'
<1> DEFINE reply == [status |-> status, by |-> by, entries |-> <<>>]
<1>1. /\ request' = [request EXCEPT ![q] = request[q]]
      /\ looked' = [looked EXCEPT ![q] = looked[q]]
      /\ phase' = [phase EXCEPT ![q] = "answered"]
      /\ answer' = [answer EXCEPT ![q] = reply]
  BY DEF Reply, ReplyEntries, Goto, RequestInv, RequestDomains
<1>2. reply.by = by
  OBVIOUS
<1> HIDE DEF reply
<1>3. Right(request[q], "answered", looked[q], reply)
  BY <1>2 DEF RequestInv, Right
<1>4. \A action \in advertised' : Followable(action)
  BY DEF RequestInv
<1> QED
  BY <1>1, <1>3, <1>4, RequestMoves

LEMMA RequestGoes ==
  ASSUME RequestInv, NEW q \in Requests, NEW state,
         Goto(q, state), UNCHANGED <<request, looked, answer, advertised>>,
         Right(request[q], state, looked[q], answer[q])
  PROVE  RequestInv'
<1>1. /\ request' = [request EXCEPT ![q] = request[q]]
      /\ looked' = [looked EXCEPT ![q] = looked[q]]
      /\ phase' = [phase EXCEPT ![q] = state]
      /\ answer' = [answer EXCEPT ![q] = answer[q]]
  BY DEF Goto, RequestInv, RequestDomains
<1>2. \A action \in advertised' : Followable(action)
  BY DEF RequestInv
<1> DEFINE r == request[q]  found == looked[q]  reply == answer[q]
<1>3. Right(r, state, found, reply)
  OBVIOUS
<1> HIDE DEF r, found, reply
<1>4. /\ request' = [request EXCEPT ![q] = r] /\ looked' = [looked EXCEPT ![q] = found]
      /\ phase' = [phase EXCEPT ![q] = state] /\ answer' = [answer EXCEPT ![q] = reply]
  BY <1>1 DEF r, found, reply
<1> QED
  BY <1>2, <1>3, <1>4, RequestMoves

(* An address that an answer gave passes every check but the session's.    *)
LEMMA OnlySessionTurnsAway ==
  ASSUME NEW r, Followable(r)
  PROVE  resolve_path(r) = 200 /\ endpoint_status(r) = 200 /\ transfer_status(r) = 200
<1>1. resolve_path(r) = 200
  BY DEF Followable, resolve_path
<1>2. endpoint_status(r) = 200
  BY DEF Followable, endpoint_status, Methods
<1>3. ~(r.method = "PUT" /\ r.object.size > MaxUploadSize)
  BY DEF Followable
<1>4. transfer_status(r) = 200
  BY <1>3 DEF Followable, transfer_status
<1> QED
  BY <1>1, <1>2, <1>4

(* A request that the client sends lists objects, if it is a batch.        *)
LEMMA SentIsListed ==
  ASSUME NEW r \in Batches \cup OddRequests
  PROVE  Listed(r)
<1> DEFINE o == CHOOSE x \in Objects : x.size <= MaxUploadSize
           b == Batch("upload", <<o>>)
           t == lfs_object_transfer_action_url("GET", o)
<1>1. CASE r \in Batches
  BY <1>1, RequestAssumption DEF Batches, Batch, Listed
<1>2. CASE r \in OddRequests
  <2>1. o \in Objects
    BY RequestAssumption DEF Sized
  <2> HIDE DEF o
  <2>2. <<o>> \in Seq(Objects)
    BY <2>1
  <2>3. b.objects \in Seq(Objects) /\ t.endpoint # "batch"
    BY <2>2 DEF Batch, lfs_object_transfer_action_url
  <2>4. ASSUME NEW x, \/ r = [b EXCEPT !.endpoint = x] \/ r = [b EXCEPT !.method = x]
                      \/ r = [b EXCEPT !.credential = x] \/ r = [b EXCEPT !.transfers = x]
                      \/ r = [b EXCEPT !.body = x]
        PROVE  r.objects = b.objects
    BY <2>4 DEF Batch
  <2>5. ASSUME NEW x, r = [t EXCEPT !.method = x] \/ r = [t EXCEPT !.size = x]
        PROVE  r.endpoint = t.endpoint
    BY <2>5 DEF lfs_object_transfer_action_url
  <2>6. r.objects = b.objects \/ r.endpoint = t.endpoint
    <3> HIDE DEF b, t
    <3>1. \E x : \/ r = [b EXCEPT !.endpoint = x] \/ r = [b EXCEPT !.method = x]
                 \/ r = [b EXCEPT !.credential = x] \/ r = [b EXCEPT !.transfers = x]
                 \/ r = [b EXCEPT !.body = x]
                 \/ r = [t EXCEPT !.method = x] \/ r = [t EXCEPT !.size = x]
      BY <1>2, Zenon DEF OddRequests, o, b, t
    <3> QED
      BY <2>4, <2>5, <3>1, Zenon
  <2> QED
    BY <2>3, <2>6 DEF Listed
<1> QED
  BY <1>1, <1>2

(* A set of natural numbers has a least element.                           *)
LEMMA LeastNatural ==
  ASSUME NEW S \in SUBSET Nat, S # {}
  PROVE  \E n \in S : \A m \in S : n <= m
<1>1. PICK n \in S : \A m \in S : <<m, n>> \notin OpToRel(<, Nat)
  BY NatLessThanWellFounded, WFMin
<1>2. \A m \in Nat : m < n => <<m, n>> \in OpToRel(<, Nat)
  BY DEF OpToRel
<1>3. \A m \in S : ~ (m < n) /\ m \in Nat /\ n \in Nat
  BY <1>1, <1>2
<1> QED
  BY <1>3

(* The first entry for an object is one of the lookups.                    *)
LEMMA EveryEntryLooked ==
  ASSUME NEW r, r.objects \in Seq(Objects), NEW i \in DOMAIN r.objects
  PROVE  r.objects[i] \in Unique(r)
<1> DEFINE same == {j \in DOMAIN r.objects : r.objects[j] = r.objects[i]}
<1>1. same \in SUBSET Nat /\ same # {}
  OBVIOUS
<1>2. PICK j \in same : \A k \in same : j <= k
  BY <1>1, LeastNatural
<1>3. \A k \in 1..(j - 1) : k \in DOMAIN r.objects /\ k \notin same
  BY <1>2
<1> QED
  BY <1>2, <1>3 DEF Unique, LookupKey

(* An entry is for the object that was looked up, and its action can be    *)
(* followed if the object is not too large for an upload.                  *)
LEMMA EntryActions ==
  ASSUME NEW op, NEW lookup
  PROVE  /\ entry(op, lookup).object = lookup.object
         /\ op = "upload" /\ ~(lookup.object.size > MaxUploadSize)
              => \A action \in entry(op, lookup).actions : Followable(action)
         /\ op # "upload" => \A action \in entry(op, lookup).actions : Followable(action)
<1>1. entry(op, lookup).object = lookup.object
  BY DEF entry
<1>2. ASSUME NEW action \in entry(op, lookup).actions
      PROVE  \E m \in {"GET", "PUT"} :
               /\ action = lfs_object_transfer_action_url(m, lookup.object)
               /\ m = "PUT" => op = "upload"
  BY DEF entry
<1>3. ASSUME NEW m \in {"GET", "PUT"}, NEW o, m = "PUT" => ~(o.size > MaxUploadSize)
      PROVE  Followable(lfs_object_transfer_action_url(m, o))
  BY <1>3 DEF Followable, lfs_object_transfer_action_url
<1> QED
  BY <1>1, <1>2, <1>3

(* Every step keeps the requests right.                                    *)
LEMMA RequestStep == RequestInv /\ [LfsNext]_lfsVars => RequestInv'
<1> SUFFICES ASSUME RequestInv, [LfsNext]_lfsVars PROVE RequestInv'
  OBVIOUS
<1>a. ASSUME NEW q \in Requests
      PROVE  Right(request[q], phase[q], looked[q], answer[q])
  BY DEF RequestInv
<1>1. ASSUME NEW q \in Requests, NEW r \in Batches \cup OddRequests \cup advertised,
             Send(q, r)
      PROVE  RequestInv'
  <2> DEFINE none == <<>>
  <2>0. \E state \in {"admitted", "answered"} : \E reply :
          /\ phase' = [phase EXCEPT ![q] = state] /\ answer' = [answer EXCEPT ![q] = reply]
          /\ state = "answered" => reply.by = "limit"
    <3>1. CASE Goto(q, "admitted") /\ answer' = [answer EXCEPT ![q] = Nil]
      BY <3>1 DEF Goto
    <3>2. CASE Reply(q, 503, "limit")
      <4> DEFINE refusal == [status |-> 503, by |-> "limit", entries |-> <<>>]
      <4>1. /\ phase' = [phase EXCEPT ![q] = "answered"]
            /\ answer' = [answer EXCEPT ![q] = refusal] /\ refusal.by = "limit"
        BY <3>2 DEF Reply, ReplyEntries, Goto
      <4> HIDE DEF refusal
      <4> QED
        BY <4>1
    <3> QED
      BY <1>1, <3>1, <3>2 DEF Send
  <2>a. PICK state \in {"admitted", "answered"} : \E reply :
          /\ phase' = [phase EXCEPT ![q] = state] /\ answer' = [answer EXCEPT ![q] = reply]
          /\ state = "answered" => reply.by = "limit"
    BY <2>0
  <2>1. PICK reply :
          /\ phase' = [phase EXCEPT ![q] = state] /\ answer' = [answer EXCEPT ![q] = reply]
          /\ state = "answered" => reply.by = "limit"
    BY <2>a
  <2>2. request' = [request EXCEPT ![q] = r] /\ looked' = [looked EXCEPT ![q] = none]
    BY <1>1 DEF Send
  <2>3. DOMAIN none = {}
    OBVIOUS
  <2> HIDE DEF none
  <2>4. Listed(r)
    <3>1. r \in advertised => r.endpoint = "object"
      BY DEF RequestInv, Followable
    <3> QED
      BY <3>1, SentIsListed DEF Listed
  <2>5. Right(r, state, none, reply)
    BY <2>1, <2>3, <2>4 DEF Right
  <2>6. \A action \in advertised' : Followable(action)
    BY <1>1 DEF Send, RequestInv
  <2> QED
    BY <2>1, <2>2, <2>5, <2>6, RequestMoves
<1>2. ASSUME NEW q \in Requests, handle_lfs_request(q) PROVE RequestInv'
  <2> DEFINE r == request[q]
             checks == <<[status |-> resolve_path(r), by |-> "route"],
                         [status |-> authenticate_lfs_session(r), by |-> "session"],
                         [status |-> endpoint_status(r), by |-> "route"],
                         [status |-> transfer_status(r), by |-> "request"]>>
             failed == {i \in DOMAIN checks : checks[i].status # 200}
  <2>1. /\ phase[q] = "admitted" /\ UNCHANGED <<request, looked, advertised>>
        /\ IF failed # {}
             THEN Reply(q, checks[Min(failed)].status, checks[Min(failed)].by)
             ELSE Goto(q, IF r.endpoint = "batch" THEN "body" ELSE "authorize")
                    /\ UNCHANGED answer
    BY <1>2 DEF handle_lfs_request
  <2>2. /\ DOMAIN checks = 1..4 /\ checks[1].by = "route" /\ checks[2].by = "session"
        /\ checks[3].by = "route" /\ checks[4].by = "request"
        /\ checks[1].status = resolve_path(r) /\ checks[3].status = endpoint_status(r)
        /\ checks[4].status = transfer_status(r)
    OBVIOUS
  <2> HIDE DEF checks
  <2>3. failed \in SUBSET (1..4)
    BY <2>2
  <2>4. Followable(r) => failed \in SUBSET {2}
    BY <2>2, OnlySessionTurnsAway
  <2>5. CASE failed # {}
    <3>1. Min(failed) \in 1..4 /\ (Followable(r) => Min(failed) = 2)
      <4>1. failed \in SUBSET Nat
        BY <2>3
      <4>2. PICK n \in failed : \A m \in failed : n <= m
        BY <2>5, <4>1, LeastNatural
      <4> HIDE DEF failed
      <4>3. Min(failed) \in failed
        BY <4>2 DEF Min
      <4> QED
        BY <2>3, <2>4, <4>3
    <3> DEFINE status == checks[Min(failed)].status  by == checks[Min(failed)].by
    <3>2. by \in {"route", "session", "request"} /\ (Followable(r) => by = "session")
      BY <2>2, <3>1
    <3>3. Reply(q, status, by)
      BY <2>1, <2>5
    <3> HIDE DEF status, by
    <3> QED
      BY <2>1, <3>2, <3>3, RequestReplied
  <2>6. CASE failed = {}
    <3> DEFINE state == IF r.endpoint = "batch" THEN "body" ELSE "authorize"
    <3>1. Goto(q, state) /\ UNCHANGED answer
      BY <2>1, <2>6
    <3>2. Right(r, state, looked[q], answer[q])
      BY <1>a, <2>1 DEF Right, Fits
    <3> HIDE DEF state
    <3> QED
      BY <2>1, <3>1, <3>2, RequestGoes
  <2> QED
    BY <2>5, <2>6
<1>3. ASSUME NEW q \in Requests, handle_lfs_batch_request(q) PROVE RequestInv'
  <2>1. /\ phase[q] = "body" /\ UNCHANGED <<request, looked, advertised>>
        /\ request[q].endpoint = "batch" /\ Listed(request[q])
    BY <1>3, <1>a DEF handle_lfs_batch_request, Right
  <2>2. ~Followable(request[q])
    BY <2>1 DEF Followable
  <2>3. CASE \E status : Reply(q, status, "request")
    BY <2>1, <2>2, <2>3, RequestReplied
  <2>4. CASE ~ \E status : Reply(q, status, "request")
    <3>1. BatchStatusOf(request[q]) = 200 /\ Goto(q, "authorize") /\ UNCHANGED answer
      BY <1>3, <2>4 DEF handle_lfs_batch_request
    <3>2. Fits(request[q])
      BY <3>1 DEF BatchStatusOf, Fits
    <3>3. Right(request[q], "authorize", looked[q], answer[q])
      BY <1>a, <2>1, <3>2 DEF Right
    <3> QED
      BY <2>1, <3>1, <3>3, RequestGoes
  <2> QED
    BY <2>3, <2>4
<1>4. ASSUME NEW q \in Requests, Authorize(q) PROVE RequestInv'
  <2>1. phase[q] = "authorize" /\ UNCHANGED <<request, looked, advertised>>
    BY <1>4 DEF Authorize
  <2>2. CASE \E status : Reply(q, status, "provider")
    BY <2>1, <2>2, RequestReplied
  <2>3. CASE ~ \E status : Reply(q, status, "provider")
    <3> DEFINE state == IF request[q].endpoint = "batch" THEN "lookup" ELSE "transfer"
    <3>1. Goto(q, state) /\ UNCHANGED answer
      BY <1>4, <2>3 DEF Authorize
    <3>2. Right(request[q], state, looked[q], answer[q])
      BY <1>a, <2>1 DEF Right
    <3> HIDE DEF state
    <3> QED
      BY <2>1, <3>1, <3>2, RequestGoes
  <2> QED
    BY <2>2, <2>3
<1>5. ASSUME NEW q \in Requests, NEW o \in Objects, LookupObject(q, o) PROVE RequestInv'
  <2>1. PICK outcome : looked' = [looked EXCEPT ![q] =
          [k \in DOMAIN looked[q] \cup {o} |->
             IF k = o THEN [object |-> o, outcome |-> outcome] ELSE looked[q][k]]]
    BY <1>5 DEF LookupObject, LookupKey
  <2> DEFINE found == [k \in DOMAIN looked[q] \cup {o} |->
               IF k = o THEN [object |-> o, outcome |-> outcome] ELSE looked[q][k]]
  <2>2. \A k \in DOMAIN found : found[k].object = k
    BY <1>a DEF Right
  <2>3. looked' = [looked EXCEPT ![q] = found]
    BY <2>1
  <2> HIDE DEF found
  <2>4. Right(request[q], phase[q], found, answer[q])
    BY <1>a, <2>2 DEF Right
  <2>5. /\ request' = [request EXCEPT ![q] = request[q]]
        /\ phase' = [phase EXCEPT ![q] = phase[q]]
        /\ answer' = [answer EXCEPT ![q] = answer[q]]
    BY <1>5 DEF LookupObject, RequestInv, RequestDomains
  <2>6. \A action \in advertised' : Followable(action)
    BY <1>5 DEF LookupObject, RequestInv
  <2> QED
    BY <2>3, <2>4, <2>5, <2>6, RequestMoves
<1>6. ASSUME NEW q \in Requests, AnswerBatch(q) PROVE RequestInv'
  <2> DEFINE r == request[q]
             entries == [i \in DOMAIN r.objects |->
                           entry(r.op, looked[q][LookupKey(r.objects[i])])]
             reply == [status |-> 200, by |-> "batch", entries |-> entries]
  <2>1. /\ phase[q] = "lookup" /\ Pending(q) = {} /\ UNCHANGED <<request, looked>>
        /\ phase' = [phase EXCEPT ![q] = "answered"]
        /\ answer' = [answer EXCEPT ![q] = reply]
        /\ advertised' = advertised \cup UNION {entries[i].actions : i \in DOMAIN entries}
    BY <1>6 DEF AnswerBatch, ReplyEntries, Goto
  <2>2. Right(r, "lookup", looked[q], answer[q])
    BY <1>a, <2>1
  <2>3. r.objects \in Seq(Objects) /\ Fits(r) /\ r.endpoint = "batch"
    BY <2>2 DEF Right, Listed
  <2>4. ASSUME NEW i \in DOMAIN r.objects
        PROVE  /\ entries[i] = entry(r.op, looked[q][r.objects[i]])
               /\ looked[q][r.objects[i]].object = r.objects[i]
    <3>1. r.objects[i] \in DOMAIN looked[q]
      BY <2>1, <2>3, EveryEntryLooked DEF Pending, LookupKey
    <3>2. looked[q][r.objects[i]].object = r.objects[i]
      BY <2>2, <3>1 DEF Right
    <3>3. entries[i] = entry(r.op, looked[q][r.objects[i]])
      BY DEF LookupKey
    <3> QED
      BY <3>2, <3>3
  <2>5. DOMAIN entries = DOMAIN r.objects
    OBVIOUS
  <2>6. Len(entries) = Len(r.objects)
    BY <2>3
  <2>7. reply.by = "batch" /\ reply.entries = entries
    OBVIOUS
  <2> HIDE DEF entries, reply
  <2>8. \A i \in DOMAIN entries : entries[i].object = r.objects[i]
    BY <2>4, <2>5, EntryActions
  <2>9. Right(r, "answered", looked[q], reply)
    BY <2>2, <2>6, <2>7, <2>8 DEF Right
  <2>10. ASSUME NEW i \in DOMAIN entries, NEW action \in entries[i].actions
         PROVE  Followable(action)
    BY <2>3, <2>4, <2>5, EntryActions DEF Fits
  <2>11. \A action \in advertised' : Followable(action)
    BY <2>1, <2>10 DEF RequestInv
  <2>12. /\ request' = [request EXCEPT ![q] = r] /\ looked' = [looked EXCEPT ![q] = looked[q]]
    BY <2>1 DEF RequestInv, RequestDomains
  <2> QED
    BY <2>1, <2>9, <2>11, <2>12, RequestMoves
<1>7. ASSUME NEW q \in Requests, Upload(q) \/ Download(q) PROVE RequestInv'
  <2>1. phase[q] = "transfer" /\ UNCHANGED <<request, looked, advertised>>
    BY <1>7 DEF Upload, Download
  <2>2. PICK status : Reply(q, status, "storage")
    BY <1>7 DEF Upload, Download
  <2> QED
    BY <2>1, <2>2, RequestReplied
<1>8. ASSUME NEW q \in Requests, Abandon(q) PROVE RequestInv'
  <2> DEFINE none == <<>>
  <2>1. /\ request' = [request EXCEPT ![q] = Nil] /\ phase' = [phase EXCEPT ![q] = "idle"]
        /\ looked' = [looked EXCEPT ![q] = none]
        /\ answer' = [answer EXCEPT ![q] = answer[q]] /\ advertised' = advertised
    BY <1>8 DEF Abandon, Goto, RequestInv, RequestDomains
  <2>2. DOMAIN none = {}
    OBVIOUS
  <2> HIDE DEF none
  <2>3. Right(Nil, "idle", none, answer[q])
    BY <2>2 DEF Right
  <2>4. \A action \in advertised' : Followable(action)
    BY <2>1 DEF RequestInv
  <2> QED
    BY <2>1, <2>3, <2>4, RequestMoves
<1>9. CASE UNCHANGED <<request, phase, looked, answer, advertised>>
  BY <1>9 DEF RequestInv, RequestDomains
<1>10. CASE EndSession \/ \E o \in Objects : Lose(o)
  BY <1>9, <1>10 DEF EndSession, Lose
<1>11. CASE UNCHANGED lfsVars
  BY <1>9, <1>11 DEF lfsVars
<1> QED
  BY <1>1, <1>2, <1>3, <1>4, <1>5, <1>6, <1>7, <1>8, <1>10, <1>11 DEF LfsNext

LfsSpec == LfsInit /\ [][LfsNext]_lfsVars

(* THEOREM: every entry of a batch is answered in its place for its very   *)
(* object, and no address that an answer gave is turned away for what it   *)
(* is: only a session, a permission, the load or storage can refuse it,    *)
(* however many requests there are and whatever lists of objects they ask  *)
(* about.                                                                  *)
THEOREM AnswersStand == LfsSpec => []AnswersKept
<1>1. LfsInit => RequestInv
  <2> SUFFICES ASSUME LfsInit PROVE RequestInv
    OBVIOUS
  <2>1. RequestDomains /\ advertised = {}
    BY DEF LfsInit, RequestDomains
  <2>2. ASSUME NEW q \in Requests
        PROVE  Right(request[q], phase[q], looked[q], answer[q])
    BY DEF LfsInit, Right
  <2> QED
    BY <2>1, <2>2 DEF RequestInv
<1>2. RequestInv => AnswersKept
  <2> SUFFICES ASSUME RequestInv PROVE AnsweredAsAsked /\ ActionsFollowable
    BY DEF AnswersKept
  <2>1. AnsweredAsAsked
    BY DEF RequestInv, Right, AnsweredAsAsked
  <2>2. ActionsFollowable
    BY DEF RequestInv, Right, ActionsFollowable
  <2> QED
    BY <2>1, <2>2
<1> QED
  BY <1>1, <1>2, RequestStep, PTL DEF LfsSpec


----------------------------------------------------------------------------
(* Staging, for every finite set of uploads and every declared size:       *)
(* however uploads interleave and whenever the process dies, the books     *)
(* balance and what is promised fits.                                      *)

(* Induction over the subsets of a finite set, for a set G of good ones.   *)
LEMMA SubsetInduction ==
  ASSUME NEW S, IsFiniteSet(S), NEW G,
         \A T \in SUBSET S : (\A U \in SUBSET T : U # T => U \in G) => T \in G
  PROVE  \A T \in SUBSET S : T \in G
<1> DEFINE Bad == {T \in SUBSET S : T \notin G}
<1>1. SUFFICES ASSUME Bad # {} PROVE FALSE
  OBVIOUS
<1>2. IsWellFoundedOn(StrictSubsetOrdering(S), SUBSET S)
  BY FS_StrictSubsetOrderingWellFounded, FS_FiniteSubsetsOfFinite
<1>3. PICK T \in Bad : \A U \in Bad : <<U, T>> \notin StrictSubsetOrdering(S)
  <2>1. Bad \subseteq SUBSET S
    OBVIOUS
  <2> HIDE DEF Bad
  <2>2. \E T \in Bad : \A U \in Bad : ~ (<<U, T>> \in StrictSubsetOrdering(S))
    BY <1>1, <1>2, <2>1, WFMin
  <2> QED
    BY <2>2
<1>4. \A U \in SUBSET T : U # T => U \in G
  <2> SUFFICES ASSUME NEW U \in SUBSET T, U # T, U \notin G PROVE FALSE
    OBVIOUS
  <2>1. U \in Bad /\ <<U, T>> \in (SUBSET S) \X (SUBSET S)
    OBVIOUS
  <2>2. <<U, T>> \in StrictSubsetOrdering(S)
    BY <2>1 DEF StrictSubsetOrdering
  <2> QED
    BY <1>3, <2>1, <2>2
<1> QED
  BY <1>3, <1>4

(* Sums.  The fold of the community modules is a recursive function over   *)
(* the subsets of a set; what follows shows that it is defined on finite   *)
(* sets and adds up in any order.                                          *)

(* The element a fold takes first.                                         *)
Pick(S) == CHOOSE x \in S : TRUE

(* g adds up f over each subset of S.                                      *)
Adds(g, f, S) ==
  g = [s \in SUBSET S |-> IF s = {} THEN 0 ELSE f[Pick(s)] + g[s \ {Pick(s)}]]

(* The function the recursion of a fold defines.                           *)
Adder(f, S) == CHOOSE g : Adds(g, f, S)

LEMMA BytesByAdder == ASSUME NEW f, NEW S PROVE Bytes(f, S) = Adder(f, S)[S]
  BY DEF Bytes, MapThenSumSet, MapThenFoldSet, Adder, Adds, Pick

LEMMA Picked == ASSUME NEW S, S # {} PROVE Pick(S) \in S
  BY DEF Pick

(* Two functions that add up agree where both are defined ...              *)
LEMMA AddersAgree ==
  ASSUME NEW f, NEW S, IsFiniteSet(S), NEW T \in SUBSET S,
         NEW g, NEW h, Adds(g, f, S), Adds(h, f, T)
  PROVE  \A s \in SUBSET T : g[s] = h[s]
<1> DEFINE G == {s \in SUBSET T : g[s] = h[s]}
<1>1. IsFiniteSet(T)
  BY FS_Subset
<1>2. ASSUME NEW s \in SUBSET T, \A u \in SUBSET s : u # s => u \in G
      PROVE  s \in G
  <2>1. CASE s = {}
    BY <2>1 DEF Adds
  <2>2. CASE s # {}
    <3> DEFINE r == s \ {Pick(s)}
    <3>1. g[r] = h[r]
      BY <1>2, <2>2, Picked
    <3>2. g[s] = f[Pick(s)] + g[r] /\ h[s] = f[Pick(s)] + h[r]
      BY <2>2 DEF Adds
    <3> QED
      BY <3>1, <3>2
  <2> QED
    BY <2>1, <2>2
<1> HIDE DEF G
<1>3. \A s \in SUBSET T : s \in G
  BY <1>1, <1>2, SubsetInduction
<1> QED
  BY <1>3 DEF G

(* ... and there is one: the recursion of the fold is well founded.        *)
LEMMA AdderExists ==
  ASSUME NEW f, NEW S, IsFiniteSet(S)
  PROVE  Adds(Adder(f, S), f, S)
<1> DEFINE G == {T \in SUBSET S : \E g : Adds(g, f, T)}
<1>1. ASSUME NEW T \in SUBSET S, \A U \in SUBSET T : U # T => U \in G
      PROVE  T \in G
  <2> DEFINE H(U) == Adder(f, U)
             h == [s \in SUBSET T |-> IF s = {} THEN 0
                     ELSE f[Pick(s)] + H(s \ {Pick(s)})[s \ {Pick(s)}]]
  <2>1. \A U \in SUBSET T : U # T => Adds(H(U), f, U)
    BY <1>1 DEF Adder
  <2>2. ASSUME NEW s \in SUBSET T, s # T PROVE h[s] = H(s)[s]
    <3>1. CASE s = {}
      BY <2>1, <2>2, <3>1 DEF Adds
    <3>2. CASE s # {}
      <4> DEFINE r == s \ {Pick(s)}
      <4>1. r \in SUBSET T /\ r # T /\ r \in SUBSET s
        BY <2>2
      <4>2. H(s)[s] = f[Pick(s)] + H(s)[r]
        BY <2>1, <2>2, <3>2 DEF Adds
      <4>3. H(s)[r] = H(r)[r]
        <5>1. Adds(H(s), f, s) /\ Adds(H(r), f, r)
          BY <2>1, <2>2, <4>1
        <5>2. IsFiniteSet(s)
          BY FS_Subset
        <5>3. \A t \in SUBSET r : H(s)[t] = H(r)[t]
          <6> HIDE DEF H, r
          <6> QED
            BY <4>1, <5>1, <5>2, AddersAgree
        <5> HIDE DEF H
        <5> QED
          BY <5>3
      <4> QED
        BY <3>2, <4>2, <4>3
    <3> QED
      BY <3>1, <3>2
  <2>3. \A s \in SUBSET T : s # {} => h[s \ {Pick(s)}] = H(s \ {Pick(s)})[s \ {Pick(s)}]
    <3> HIDE DEF h, H
    <3> SUFFICES ASSUME NEW s \in SUBSET T, s # {}
                 PROVE  h[s \ {Pick(s)}] = H(s \ {Pick(s)})[s \ {Pick(s)}]
      OBVIOUS
    <3>1. Pick(s) \in s
      BY Picked
    <3>2. s \ {Pick(s)} \in SUBSET T /\ s \ {Pick(s)} # T
      BY <3>1
    <3> QED
      BY <2>2, <3>2
  <2>4. Adds(h, f, T)
    <3>1. h = [s \in SUBSET T |-> IF s = {} THEN 0 ELSE f[Pick(s)] + h[s \ {Pick(s)}]]
      BY <2>3
    <3> QED
      BY <3>1 DEF Adds
  <2> QED
    BY <2>4
<1> HIDE DEF G
<1>2. S \in G
  BY <1>1, SubsetInduction
<1> QED
  BY <1>2 DEF G, Adder

(* The sum over a set is that over the rest and one element.               *)
LEMMA SumStep ==
  ASSUME NEW f, NEW S, IsFiniteSet(S), S # {}
  PROVE  Bytes(f, S) = f[Pick(S)] + Bytes(f, S \ {Pick(S)})
<1>1. PICK R : R = S \ {Pick(S)}
  OBVIOUS
<1>2. R \in SUBSET S /\ IsFiniteSet(R) /\ IsFiniteSet(S)
  BY <1>1, FS_Subset
<1>3. Adds(Adder(f, S), f, S) /\ Adds(Adder(f, R), f, R)
  BY <1>2, AdderExists
<1>4. Adder(f, S)[S] = f[Pick(S)] + Adder(f, S)[R]
  BY <1>1, <1>3 DEF Adds
<1>5. ASSUME NEW g, NEW h, Adds(g, f, S), Adds(h, f, R) PROVE \A t \in SUBSET R : g[t] = h[t]
  BY <1>2, <1>5, AddersAgree
<1>6. \A t \in SUBSET R : Adder(f, S)[t] = Adder(f, R)[t]
  BY <1>3, <1>5
<1> QED
  BY <1>1, <1>4, <1>6, BytesByAdder

LEMMA BytesEmpty == ASSUME NEW f PROVE Bytes(f, {}) = 0
<1>1. Adds(Adder(f, {}), f, {})
  BY AdderExists, FS_EmptySet
<1> QED
  BY <1>1, BytesByAdder DEF Adds

(* A sum of naturals is a natural.                                         *)
LEMMA BytesType ==
  ASSUME NEW S, IsFiniteSet(S), NEW f, \A x \in S : f[x] \in Nat
  PROVE  Bytes(f, S) \in Nat
<1> DEFINE G == {T \in SUBSET S : Bytes(f, T) \in Nat}
<1>1. ASSUME NEW T \in SUBSET S, \A U \in SUBSET T : U # T => U \in G
      PROVE  T \in G
  <2>1. CASE T = {}
    BY <2>1, BytesEmpty
  <2>2. CASE T # {}
    <3>1. IsFiniteSet(T) /\ Pick(T) \in T
      BY <2>2, Picked, FS_Subset
    <3>2. T \ {Pick(T)} \in G
      BY <1>1, <3>1
    <3> QED
      BY <2>2, <3>1, <3>2, SumStep
  <2> QED
    BY <2>1, <2>2
<1> HIDE DEF G
<1>2. S \in G
  BY <1>1, SubsetInduction
<1> QED
  BY <1>2 DEF G

(* ... whichever element that is.                                          *)
LEMMA BytesWithout ==
  ASSUME NEW S, IsFiniteSet(S), NEW f, \A x \in S : f[x] \in Nat, NEW e \in S
  PROVE  Bytes(f, S) = f[e] + Bytes(f, S \ {e})
<1> DEFINE G == {T \in SUBSET S :
                   \A x \in T : Bytes(f, T) = f[x] + Bytes(f, T \ {x})}
<1>1. ASSUME NEW T \in SUBSET S, \A U \in SUBSET T : U # T => U \in G
      PROVE  T \in G
  <2> SUFFICES ASSUME NEW x \in T
               PROVE  Bytes(f, T) = f[x] + Bytes(f, T \ {x})
    OBVIOUS
  <2> DEFINE p == Pick(T)
  <2>1. IsFiniteSet(T) /\ p \in T /\ Bytes(f, T) = f[p] + Bytes(f, T \ {p})
    BY Picked, FS_Subset, SumStep
  <2> HIDE DEF p
  <2>2. CASE p = x
    BY <2>1, <2>2
  <2>3. CASE p # x
    <3>1. T \ {p} \in G /\ T \ {x} \in G
      BY <1>1, <2>1
    <3>2. Bytes(f, T \ {p}) = f[x] + Bytes(f, (T \ {p}) \ {x})
      BY <2>3, <3>1
    <3>3. Bytes(f, T \ {x}) = f[p] + Bytes(f, (T \ {x}) \ {p})
      BY <2>1, <2>3, <3>1
    <3>4. (T \ {p}) \ {x} = (T \ {x}) \ {p}
      OBVIOUS
    <3>5. Bytes(f, (T \ {x}) \ {p}) \in Nat
      BY <2>1, FS_Subset, BytesType
    <3>6. f[x] \in Nat /\ f[p] \in Nat
      BY <2>1
    <3> HIDE DEF G
    <3> QED
      BY <2>1, <3>2, <3>3, <3>4, <3>5, <3>6
  <2> QED
    BY <2>2, <2>3
<1> HIDE DEF G
<1>2. S \in G
  BY <1>1, SubsetInduction
<1> QED
  BY <1>2 DEF G

(* The sum over a set looks at the elements of the set only.               *)
LEMMA BytesSame ==
  ASSUME NEW S, IsFiniteSet(S), NEW f, NEW g, \A x \in S : f[x] = g[x]
  PROVE  Bytes(f, S) = Bytes(g, S)
<1> DEFINE G == {T \in SUBSET S : Bytes(f, T) = Bytes(g, T)}
<1>1. ASSUME NEW T \in SUBSET S, \A U \in SUBSET T : U # T => U \in G
      PROVE  T \in G
  <2>1. CASE T = {}
    BY <2>1, BytesEmpty
  <2>2. CASE T # {}
    <3>1. IsFiniteSet(T) /\ Pick(T) \in T
      BY <2>2, Picked, FS_Subset
    <3>2. T \ {Pick(T)} \in G
      BY <1>1, <3>1
    <3> QED
      BY <2>2, <3>1, <3>2, SumStep
  <2> QED
    BY <2>1, <2>2
<1> HIDE DEF G
<1>2. S \in G
  BY <1>1, SubsetInduction
<1> QED
  BY <1>2 DEF G

LEMMA BytesZero ==
  ASSUME NEW S, IsFiniteSet(S), NEW f, \A x \in S : f[x] = 0
  PROVE  Bytes(f, S) = 0
<1> DEFINE G == {T \in SUBSET S : Bytes(f, T) = 0}
<1>1. ASSUME NEW T \in SUBSET S, \A U \in SUBSET T : U # T => U \in G
      PROVE  T \in G
  <2>1. CASE T = {}
    BY <2>1, BytesEmpty
  <2>2. CASE T # {}
    <3>1. IsFiniteSet(T) /\ Pick(T) \in T
      BY <2>2, Picked, FS_Subset
    <3>2. T \ {Pick(T)} \in G
      BY <1>1, <3>1
    <3> QED
      BY <2>2, <3>1, <3>2, SumStep
  <2> QED
    BY <2>1, <2>2
<1> HIDE DEF G
<1>2. S \in G
  BY <1>1, SubsetInduction
<1> QED
  BY <1>2 DEF G

----------------------------------------------------------------------------
(* The inductive invariant.                                                *)

Shape ==
  /\ pc \in [Uploads -> Phases]
  /\ held \in [Uploads -> SUBSET Guards]
  /\ size \in [Uploads -> 0..MaxUpload]
  /\ measured \in [Uploads -> (0..Capacity) \cup {Unknown}]
  /\ slots \in Nat /\ userSlots \in [Users -> Nat]
  /\ snapshot \in (0..Capacity) \cup {Unknown}
  /\ litter \in Nat /\ crashes \in 0..MaxCrashes

(* Which guards an upload owns in which phase; a file without an owner is  *)
(* empty.                                                                  *)
GuardsOf(at) ==
  CASE at \in {"idle", "ended"} -> {}
    [] at = "global" -> {"global"}
    [] at = "admitted" -> {"global", "user"}
    [] at \in {"created", "measured"} -> {"global", "user", "file"}
    [] OTHER -> Guards

GuardInv ==
  \A u \in Uploads :
    /\ pc[u] # "leaving" => held[u] = GuardsOf(pc[u])
    /\ "file" \notin held[u] => size[u] = 0
    /\ pc[u] = "measured" => measured[u] # Unknown

(* What is on the volume fits on it.                                       *)
DiskInv == litter + Bytes(size, Uploads) <= Capacity

(* A measurement, the frozen one too, was never more than the volume has   *)
(* without the files dead processes left; the books were checked against   *)
(* the frozen one, and without a frozen one nothing is reserved.           *)
SpaceInv ==
  /\ \A u \in Uploads : measured[u] # Unknown => measured[u] <= Capacity - litter
  /\ snapshot # Unknown => snapshot <= Capacity - litter
  /\ snapshot # Unknown => reserved + MinFree <= snapshot
  /\ snapshot = Unknown => reserved = 0

IInv == Shape /\ GuardInv /\ DiskInv /\ SpaceInv /\ VolumeShared

(* What the uploads wrote and what they were promised are natural numbers. *)
LEMMA BytesNat ==
  ASSUME Shape
  PROVE  /\ Bytes(size, Uploads) \in Nat
         /\ \A S \in SUBSET Uploads : IsFiniteSet(S) /\ Bytes(Declared, S) \in Nat
<1>1. \A u \in Uploads : size[u] \in Nat /\ Declared[u] \in Nat
  BY StagingAssumption DEF Shape
<1>2. Bytes(size, Uploads) \in Nat
  BY <1>1, StagingAssumption, BytesType
<1>3. ASSUME NEW S \in SUBSET Uploads
      PROVE  IsFiniteSet(S) /\ Bytes(Declared, S) \in Nat
  <2>1. IsFiniteSet(S)
    BY StagingAssumption, FS_Subset
  <2>2. \A x \in S : Declared[x] \in Nat
    BY <1>1
  <2> QED
    BY <2>1, <2>2, BytesType
<1> QED
  BY <1>2, <1>3

LEMMA FreeType ==
  ASSUME Shape, DiskInv
  PROVE  Free \in 0..Capacity /\ Free <= Capacity - litter
  BY BytesNat, StagingAssumption DEF Shape, DiskInv, Free

LEMMA ShapeStep == IInv /\ [StagingNext]_stagingVars => Shape'
<1> SUFFICES ASSUME IInv, [StagingNext]_stagingVars PROVE Shape'
  OBVIOUS
<1> USE StagingAssumption
    DEF IInv, Shape, Phases, Guards, Enter, Own, Disown, permits, reservations, disk
<1>1. ASSUME NEW u \in Uploads, TakeGlobal(u) PROVE Shape'
  BY <1>1 DEF TakeGlobal
<1>2. ASSUME NEW u \in Uploads, TakeUser(u) PROVE Shape'
  BY <1>2 DEF TakeUser
<1>3. ASSUME NEW u \in Uploads, Refuse(u) PROVE Shape'
  BY <1>3 DEF Refuse
<1>4. ASSUME NEW u \in Uploads, CreateFile(u) PROVE Shape'
  BY <1>4 DEF CreateFile
<1>5. ASSUME NEW u \in Uploads, Measure(u) PROVE Shape'
  BY <1>5, FreeType DEF Measure
<1>6. ASSUME NEW u \in Uploads, Reserve(u) PROVE Shape'
  BY <1>6 DEF Reserve, Frozen
<1>7. ASSUME NEW u \in Uploads, NoSpace(u) PROVE Shape'
  BY <1>7 DEF NoSpace, Frozen
<1>8. ASSUME NEW u \in Uploads, Write(u) PROVE Shape'
  BY <1>8 DEF Write
<1>9. ASSUME NEW u \in Uploads, Staged(u) PROVE Shape'
  BY <1>9 DEF Staged
<1>10. ASSUME NEW u \in Uploads, Depart(u) PROVE Shape'
  BY <1>10 DEF Depart
<1>11. ASSUME NEW u \in Uploads, DropGlobal(u) PROVE Shape'
  BY <1>11 DEF DropGlobal
<1>12. ASSUME NEW u \in Uploads, DropUser(u) PROVE Shape'
  BY <1>12 DEF DropUser
<1>13. ASSUME NEW u \in Uploads, DropBytes(u) PROVE Shape'
  BY <1>13 DEF DropBytes
<1>14. ASSUME NEW u \in Uploads, DropFile(u) PROVE Shape'
  BY <1>14 DEF DropFile
<1>15. ASSUME NEW u \in Uploads, Ended(u) PROVE Shape'
  BY <1>15 DEF Ended
<1>16. CASE Crash
  BY <1>16, BytesNat DEF Crash
<1>17. CASE UNCHANGED stagingVars
  BY <1>17 DEF stagingVars
<1> QED
  BY <1>1, <1>2, <1>3, <1>4, <1>5, <1>6, <1>7, <1>8, <1>9, <1>10, <1>11, <1>12,
     <1>13, <1>14, <1>15, <1>16, <1>17 DEF StagingNext

LEMMA GuardStep == IInv /\ [StagingNext]_stagingVars => GuardInv'
<1> SUFFICES ASSUME IInv, [StagingNext]_stagingVars PROVE GuardInv'
  OBVIOUS
<1> USE StagingAssumption
    DEF IInv, Shape, GuardInv, GuardsOf, Phases, Guards, Enter, Own, Disown, permits,
        reservations, disk
<1>1. ASSUME NEW u \in Uploads, TakeGlobal(u) PROVE GuardInv'
  BY <1>1 DEF TakeGlobal
<1>2. ASSUME NEW u \in Uploads, TakeUser(u) PROVE GuardInv'
  BY <1>2 DEF TakeUser
<1>3. ASSUME NEW u \in Uploads, Refuse(u) PROVE GuardInv'
  BY <1>3 DEF Refuse
<1>4. ASSUME NEW u \in Uploads, CreateFile(u) PROVE GuardInv'
  BY <1>4 DEF CreateFile
<1>5. ASSUME NEW u \in Uploads, Measure(u) PROVE GuardInv'
  BY <1>5, FreeType DEF Measure
<1>6. ASSUME NEW u \in Uploads, Reserve(u) PROVE GuardInv'
  BY <1>6 DEF Reserve
<1>7. ASSUME NEW u \in Uploads, NoSpace(u) PROVE GuardInv'
  BY <1>7 DEF NoSpace
<1>8. ASSUME NEW u \in Uploads, Write(u) PROVE GuardInv'
  BY <1>8 DEF Write
<1>9. ASSUME NEW u \in Uploads, Staged(u) PROVE GuardInv'
  BY <1>9 DEF Staged
<1>10. ASSUME NEW u \in Uploads, Depart(u) PROVE GuardInv'
  BY <1>10 DEF Depart
<1>11. ASSUME NEW u \in Uploads, DropGlobal(u) PROVE GuardInv'
  BY <1>11 DEF DropGlobal
<1>12. ASSUME NEW u \in Uploads, DropUser(u) PROVE GuardInv'
  BY <1>12 DEF DropUser
<1>13. ASSUME NEW u \in Uploads, DropBytes(u) PROVE GuardInv'
  BY <1>13 DEF DropBytes
<1>14. ASSUME NEW u \in Uploads, DropFile(u) PROVE GuardInv'
  BY <1>14 DEF DropFile
<1>15. ASSUME NEW u \in Uploads, Ended(u) PROVE GuardInv'
  BY <1>15 DEF Ended
<1>16. CASE Crash
  BY <1>16 DEF Crash
<1>17. CASE UNCHANGED stagingVars
  BY <1>17 DEF stagingVars
<1> QED
  BY <1>1, <1>2, <1>3, <1>4, <1>5, <1>6, <1>7, <1>8, <1>9, <1>10, <1>11, <1>12,
     <1>13, <1>14, <1>15, <1>16, <1>17 DEF StagingNext

(* How the owners of a guard change.                                       *)
LEMMA Owned ==
  ASSUME Shape, NEW u \in Uploads, NEW g \in Guards, Own(u, g)
  PROVE  /\ Holders(g)' = Holders(g) \cup {u}
         /\ \A h \in Guards \ {g} : Holders(h)' = Holders(h)
  BY DEF Shape, Own, Holders

LEMMA Disowned ==
  ASSUME Shape, NEW u \in Uploads, NEW g \in Guards, Disown(u, g)
  PROVE  /\ Holders(g)' = Holders(g) \ {u}
         /\ \A h \in Guards \ {g} : Holders(h)' = Holders(h)
  BY DEF Shape, Disown, Holders

(* The two halves of BooksBalance.                                         *)
SlotBooks ==
  /\ slots = GlobalLimit - Cardinality(Holders("global"))
  /\ \A x \in Users :
       userSlots[x] = PerUserLimit
                        - Cardinality({u \in Holders("user") : UserOf[u] = x})

ByteBooks ==
  /\ reserved = Bytes(Declared, Holders("bytes"))
  /\ Holders("bytes") = {} => snapshot = Unknown

LEMMA SlotStep == IInv /\ [StagingNext]_stagingVars => SlotBooks'
<1> SUFFICES ASSUME IInv, [StagingNext]_stagingVars PROVE SlotBooks'
  OBVIOUS
<1> USE StagingAssumption DEF IInv, VolumeShared, BooksBalance, SlotBooks
<1>a. \A S \in SUBSET Uploads : IsFiniteSet(S) /\ Cardinality(S) \in Nat
  BY FS_Subset, FS_CardinalityType
<1>b. \A g : Holders(g) \in SUBSET Uploads
  BY DEF Holders
<1>c. ASSUME Holders("global")' = Holders("global"),
             Holders("user")' = Holders("user"), UNCHANGED permits
      PROVE  SlotBooks'
  BY <1>c DEF permits
<1>d. ASSUME UNCHANGED <<held, permits>> PROVE SlotBooks'
  BY <1>c, <1>d DEF Holders
<1>e. ASSUME NEW u \in Uploads, NEW g \in {"bytes", "file"},
             Own(u, g) \/ Disown(u, g), UNCHANGED permits
      PROVE  SlotBooks'
  <2>1. g \in Guards /\ "global" \in Guards \ {g} /\ "user" \in Guards \ {g}
    BY <1>e DEF Guards
  <2> QED
    BY <1>c, <1>e, <2>1, Owned, Disowned
<1>1. ASSUME NEW u \in Uploads, TakeGlobal(u) PROVE SlotBooks'
  <2>1. /\ Holders("global")' = Holders("global") \cup {u}
        /\ Holders("user")' = Holders("user")
    BY <1>1, Owned DEF TakeGlobal, Guards, IInv
  <2>2. u \notin Holders("global")
    BY <1>1 DEF TakeGlobal, GuardInv, GuardsOf, Holders
  <2>3. Cardinality(Holders("global")') = Cardinality(Holders("global")) + 1
    BY <1>a, <1>b, <2>1, <2>2, FS_AddElement
  <2>4. slots' = GlobalLimit - Cardinality(Holders("global")')
    BY <1>1, <1>a, <1>b, <2>3 DEF TakeGlobal
  <2> QED
    BY <1>1, <2>1, <2>4 DEF TakeGlobal
<1>2. ASSUME NEW u \in Uploads, TakeUser(u) PROVE SlotBooks'
  <2> DEFINE Of(x) == {v \in Holders("user") : UserOf[v] = x}
  <2>1. /\ Holders("user")' = Holders("user") \cup {u}
        /\ Holders("global")' = Holders("global")
    BY <1>2, Owned DEF TakeUser, Guards, IInv
  <2>2. u \notin Holders("user") /\ UserOf[u] \in Users
    BY <1>2 DEF TakeUser, GuardInv, GuardsOf, Holders
  <2>3. ASSUME NEW x \in Users
        PROVE  userSlots'[x] = PerUserLimit - Cardinality(Of(x)')
    <3>1. CASE x = UserOf[u]
      <4>1. Of(x)' = Of(x) \cup {u} /\ u \notin Of(x) /\ Of(x) \in SUBSET Uploads
        BY <1>b, <2>1, <2>2, <3>1
      <4>2. userSlots'[x] = userSlots[x] - 1 /\ userSlots[x] = PerUserLimit - Cardinality(Of(x))
        BY <1>2, <3>1 DEF TakeUser, Shape
      <4> HIDE DEF Of
      <4>3. Cardinality(Of(x)') = Cardinality(Of(x)) + 1
        BY <1>a, <4>1, FS_AddElement
      <4> QED
        BY <1>a, <4>1, <4>2, <4>3
    <3>2. CASE x # UserOf[u]
      <4>1. Of(x)' = Of(x)
        BY <2>1, <3>2
      <4>2. userSlots'[x] = userSlots[x] /\ userSlots[x] = PerUserLimit - Cardinality(Of(x))
        BY <1>2, <3>2 DEF TakeUser, Shape
      <4> QED
        BY <4>1, <4>2
    <3> QED
      BY <3>1, <3>2
  <2> QED
    BY <1>2, <2>1, <2>3 DEF TakeUser
<1>3. ASSUME NEW u \in Uploads, Refuse(u) PROVE SlotBooks'
  BY <1>3, <1>d DEF Refuse
<1>4. ASSUME NEW u \in Uploads, CreateFile(u) PROVE SlotBooks'
  BY <1>4, <1>e DEF CreateFile
<1>5. ASSUME NEW u \in Uploads, Measure(u) PROVE SlotBooks'
  BY <1>5, <1>d DEF Measure
<1>6. ASSUME NEW u \in Uploads, Reserve(u) PROVE SlotBooks'
  BY <1>6, <1>e DEF Reserve
<1>7. ASSUME NEW u \in Uploads, NoSpace(u) PROVE SlotBooks'
  BY <1>7, <1>d DEF NoSpace
<1>8. ASSUME NEW u \in Uploads, Write(u) PROVE SlotBooks'
  BY <1>8, <1>d DEF Write
<1>9. ASSUME NEW u \in Uploads, Staged(u) PROVE SlotBooks'
  BY <1>9, <1>d DEF Staged
<1>10. ASSUME NEW u \in Uploads, Depart(u) PROVE SlotBooks'
  BY <1>10, <1>d DEF Depart
<1>11. ASSUME NEW u \in Uploads, DropGlobal(u) PROVE SlotBooks'
  <2>1. /\ Holders("global")' = Holders("global") \ {u}
        /\ Holders("user")' = Holders("user")
    BY <1>11, Disowned DEF DropGlobal, Guards, IInv
  <2>2. u \in Holders("global")
    BY <1>11 DEF DropGlobal, GuardInv, GuardsOf, Holders
  <2>3. Cardinality(Holders("global")') = Cardinality(Holders("global")) - 1
    BY <1>a, <1>b, <2>1, <2>2, FS_RemoveElement
  <2>4. slots' = GlobalLimit - Cardinality(Holders("global")')
    BY <1>11, <1>a, <1>b, <2>3 DEF DropGlobal
  <2> QED
    BY <1>11, <2>1, <2>4 DEF DropGlobal
<1>12. ASSUME NEW u \in Uploads, DropUser(u) PROVE SlotBooks'
  <2> DEFINE Of(x) == {v \in Holders("user") : UserOf[v] = x}
  <2>1. /\ Holders("user")' = Holders("user") \ {u}
        /\ Holders("global")' = Holders("global")
    BY <1>12, Disowned DEF DropUser, Guards, IInv
  <2>2. u \in Holders("user") /\ UserOf[u] \in Users
    BY <1>12 DEF DropUser, GuardInv, GuardsOf, Holders
  <2>3. ASSUME NEW x \in Users
        PROVE  userSlots'[x] = PerUserLimit - Cardinality(Of(x)')
    <3>1. CASE x = UserOf[u]
      <4>1. Of(x)' = Of(x) \ {u} /\ u \in Of(x) /\ Of(x) \in SUBSET Uploads
        BY <1>b, <2>1, <2>2, <3>1
      <4>2. userSlots'[x] = userSlots[x] + 1 /\ userSlots[x] = PerUserLimit - Cardinality(Of(x))
        BY <1>12, <3>1 DEF DropUser, Shape
      <4> HIDE DEF Of
      <4>3. Cardinality(Of(x)') = Cardinality(Of(x)) - 1
        BY <1>a, <4>1, FS_RemoveElement
      <4> QED
        BY <1>a, <4>1, <4>2, <4>3
    <3>2. CASE x # UserOf[u]
      <4>1. Of(x)' = Of(x)
        BY <2>1, <3>2
      <4>2. userSlots'[x] = userSlots[x] /\ userSlots[x] = PerUserLimit - Cardinality(Of(x))
        BY <1>12, <3>2 DEF DropUser, Shape
      <4> QED
        BY <4>1, <4>2
    <3> QED
      BY <3>1, <3>2
  <2> QED
    BY <1>12, <2>1, <2>3 DEF DropUser
<1>13. ASSUME NEW u \in Uploads, DropBytes(u) PROVE SlotBooks'
  BY <1>13, <1>e DEF DropBytes
<1>14. ASSUME NEW u \in Uploads, DropFile(u) PROVE SlotBooks'
  BY <1>14, <1>e DEF DropFile
<1>15. ASSUME NEW u \in Uploads, Ended(u) PROVE SlotBooks'
  BY <1>15, <1>d DEF Ended
<1>16. CASE Crash
  <2>1. \A g : Holders(g)' = {}
    BY <1>16 DEF Crash, Holders
  <2>2. \A x \in Users : {v \in Holders("user")' : UserOf[v] = x} = {}
    BY <2>1
  <2>3. Cardinality({}) = 0
    BY FS_EmptySet
  <2>4. slots' = GlobalLimit - Cardinality(Holders("global")')
    <3>1. slots' = GlobalLimit
      BY <1>16 DEF Crash
    <3>2. Cardinality(Holders("global")') = 0
      BY <2>1, <2>3
    <3> QED
      BY <3>1, <3>2
  <2>5. ASSUME NEW x \in Users
        PROVE  userSlots'[x] = PerUserLimit
                 - Cardinality({v \in Holders("user")' : UserOf[v] = x})
    <3>1. userSlots'[x] = PerUserLimit
      BY <1>16 DEF Crash
    <3>2. Cardinality({v \in Holders("user")' : UserOf[v] = x}) = 0
      BY <2>2, <2>3
    <3> QED
      BY <3>1, <3>2
  <2> QED
    BY <2>4, <2>5
<1>17. CASE UNCHANGED stagingVars
  BY <1>17, <1>d DEF stagingVars, permits
<1> QED
  BY <1>1, <1>2, <1>3, <1>4, <1>5, <1>6, <1>7, <1>8, <1>9, <1>10, <1>11, <1>12,
     <1>13, <1>14, <1>15, <1>16, <1>17 DEF StagingNext

(* One upload more or less among those that were promised space.           *)
LEMMA DeclaredWithout ==
  ASSUME Shape, NEW S \in SUBSET Uploads, NEW T \in SUBSET Uploads, NEW u \in T,
         S = T \ {u}
  PROVE  Bytes(Declared, T) = Declared[u] + Bytes(Declared, S)
<1>1. IsFiniteSet(T) /\ \A x \in T : Declared[x] \in Nat
  BY BytesNat, StagingAssumption
<1> QED
  BY <1>1, BytesWithout

LEMMA ByteStep == IInv /\ [StagingNext]_stagingVars => ByteBooks'
<1> SUFFICES ASSUME IInv, [StagingNext]_stagingVars PROVE ByteBooks'
  OBVIOUS
<1> USE DEF IInv, VolumeShared, BooksBalance, ByteBooks
<1>b. Holders("bytes") \in SUBSET Uploads
  BY DEF Holders
<1>c. ASSUME Holders("bytes")' = Holders("bytes"), UNCHANGED reservations
      PROVE  ByteBooks'
  BY <1>c DEF reservations
<1>d. ASSUME UNCHANGED <<held, reservations>> PROVE ByteBooks'
  BY <1>c, <1>d DEF Holders
<1>e. ASSUME NEW u \in Uploads, NEW g \in {"global", "user", "file"},
             Own(u, g) \/ Disown(u, g), UNCHANGED reservations
      PROVE  ByteBooks'
  <2>1. g \in Guards /\ "bytes" \in Guards \ {g}
    BY <1>e DEF Guards
  <2> QED
    BY <1>c, <1>e, <2>1, Owned, Disowned
<1>1. ASSUME NEW u \in Uploads, TakeGlobal(u) PROVE ByteBooks'
  BY <1>1, <1>e DEF TakeGlobal
<1>2. ASSUME NEW u \in Uploads, TakeUser(u) PROVE ByteBooks'
  BY <1>2, <1>e DEF TakeUser
<1>3. ASSUME NEW u \in Uploads, Refuse(u) PROVE ByteBooks'
  BY <1>3, <1>d DEF Refuse
<1>4. ASSUME NEW u \in Uploads, CreateFile(u) PROVE ByteBooks'
  BY <1>4, <1>e DEF CreateFile
<1>5. ASSUME NEW u \in Uploads, Measure(u) PROVE ByteBooks'
  BY <1>5, <1>d DEF Measure
<1>6. ASSUME NEW u \in Uploads, Reserve(u) PROVE ByteBooks'
  <2>1. Holders("bytes")' = Holders("bytes") \cup {u}
    BY <1>6, Owned DEF Reserve, Guards
  <2>2. u \notin Holders("bytes")
    BY <1>6 DEF Reserve, GuardInv, GuardsOf, Holders
  <2>3. Bytes(Declared, Holders("bytes")') = Declared[u] + Bytes(Declared, Holders("bytes"))
    BY <1>b, <2>1, <2>2, DeclaredWithout
  <2>4. Declared[u] \in Nat /\ Bytes(Declared, Holders("bytes")) \in Nat
    BY <1>b, BytesNat, StagingAssumption
  <2> QED
    BY <1>6, <2>1, <2>3, <2>4 DEF Reserve
<1>7. ASSUME NEW u \in Uploads, NoSpace(u) PROVE ByteBooks'
  <2>1. Holders("bytes")' = Holders("bytes")
    BY <1>7 DEF NoSpace, Holders
  <2>2. Holders("bytes") = {} => snapshot' = Unknown
    BY <1>7, StagingAssumption
    DEF NoSpace, LiveCheck, AggregateCheck, Frozen, SpaceInv, GuardInv, Shape
  <2> QED
    BY <1>7, <2>1, <2>2 DEF NoSpace
<1>8. ASSUME NEW u \in Uploads, Write(u) PROVE ByteBooks'
  BY <1>8, <1>d DEF Write
<1>9. ASSUME NEW u \in Uploads, Staged(u) PROVE ByteBooks'
  BY <1>9, <1>d DEF Staged
<1>10. ASSUME NEW u \in Uploads, Depart(u) PROVE ByteBooks'
  BY <1>10, <1>d DEF Depart
<1>11. ASSUME NEW u \in Uploads, DropGlobal(u) PROVE ByteBooks'
  BY <1>11, <1>e DEF DropGlobal
<1>12. ASSUME NEW u \in Uploads, DropUser(u) PROVE ByteBooks'
  BY <1>12, <1>e DEF DropUser
<1>13. ASSUME NEW u \in Uploads, DropBytes(u) PROVE ByteBooks'
  <2>1. Holders("bytes")' = Holders("bytes") \ {u}
    BY <1>13, Disowned DEF DropBytes, Guards
  <2>2. u \in Holders("bytes")
    BY <1>13 DEF DropBytes, Holders
  <2>3. Bytes(Declared, Holders("bytes")) = Declared[u] + Bytes(Declared, Holders("bytes")')
    BY <1>b, <2>1, <2>2, DeclaredWithout
  <2>4. Declared[u] \in Nat /\ Bytes(Declared, Holders("bytes")') \in Nat
    BY <1>b, <2>1, BytesNat, StagingAssumption
  <2>5. reserved' = Bytes(Declared, Holders("bytes")')
    BY <1>13, <2>3, <2>4 DEF DropBytes
  <2>6. Holders("bytes")' = {} => reserved' = 0
    BY <2>5, BytesEmpty
  <2> QED
    BY <1>13, <2>5, <2>6 DEF DropBytes
<1>14. ASSUME NEW u \in Uploads, DropFile(u) PROVE ByteBooks'
  BY <1>14, <1>e DEF DropFile
<1>15. ASSUME NEW u \in Uploads, Ended(u) PROVE ByteBooks'
  BY <1>15, <1>d DEF Ended
<1>16. CASE Crash
  <2>1. Holders("bytes")' = {}
    BY <1>16 DEF Crash, Holders
  <2> QED
    BY <1>16, <2>1, BytesEmpty DEF Crash
<1>17. CASE UNCHANGED stagingVars
  BY <1>17, <1>d DEF stagingVars, reservations
<1> QED
  BY <1>1, <1>2, <1>3, <1>4, <1>5, <1>6, <1>7, <1>8, <1>9, <1>10, <1>11, <1>12,
     <1>13, <1>14, <1>15, <1>16, <1>17 DEF StagingNext

(* Only a write adds to the volume; a crash moves bytes and adds none.     *)
LEMMA DiskStep == IInv /\ [StagingNext]_stagingVars => DiskInv'
<1> SUFFICES ASSUME IInv, [StagingNext]_stagingVars PROVE DiskInv'
  OBVIOUS
<1> USE DEF IInv, DiskInv
<1>a. ASSUME UNCHANGED disk PROVE DiskInv'
  BY <1>a DEF disk
<1>b. ASSUME NEW u \in Uploads, NEW n \in 0..MaxUpload, size' = [size EXCEPT ![u] = n]
      PROVE  /\ Bytes(size', Uploads) = n + Bytes(size, Uploads \ {u})
             /\ Bytes(size, Uploads) = size[u] + Bytes(size, Uploads \ {u})
             /\ Bytes(size, Uploads \ {u}) \in Nat
  <2>1. IsFiniteSet(Uploads) /\ IsFiniteSet(Uploads \ {u})
    BY StagingAssumption, FS_RemoveElement
  <2>2. \A x \in Uploads : size[x] \in Nat /\ size'[x] \in Nat
    BY <1>b, StagingAssumption DEF Shape
  <2>3. size'[u] = n /\ \A x \in Uploads \ {u} : size'[x] = size[x]
    BY <1>b DEF Shape
  <2>4. Bytes(size', Uploads) = size'[u] + Bytes(size', Uploads \ {u})
    BY <2>1, <2>2, BytesWithout
  <2>5. Bytes(size', Uploads \ {u}) = Bytes(size, Uploads \ {u})
    BY <2>1, <2>3, BytesSame
  <2>6. Bytes(size, Uploads) = size[u] + Bytes(size, Uploads \ {u})
    BY <2>1, <2>2, BytesWithout
  <2>7. Bytes(size, Uploads \ {u}) \in Nat
    BY <2>1, <2>2, BytesType
  <2> QED
    BY <2>3, <2>4, <2>5, <2>6, <2>7
<1>1. ASSUME NEW u \in Uploads, TakeGlobal(u) PROVE DiskInv'
  BY <1>1, <1>a DEF TakeGlobal
<1>2. ASSUME NEW u \in Uploads, TakeUser(u) PROVE DiskInv'
  BY <1>2, <1>a DEF TakeUser
<1>3. ASSUME NEW u \in Uploads, Refuse(u) PROVE DiskInv'
  BY <1>3, <1>a DEF Refuse
<1>4. ASSUME NEW u \in Uploads, CreateFile(u) PROVE DiskInv'
  BY <1>4, <1>a DEF CreateFile
<1>5. ASSUME NEW u \in Uploads, Measure(u) PROVE DiskInv'
  BY <1>5, <1>a DEF Measure
<1>6. ASSUME NEW u \in Uploads, Reserve(u) PROVE DiskInv'
  BY <1>6, <1>a DEF Reserve
<1>7. ASSUME NEW u \in Uploads, NoSpace(u) PROVE DiskInv'
  BY <1>7, <1>a DEF NoSpace
<1>8. ASSUME NEW u \in Uploads, Write(u) PROVE DiskInv'
  <2>1. size[u] + 1 \in 0..MaxUpload /\ size[u] \in Nat /\ litter \in Nat
    BY <1>8, StagingAssumption DEF Write, Shape
  <2>2. /\ Bytes(size', Uploads) = size[u] + 1 + Bytes(size, Uploads \ {u})
        /\ Bytes(size, Uploads) = size[u] + Bytes(size, Uploads \ {u})
        /\ Bytes(size, Uploads \ {u}) \in Nat
    BY <1>8, <1>b, <2>1 DEF Write
  <2>3. litter + Bytes(size, Uploads) < Capacity
    BY <1>8, <2>1, <2>2, StagingAssumption DEF Write, Free
  <2> QED
    BY <1>8, <2>1, <2>2, <2>3, StagingAssumption DEF Write
<1>9. ASSUME NEW u \in Uploads, Staged(u) PROVE DiskInv'
  BY <1>9, <1>a DEF Staged
<1>10. ASSUME NEW u \in Uploads, Depart(u) PROVE DiskInv'
  BY <1>10, <1>a DEF Depart
<1>11. ASSUME NEW u \in Uploads, DropGlobal(u) PROVE DiskInv'
  BY <1>11, <1>a DEF DropGlobal
<1>12. ASSUME NEW u \in Uploads, DropUser(u) PROVE DiskInv'
  BY <1>12, <1>a DEF DropUser
<1>13. ASSUME NEW u \in Uploads, DropBytes(u) PROVE DiskInv'
  BY <1>13, <1>a DEF DropBytes
<1>14. ASSUME NEW u \in Uploads, DropFile(u) PROVE DiskInv'
  <2>1. size[u] \in Nat /\ litter \in Nat /\ 0 \in 0..MaxUpload
    BY StagingAssumption DEF Shape
  <2>2. /\ Bytes(size', Uploads) = 0 + Bytes(size, Uploads \ {u})
        /\ Bytes(size, Uploads) = size[u] + Bytes(size, Uploads \ {u})
        /\ Bytes(size, Uploads \ {u}) \in Nat
    BY <1>14, <1>b, <2>1 DEF DropFile
  <2> QED
    BY <1>14, <2>1, <2>2, StagingAssumption DEF DropFile
<1>15. ASSUME NEW u \in Uploads, Ended(u) PROVE DiskInv'
  BY <1>15, <1>a DEF Ended
<1>16. CASE Crash
  <2>1. Bytes(size', Uploads) = 0
    BY <1>16, StagingAssumption, BytesZero DEF Crash
  <2> QED
    BY <1>16, <2>1, BytesNat DEF Crash, Shape
<1>17. CASE UNCHANGED stagingVars
  BY <1>17, <1>a DEF stagingVars, disk
<1> QED
  BY <1>1, <1>2, <1>3, <1>4, <1>5, <1>6, <1>7, <1>8, <1>9, <1>10, <1>11, <1>12,
     <1>13, <1>14, <1>15, <1>16, <1>17 DEF StagingNext

LEMMA SpaceStep ==
  IInv /\ ByteBooks' /\ [StagingNext]_stagingVars => SpaceInv' /\ AggregateFits'
<1> SUFFICES ASSUME IInv, ByteBooks', [StagingNext]_stagingVars
             PROVE  SpaceInv' /\ AggregateFits'
  OBVIOUS
<1> USE StagingAssumption DEF IInv, Shape, SpaceInv, VolumeShared, AggregateFits
<1>a. reserved \in Nat /\ reserved' \in Nat
  <2>1. Holders("bytes") \in SUBSET Uploads /\ Holders("bytes")' \in SUBSET Uploads
    BY DEF Holders
  <2> QED
    BY <2>1, BytesNat DEF BooksBalance, ByteBooks
<1>b. ASSUME UNCHANGED <<measured, reservations, litter>>,
             Holders("bytes")' = Holders("bytes")
      PROVE  SpaceInv' /\ AggregateFits'
  BY <1>b DEF reservations
<1>c. ASSUME UNCHANGED <<held, measured, reservations, litter>>
      PROVE  SpaceInv' /\ AggregateFits'
  BY <1>b, <1>c DEF Holders
<1>d. ASSUME NEW u \in Uploads, NEW g \in {"global", "user", "file"},
             Own(u, g) \/ Disown(u, g), UNCHANGED <<measured, reservations, litter>>
      PROVE  SpaceInv' /\ AggregateFits'
  <2>1. g \in Guards /\ "bytes" \in Guards \ {g}
    BY <1>d DEF Guards
  <2> QED
    BY <1>b, <1>d, <2>1, Owned, Disowned
<1>1. ASSUME NEW u \in Uploads, TakeGlobal(u) PROVE SpaceInv' /\ AggregateFits'
  BY <1>1, <1>d DEF TakeGlobal, disk
<1>2. ASSUME NEW u \in Uploads, TakeUser(u) PROVE SpaceInv' /\ AggregateFits'
  BY <1>2, <1>d DEF TakeUser, disk
<1>3. ASSUME NEW u \in Uploads, Refuse(u) PROVE SpaceInv' /\ AggregateFits'
  BY <1>3, <1>c DEF Refuse, disk
<1>4. ASSUME NEW u \in Uploads, CreateFile(u) PROVE SpaceInv' /\ AggregateFits'
  BY <1>4, <1>d DEF CreateFile, disk
<1>5. ASSUME NEW u \in Uploads, Measure(u) PROVE SpaceInv' /\ AggregateFits'
  <2>1. Holders("bytes")' = Holders("bytes")
    BY <1>5 DEF Measure, Holders
  <2>2. Free \in 0..Capacity /\ Free <= Capacity - litter
    BY FreeType
  <2> QED
    BY <1>5, <2>1, <2>2 DEF Measure, reservations, disk
<1>6. ASSUME NEW u \in Uploads, Reserve(u) PROVE SpaceInv' /\ AggregateFits'
  <2>1. Declared[u] \in Nat /\ Frozen(u) \in 0..Capacity /\ Frozen(u) <= Capacity - litter
    BY <1>6 DEF Reserve, Frozen, GuardInv
  <2>2. reserved' + MinFree <= Frozen(u)
    BY <1>6, <1>a, <2>1 DEF Reserve, AggregateCheck
  <2> QED
    BY <1>6, <1>a, <2>1, <2>2 DEF Reserve, disk
<1>7. ASSUME NEW u \in Uploads, NoSpace(u) PROVE SpaceInv' /\ AggregateFits'
  <2>1. UNCHANGED <<held, measured, reserved, litter>> /\ Holders("bytes")' = Holders("bytes")
    BY <1>7 DEF NoSpace, Holders, disk
  <2>2. snapshot' = snapshot
    BY <1>7, <1>a DEF NoSpace, LiveCheck, AggregateCheck, Frozen, GuardInv
  <2> QED
    BY <1>b, <2>1, <2>2 DEF reservations
<1>8. ASSUME NEW u \in Uploads, Write(u) PROVE SpaceInv' /\ AggregateFits'
  BY <1>8, <1>c DEF Write, disk
<1>9. ASSUME NEW u \in Uploads, Staged(u) PROVE SpaceInv' /\ AggregateFits'
  BY <1>9, <1>c DEF Staged, disk
<1>10. ASSUME NEW u \in Uploads, Depart(u) PROVE SpaceInv' /\ AggregateFits'
  BY <1>10, <1>c DEF Depart, disk
<1>11. ASSUME NEW u \in Uploads, DropGlobal(u) PROVE SpaceInv' /\ AggregateFits'
  BY <1>11, <1>d DEF DropGlobal, disk
<1>12. ASSUME NEW u \in Uploads, DropUser(u) PROVE SpaceInv' /\ AggregateFits'
  BY <1>12, <1>d DEF DropUser, disk
<1>13. ASSUME NEW u \in Uploads, DropBytes(u) PROVE SpaceInv' /\ AggregateFits'
  <2>1. Holders("bytes") # {} /\ Declared[u] \in Nat /\ reserved' <= reserved
    BY <1>13, <1>a DEF DropBytes, Holders
  <2> QED
    BY <1>13, <1>a, <2>1 DEF DropBytes, disk
<1>14. ASSUME NEW u \in Uploads, DropFile(u) PROVE SpaceInv' /\ AggregateFits'
  BY <1>14, <1>d DEF DropFile, disk
<1>15. ASSUME NEW u \in Uploads, Ended(u) PROVE SpaceInv' /\ AggregateFits'
  BY <1>15, <1>c DEF Ended, disk
<1>16. CASE Crash
  <2>1. Holders("bytes")' = {}
    BY <1>16 DEF Crash, Holders
  <2> QED
    BY <1>16, <2>1 DEF Crash
<1>17. CASE UNCHANGED stagingVars
  BY <1>17, <1>c DEF stagingVars, reservations
<1> QED
  BY <1>1, <1>2, <1>3, <1>4, <1>5, <1>6, <1>7, <1>8, <1>9, <1>10, <1>11, <1>12,
     <1>13, <1>14, <1>15, <1>16, <1>17 DEF StagingNext

LEMMA StagingInvariant == StagingSpec => []IInv
<1>1. StagingInit => IInv
  <2> SUFFICES ASSUME StagingInit PROVE IInv
    OBVIOUS
  <2> USE StagingAssumption DEF StagingInit
  <2>1. Shape /\ GuardInv
    BY DEF Shape, GuardInv, GuardsOf, Phases, Guards
  <2>2. DiskInv
    BY BytesZero DEF DiskInv
  <2>3. \A g : Holders(g) = {}
    BY DEF Holders
  <2>4. \A x \in Users : {u \in Holders("user") : UserOf[u] = x} = {}
    BY <2>3
  <2>5. BooksBalance
    <3>1. Cardinality({}) = 0 /\ Bytes(Declared, {}) = 0
      BY FS_EmptySet, BytesEmpty
    <3>2. slots = GlobalLimit - Cardinality(Holders("global"))
      BY <2>3, <3>1
    <3>3. ASSUME NEW x \in Users
          PROVE  userSlots[x] = PerUserLimit
                   - Cardinality({u \in Holders("user") : UserOf[u] = x})
      <4>1. userSlots[x] = PerUserLimit
        OBVIOUS
      <4>2. Cardinality({u \in Holders("user") : UserOf[u] = x}) = 0
        BY <2>4, <3>1
      <4> QED
        BY <4>1, <4>2
    <3>4. reserved = Bytes(Declared, Holders("bytes")) /\ snapshot = Unknown
      BY <2>3, <3>1
    <3> QED
      BY <3>2, <3>3, <3>4 DEF BooksBalance
  <2>6. SpaceInv /\ AggregateFits
    BY <2>3 DEF SpaceInv, AggregateFits
  <2> QED
    BY <2>1, <2>2, <2>5, <2>6 DEF IInv, VolumeShared
<1>2. IInv /\ [StagingNext]_stagingVars => IInv'
  <2> SUFFICES ASSUME IInv, [StagingNext]_stagingVars PROVE IInv'
    OBVIOUS
  <2>1. Shape' /\ GuardInv' /\ DiskInv' /\ SlotBooks' /\ ByteBooks'
    BY ShapeStep, GuardStep, DiskStep, SlotStep, ByteStep
  <2>2. SpaceInv' /\ AggregateFits'
    BY <2>1, SpaceStep
  <2> QED
    BY <2>1, <2>2 DEF IInv, VolumeShared, BooksBalance, SlotBooks, ByteBooks
<1> QED
  BY <1>1, <1>2, PTL DEF StagingSpec

(* THEOREM: every slot, every reserved byte and the frozen snapshot are    *)
(* returned exactly once, and what the books promise to all admitted       *)
(* uploads together fits on the volume and leaves the headroom.            *)
THEOREM StagingShared == StagingSpec => []VolumeShared
<1>1. IInv => VolumeShared
  BY DEF IInv
<1> QED
  BY <1>1, StagingInvariant, PTL

(* THEOREM: no counter of the books is negative and none exceeds its       *)
(* limit, and the files, the abandoned ones too, fit on the volume.        *)
THEOREM StagingTyped == StagingSpec => []TypeOK
<1>1. ASSUME IInv PROVE TypeOK
  <2> USE <1>1, StagingAssumption DEF IInv, VolumeShared, BooksBalance, Shape
  <2>1. \A S \in SUBSET Uploads : Cardinality(S) \in Nat
    BY FS_Subset, FS_CardinalityType
  <2>2. slots \in 0..GlobalLimit
    <3>1. Holders("global") \in SUBSET Uploads
      BY DEF Holders
    <3> QED
      BY <2>1, <3>1
  <2>3. ASSUME NEW x \in Users PROVE userSlots[x] \in 0..PerUserLimit
    <3>1. {u \in Holders("user") : UserOf[u] = x} \in SUBSET Uploads
      BY DEF Holders
    <3>2. Cardinality({u \in Holders("user") : UserOf[u] = x}) \in Nat
      BY <2>1, <3>1
    <3> QED
      BY <3>2
  <2>4. litter \in 0..Capacity
    BY BytesNat DEF DiskInv
  <2>5. reserved \in 0..Capacity
    <3>1. reserved \in Nat
      BY BytesNat DEF Holders
    <3> QED
      BY <3>1, <2>4 DEF SpaceInv
  <2> QED
    BY <2>2, <2>3, <2>4, <2>5 DEF TypeOK
<1> QED
  BY <1>1, StagingInvariant, PTL

============================================================================

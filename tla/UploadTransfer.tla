--------------------------- MODULE UploadTransfer ---------------------------
(***************************************************************************)
(* The object transfers of the LFS Cloud server: uploads, downloads and    *)
(* batch lookups of one repository mapping, from an authorized request to  *)
(* its reply.  Each request is a future of some server process; it shares  *)
(* with the others                                                         *)
(*   - the in-process upload lock of its object (a Tokio mutex),           *)
(*   - the durable, striped upload lock (an advisory file lock whose wait  *)
(*     occupies a thread of the blocking pool),                            *)
(*   - the provider-call permits of its process,                           *)
(*   - the metadata database (object rows and transfer-attempt rows), each *)
(*     operation of which runs on a thread of the blocking pool,           *)
(*   - the storage root on Google Drive, which anybody may edit.           *)
(* A client may disconnect anywhere: its future is dropped, locks and      *)
(* permits are released at once, but an operation that is already on the   *)
(* blocking pool still runs, and a Drive upload whose last chunk is on the *)
(* wire may still complete.  A process may crash.                          *)
(***************************************************************************)
EXTENDS Naturals, FiniteSets

CONSTANTS
  Uploads, Downloads, Batches,  \* the requests, by kind
  Processes,                    \* server processes sharing the metadata path
  Objects, Stripes,
  FileId,                       \* Drive file ids, ordered
  NoId, NoRow, Nobody,          \* null values
  ObjectOf, ProcessOf,          \* of a request
  StripeOf,                     \* of an object
  MaxProviderCalls,             \* server.max_provider_calls
  BlockingThreads,              \* threads of a process' blocking pool
  MaxFaults                     \* bound: disconnections, crashes, deletions

Clients == Uploads \cup Downloads \cup Batches

ASSUME KindAssumption ==
  /\ Uploads \cap Downloads = {}
  /\ (Uploads \cup Downloads) \cap Batches = {}

ASSUME PlaceAssumption ==
  /\ ObjectOf \in [Clients -> Objects]
  /\ ProcessOf \in [Clients -> Processes]
  /\ StripeOf \in [Objects -> Stripes]

ASSUME NullAssumption ==
  /\ FileId \subseteq Nat /\ NoId \notin FileId
  /\ Nobody \notin Clients
  /\ NoRow \notin [id : FileId, status : {"verified", "stale"}]

ASSUME BoundAssumption ==
  /\ MaxProviderCalls \in Nat \ {0}
  /\ BlockingThreads \in Nat \ {0}
  /\ MaxFaults \in Nat

VARIABLES
  pc,         \* pc[c]: where the request's handler is
  seen,       \* seen[c]: the object row the lookup read
  got,        \* got[c]: the backend id the handler holds
  row,        \* row[c]: the request's transfer-attempt row
  procLock,   \* procLock[p][o]: who holds the in-process upload lock
  stripeLock, \* stripeLock[s]: who holds the durable upload lock
  permits,    \* the requests that hold a provider-call permit
  meta,       \* meta[o]: the object row of o
  files,      \* files[o]: live Drive files of o
  deleted,    \* deleted[o]: ids of files of o that were removed
  late,       \* Drive ids whose upload finished after its request was over
  inFlight,   \* requests gone with the last chunk of a new file on the wire
  faults      \* disconnections, crashes and external deletions so far

vars == <<pc, seen, got, row, procLock, stripeLock, permits, meta, files,
          deleted, late, inFlight, faults>>
store == <<files, deleted, late, inFlight>>
locks == <<procLock, stripeLock>>

ObjectRow == [id : FileId, status : {"verified", "stale"}]

LookupPhases == {"readMeta", "byId", "search", "repair", "stale"}
CallPhases == LookupPhases \cup {"open", "record", "search2", "create"}
Queueing == {"waitProc", "waitLookup", "waitRecord", "waitUpload"}
Finishing == {"finishOk", "finishFail"}
ActivePhases == CallPhases \cup Queueing \cup Finishing
                  \cup {"askStripe", "waitStripe", "stage", "stream"}
OrphanPhases == {"orphanAsk", "orphanWait", "orphanRecord", "orphanStale",
                 "orphanFinishOk", "orphanFinishFail"}
FinalPhases == {"ok", "missing", "failed", "gone", "cut"}
Phases == {"idle"} \cup ActivePhases \cup OrphanPhases \cup FinalPhases

Init ==
  /\ pc = [c \in Clients |-> "idle"]
  /\ seen = [c \in Clients |-> NoRow]
  /\ got = [c \in Clients |-> NoId]
  /\ row = [c \in Clients |-> "none"]
  /\ procLock = [p \in Processes |-> [o \in Objects |-> Nobody]]
  /\ stripeLock = [s \in Stripes |-> Nobody]
  /\ permits = {}
  /\ meta = [o \in Objects |-> NoRow]
  /\ files = [o \in Objects |-> {}]
  /\ deleted = [o \in Objects |-> {}]
  /\ late = {} /\ inFlight = {}
  /\ faults = 0

----------------------------------------------------------------------------
(* Shared resources.                                                       *)

Goto(c, phase) == pc' = [pc EXCEPT ![c] = phase]

Stripe(c) == StripeOf[ObjectOf[c]]

ProcLockHolder(c) == procLock[ProcessOf[c]][ObjectOf[c]]

Smallest(S) == CHOOSE i \in S : \A j \in S : i <= j

UsedIds == UNION {files[o] \cup deleted[o] : o \in Objects}

(* A wait for the durable lock occupies one thread of the blocking pool    *)
(* until the lock is granted, whether or not its request is still there.   *)
ThreadFree(p) ==
  Cardinality({c \in Clients : /\ ProcessOf[c] = p
                               /\ pc[c] \in {"waitStripe", "orphanWait"}})
    < BlockingThreads

PermitFree(p) ==
  Cardinality({c \in permits : ProcessOf[c] = p}) < MaxProviderCalls

AcquirePermit(c) ==
  /\ PermitFree(ProcessOf[c])
  /\ permits' = permits \cup {c}

ReleasePermit(c) == permits' = permits \ {c}

(* The upload handler's guards go out of scope when it returns.            *)
ReleaseLocks(c) ==
  /\ procLock' = [procLock EXCEPT ![ProcessOf[c]][ObjectOf[c]] =
                    IF @ = c THEN Nobody ELSE @]
  /\ stripeLock' = [stripeLock EXCEPT ![Stripe(c)] =
                      IF @ = c THEN Nobody ELSE @]

RecordVerified(o, i) ==
  meta' = [meta EXCEPT ![o] = [id |-> i, status |-> "verified"]]

(* Compare-and-swap on the backend id the lookup read.                     *)
MarkStaleBlindly(o, i) ==    \* mutant: no comparison
  meta' = IF meta[o] # NoRow
          THEN [meta EXCEPT ![o].status = "stale"] ELSE meta

MarkStale(o, i) ==
  meta' = IF meta[o] # NoRow /\ meta[o].id = i
          THEN [meta EXCEPT ![o].status = "stale"] ELSE meta

----------------------------------------------------------------------------
(* From an authorized request to its first provider call.                  *)

(* An upload or a download inserts its transfer-attempt row first.         *)
Start(c) ==
  /\ pc[c] = "idle" /\ c \notin Batches
  /\ ThreadFree(ProcessOf[c])
  /\ row' = [row EXCEPT ![c] = "started"]
  /\ Goto(c, IF c \in Uploads THEN "waitProc" ELSE "waitLookup")
  /\ UNCHANGED <<seen, got, locks, permits, meta, store, faults>>

StartFails(c) ==
  /\ pc[c] = "idle" /\ c \notin Batches
  /\ ThreadFree(ProcessOf[c])
  /\ Goto(c, "failed")
  /\ UNCHANGED <<seen, got, row, locks, permits, meta, store, faults>>

StartBatch(c) ==
  /\ pc[c] = "idle" /\ c \in Batches
  /\ Goto(c, "waitLookup")
  /\ UNCHANGED <<seen, got, row, locks, permits, meta, store, faults>>

LockInProcess(c) ==
  /\ pc[c] = "waitProc" /\ ProcLockHolder(c) = Nobody
  /\ procLock' = [procLock EXCEPT ![ProcessOf[c]][ObjectOf[c]] = c]
  /\ Goto(c, "askStripe")
  /\ UNCHANGED <<seen, got, row, stripeLock, permits, meta, store, faults>>

(* The wait for the durable lock starts when the pool has a thread for it. *)
WaitDurable(c) ==
  /\ pc[c] \in {"askStripe", "orphanAsk"}
  /\ ThreadFree(ProcessOf[c])
  /\ Goto(c, IF pc[c] = "askStripe" THEN "waitStripe" ELSE "orphanWait")
  /\ UNCHANGED <<seen, got, row, locks, permits, meta, store, faults>>

LockDurableShared(c) ==      \* mutant: the file lock is taken shared
  /\ pc[c] = "waitStripe"
  /\ stripeLock' = [stripeLock EXCEPT ![Stripe(c)] = c]
  /\ Goto(c, "waitLookup")
  /\ UNCHANGED <<seen, got, row, procLock, permits, meta, store, faults>>

LockDurable(c) ==
  /\ pc[c] = "waitStripe" /\ stripeLock[Stripe(c)] = Nobody
  /\ stripeLock' = [stripeLock EXCEPT ![Stripe(c)] = c]
  /\ Goto(c, "waitLookup")
  /\ UNCHANGED <<seen, got, row, procLock, permits, meta, store, faults>>

(* The lock file cannot be created, opened or locked.                      *)
LockDurableFails(c) ==
  /\ pc[c] = "waitStripe"
  /\ Goto(c, "finishFail")
  /\ UNCHANGED <<seen, got, row, locks, permits, meta, store, faults>>

(* A wait nobody is waiting for is granted and dropped.                    *)
OrphanLock(c) ==
  /\ pc[c] = "orphanWait" /\ stripeLock[Stripe(c)] = Nobody
  /\ Goto(c, "gone")
  /\ UNCHANGED <<seen, got, row, locks, permits, meta, store, faults>>

----------------------------------------------------------------------------
(* The lookup with repair, all of it under one provider-call permit.       *)

BeginLookup(c) ==
  /\ pc[c] = "waitLookup"
  /\ AcquirePermit(c)
  /\ Goto(c, "readMeta")
  /\ UNCHANGED <<seen, got, row, locks, meta, store, faults>>

ReadMeta(c) ==
  /\ pc[c] = "readMeta" /\ ThreadFree(ProcessOf[c])
  /\ seen' = [seen EXCEPT ![c] = meta[ObjectOf[c]]]
  /\ Goto(c, IF meta[ObjectOf[c]] = NoRow THEN "search" ELSE "byId")
  /\ UNCHANGED <<got, row, locks, permits, meta, store, faults>>

(* Where a lookup that found the object leads.  The streaming download     *)
(* goes on under the same permit.                                          *)
FoundUnrecorded(c) ==        \* mutant: an existing file is not recorded
  /\ Goto(c, CASE c \in Uploads -> "finishOk"
               [] c \in Downloads -> "open"
               [] c \in Batches -> "ok")
  /\ IF c \in Downloads THEN UNCHANGED permits ELSE ReleasePermit(c)

Found(c) ==
  /\ Goto(c, CASE c \in Uploads -> "waitRecord"
               [] c \in Downloads -> "open"
               [] c \in Batches -> "ok")
  /\ IF c \in Downloads THEN UNCHANGED permits ELSE ReleasePermit(c)

NotFound(c) ==
  /\ Goto(c, CASE c \in Uploads -> "stage"
               [] c \in Downloads -> "finishFail"
               [] c \in Batches -> "missing")
  /\ ReleasePermit(c)

(* Whether the row the lookup read must be rewritten to name file i.       *)
NeedsRepair(c, i) ==
  seen[c] # NoRow /\ (seen[c].id # i \/ seen[c].status # "verified")

FoundFile(c, i) ==
  /\ got' = [got EXCEPT ![c] = i]
  /\ IF NeedsRepair(c, i) THEN Goto(c, "repair") /\ UNCHANGED permits
                          ELSE Found(c)

LookupByIdTrusting(c) ==     \* mutant: the row is believed
  /\ pc[c] = "byId"
  /\ FoundFile(c, seen[c].id)
  /\ UNCHANGED <<seen, row, locks, meta, store, faults>>

LookupById(c) ==
  /\ pc[c] = "byId"
  /\ IF seen[c].id \in files[ObjectOf[c]]
     THEN FoundFile(c, seen[c].id)
     ELSE Goto(c, "search") /\ UNCHANGED <<got, permits>>
  /\ UNCHANGED <<seen, row, locks, meta, store, faults>>

(* Among several exact files the smallest id wins.                         *)
SearchFinds(c) ==
  /\ pc[c] = "search" /\ files[ObjectOf[c]] # {}
  /\ FoundFile(c, Smallest(files[ObjectOf[c]]))
  /\ UNCHANGED <<seen, row, locks, meta, store, faults>>

SearchFindsNothing(c) ==
  /\ pc[c] = "search" /\ files[ObjectOf[c]] = {}
  /\ IF seen[c] = NoRow THEN NotFound(c)
                        ELSE Goto(c, "stale") /\ UNCHANGED permits
  /\ UNCHANGED <<seen, got, row, locks, meta, store, faults>>

Repair(c) ==
  /\ pc[c] = "repair" /\ ThreadFree(ProcessOf[c])
  /\ RecordVerified(ObjectOf[c], got[c])
  /\ Found(c)
  /\ UNCHANGED <<seen, got, row, locks, store, faults>>

StaleRepair(c) ==
  /\ pc[c] = "stale" /\ ThreadFree(ProcessOf[c])
  /\ MarkStale(ObjectOf[c], seen[c].id)
  /\ NotFound(c)
  /\ UNCHANGED <<seen, got, row, locks, store, faults>>

CallFailsForgetful(c) ==     \* mutant: the permit is not returned
  /\ pc[c] \in CallPhases
  /\ pc[c] \in {"readMeta", "repair", "stale", "record"} => ThreadFree(ProcessOf[c])
  /\ Goto(c, IF c \in Batches THEN "failed" ELSE "finishFail")
  /\ inFlight' = IF pc[c] = "create" THEN inFlight \cup {c} ELSE inFlight
  /\ UNCHANGED <<seen, got, row, locks, permits, meta, files, deleted, late,
                 faults>>

(* A Drive or metadata error ends the provider call; the upload and        *)
(* download handlers then record the failure.  The database fails on a     *)
(* thread of the pool.                                                     *)
CallFails(c) ==
  /\ pc[c] \in CallPhases
  /\ pc[c] \in {"readMeta", "repair", "stale", "record"} => ThreadFree(ProcessOf[c])
  /\ Goto(c, IF c \in Batches THEN "failed" ELSE "finishFail")
  /\ ReleasePermit(c)
  /\ inFlight' = IF pc[c] = "create" THEN inFlight \cup {c} ELSE inFlight
  /\ UNCHANGED <<seen, got, row, locks, meta, files, deleted, late, faults>>

----------------------------------------------------------------------------
(* The rest of an upload.                                                  *)

BeginRecord(c) ==
  /\ pc[c] = "waitRecord"
  /\ AcquirePermit(c)
  /\ Goto(c, "record")
  /\ UNCHANGED <<seen, got, row, locks, meta, store, faults>>

Record(c) ==
  /\ pc[c] = "record" /\ ThreadFree(ProcessOf[c])
  /\ RecordVerified(ObjectOf[c], got[c])
  /\ ReleasePermit(c)
  /\ Goto(c, "finishOk")
  /\ UNCHANGED <<seen, got, row, locks, store, faults>>

(* Admission to staging, the body on disk with the right hash and size.    *)
Stage(c) ==
  /\ pc[c] = "stage"
  /\ Goto(c, "waitUpload")
  /\ UNCHANGED <<seen, got, row, locks, permits, meta, store, faults>>

StageFails(c) ==
  /\ pc[c] = "stage"
  /\ Goto(c, "finishFail")
  /\ UNCHANGED <<seen, got, row, locks, permits, meta, store, faults>>

BeginUploadRelocking(c) ==   \* mutant: the provider locks the stripe again
  /\ pc[c] = "waitUpload" /\ stripeLock[Stripe(c)] = Nobody
  /\ AcquirePermit(c)
  /\ Goto(c, "search2")
  /\ UNCHANGED <<seen, got, row, locks, meta, store, faults>>

BeginUpload(c) ==
  /\ pc[c] = "waitUpload"
  /\ AcquirePermit(c)
  /\ Goto(c, "search2")
  /\ UNCHANGED <<seen, got, row, locks, meta, store, faults>>

(* The provider looks for the object once more before it uploads.          *)
SearchAgain(c) ==
  /\ pc[c] = "search2"
  /\ IF files[ObjectOf[c]] # {}
     THEN /\ got' = [got EXCEPT ![c] = Smallest(files[ObjectOf[c]])]
          /\ Goto(c, "record")
     ELSE Goto(c, "create") /\ UNCHANGED got
  /\ UNCHANGED <<seen, row, locks, permits, meta, store, faults>>

(* The resumable upload completes: Drive has one more file of the object.  *)
Create(c) ==
  /\ pc[c] = "create"
  /\ \E i \in FileId \ UsedIds :
       /\ files' = [files EXCEPT ![ObjectOf[c]] = @ \cup {i}]
       /\ got' = [got EXCEPT ![c] = i]
  /\ Goto(c, "record")
  /\ UNCHANGED <<seen, row, locks, permits, meta, deleted, late, inFlight,
                 faults>>

----------------------------------------------------------------------------
(* The end of a request.                                                   *)

(* The response headers of the Drive download arrived; the permit is       *)
(* released although the body is still to be read.                         *)
OpenDownload(c) ==
  /\ pc[c] = "open" /\ got[c] \in files[ObjectOf[c]]
  /\ ReleasePermit(c)
  /\ Goto(c, "finishOk")
  /\ UNCHANGED <<seen, got, row, locks, meta, store, faults>>

(* The attempt row leaves "started" once; the handler returns.             *)
FinishSucceeded(c) ==
  /\ pc[c] = "finishOk" /\ ThreadFree(ProcessOf[c])
  /\ row[c] = "started"
  /\ row' = [row EXCEPT ![c] = "succeeded"]
  /\ Goto(c, IF c \in Downloads THEN "stream" ELSE "ok")
  /\ ReleaseLocks(c)
  /\ UNCHANGED <<seen, got, permits, meta, store, faults>>

FinishFailed(c) ==
  /\ pc[c] = "finishFail" /\ ThreadFree(ProcessOf[c])
  /\ row[c] = "started"
  /\ row' = [row EXCEPT ![c] = "failed"]
  /\ Goto(c, "failed")
  /\ ReleaseLocks(c)
  /\ UNCHANGED <<seen, got, permits, meta, store, faults>>

(* The row cannot be updated: an error reply, and the row stays "started". *)
FinishBreaks(c) ==
  /\ pc[c] \in Finishing /\ ThreadFree(ProcessOf[c])
  /\ Goto(c, "failed")
  /\ ReleaseLocks(c)
  /\ UNCHANGED <<seen, got, row, permits, meta, store, faults>>

(* The client reads the body to its end, or the body breaks off.           *)
Stream(c) ==
  /\ pc[c] = "stream"
  /\ \E end \in {"ok", "cut"} : Goto(c, end)
  /\ UNCHANGED <<seen, got, row, locks, permits, meta, store, faults>>

----------------------------------------------------------------------------
(* What the environment may do.                                            *)

(* What is left on the blocking pool of a request dropped in a phase.      *)
Abandoned(c) ==
  CASE pc[c] = "askStripe" -> "orphanAsk"
    [] pc[c] = "waitStripe" -> "orphanWait"
    [] pc[c] \in {"repair", "record"} -> "orphanRecord"
    [] pc[c] = "stale" -> "orphanStale"
    [] pc[c] = "finishOk" -> "orphanFinishOk"
    [] pc[c] = "finishFail" -> "orphanFinishFail"
    [] pc[c] = "stream" -> "cut"
    [] OTHER -> "gone"

(* The client disconnects and the server drops the request's future.       *)
Disconnect(c) ==
  /\ pc[c] \in ActivePhases
  /\ faults < MaxFaults /\ faults' = faults + 1
  /\ Goto(c, Abandoned(c))
  /\ ReleaseLocks(c)
  /\ ReleasePermit(c)
  /\ inFlight' = IF pc[c] = "create" THEN inFlight \cup {c} ELSE inFlight
  /\ UNCHANGED <<seen, got, row, meta, files, deleted, late>>

OrphanRecord(c) ==
  /\ pc[c] = "orphanRecord" /\ ThreadFree(ProcessOf[c])
  /\ RecordVerified(ObjectOf[c], got[c])
  /\ Goto(c, "gone")
  /\ UNCHANGED <<seen, got, row, locks, permits, store, faults>>

OrphanStale(c) ==
  /\ pc[c] = "orphanStale" /\ ThreadFree(ProcessOf[c])
  /\ MarkStale(ObjectOf[c], seen[c].id)
  /\ Goto(c, "gone")
  /\ UNCHANGED <<seen, got, row, locks, permits, store, faults>>

OrphanFinish(c) ==
  /\ pc[c] \in {"orphanFinishOk", "orphanFinishFail"}
  /\ ThreadFree(ProcessOf[c])
  /\ row' = [row EXCEPT ![c] =
               IF @ # "started" THEN @
               ELSE IF pc[c] = "orphanFinishOk" THEN "succeeded" ELSE "failed"]
  /\ Goto(c, "gone")
  /\ UNCHANGED <<seen, got, locks, permits, meta, store, faults>>

(* Drive completes an upload whose request is over.                        *)
LateCreate(c) ==
  /\ c \in inFlight
  /\ inFlight' = inFlight \ {c}
  /\ \E i \in FileId \ UsedIds :
       /\ files' = [files EXCEPT ![ObjectOf[c]] = @ \cup {i}]
       /\ late' = late \cup {i}
  /\ UNCHANGED <<pc, seen, got, row, locks, permits, meta, deleted, faults>>

(* A process dies: its futures, its pool and its file locks die with it.   *)
Dying(p) == {c \in Clients : /\ ProcessOf[c] = p
                             /\ pc[c] \in ActivePhases \cup OrphanPhases}

Crash(p) ==
  /\ Dying(p) # {}
  /\ faults < MaxFaults /\ faults' = faults + 1
  /\ pc' = [c \in Clients |-> IF c \notin Dying(p) THEN pc[c]
                              ELSE IF pc[c] = "stream" THEN "cut" ELSE "gone"]
  /\ procLock' = [procLock EXCEPT ![p] = [o \in Objects |-> Nobody]]
  /\ stripeLock' = [s \in Stripes |-> IF stripeLock[s] \in Dying(p)
                                      THEN Nobody ELSE stripeLock[s]]
  /\ permits' = permits \ Dying(p)
  /\ inFlight' = inFlight \cup {c \in Dying(p) : pc[c] = "create"}
  /\ UNCHANGED <<seen, got, row, meta, files, deleted, late>>

ExternalDelete(o, i) ==
  /\ i \in files[o]
  /\ faults < MaxFaults /\ faults' = faults + 1
  /\ files' = [files EXCEPT ![o] = @ \ {i}]
  /\ deleted' = [deleted EXCEPT ![o] = @ \cup {i}]
  /\ UNCHANGED <<pc, seen, got, row, locks, permits, meta, late, inFlight>>

----------------------------------------------------------------------------
(* What a request does by itself.                                          *)
Begin(c) == Start(c) \/ StartFails(c) \/ StartBatch(c)

Step(c) ==
  \/ LockInProcess(c) \/ WaitDurable(c) \/ LockDurable(c)
  \/ LockDurableFails(c) \/ OrphanLock(c)
  \/ BeginLookup(c) \/ ReadMeta(c) \/ LookupById(c)
  \/ SearchFinds(c) \/ SearchFindsNothing(c) \/ Repair(c) \/ StaleRepair(c)
  \/ CallFails(c) \/ BeginRecord(c) \/ Record(c) \/ Stage(c) \/ StageFails(c)
  \/ BeginUpload(c) \/ SearchAgain(c) \/ Create(c) \/ OpenDownload(c)
  \/ FinishSucceeded(c) \/ FinishFailed(c) \/ FinishBreaks(c)
  \/ OrphanRecord(c) \/ OrphanStale(c) \/ OrphanFinish(c)

Environment ==
  \/ \E c \in Clients : Disconnect(c) \/ LateCreate(c) \/ Stream(c)
  \/ \E p \in Processes : Crash(p)
  \/ \E o \in Objects, i \in FileId : ExternalDelete(o, i)

Next == (\E c \in Clients : Begin(c) \/ Step(c)) \/ Environment

Spec == Init /\ [][Next]_vars

(* A request that has begun keeps running: its future is polled by the     *)
(* runtime and the operations it waits for return, except that a wait for  *)
(* the file lock is not relied on to fail.                                 *)
FairSpec ==
  Spec /\ \A c \in Clients : WF_vars(Step(c) /\ ~LockDurableFails(c))

----------------------------------------------------------------------------
(* Properties.                                                             *)

(* Every variable keeps its type: in particular an object row always names *)
(* a real Drive id, so no handler records a file it never held.            *)
TypeOK ==
  /\ pc \in [Clients -> Phases]
  /\ seen \in [Clients -> ObjectRow \cup {NoRow}]
  /\ got \in [Clients -> FileId \cup {NoId}]
  /\ row \in [Clients -> {"none", "started", "succeeded", "failed"}]
  /\ procLock \in [Processes -> [Objects -> Uploads \cup {Nobody}]]
  /\ stripeLock \in [Stripes -> Uploads \cup {Nobody}]
  /\ permits \in SUBSET Clients
  /\ meta \in [Objects -> ObjectRow \cup {NoRow}]
  /\ files \in [Objects -> SUBSET FileId]
  /\ deleted \in [Objects -> SUBSET FileId]
  /\ late \in SUBSET FileId
  /\ inFlight \in SUBSET Uploads
  /\ faults \in 0..MaxFaults

(* The upload lock around the last lookup and the upload keeps one object  *)
(* from being stored twice, whatever the interleaving of requests and      *)
(* processes, disconnections, crashes and deletions: only an upload that   *)
(* Drive completes after its request is over can leave a second file.      *)
NoDuplicateFiles ==
  \A o \in Objects : \A i, j \in files[o] \ late : i = j

(* An object row always names a file that was really stored for the        *)
(* object, and calls it stale only when that file is really gone: the      *)
(* unlocked repair of a batch or download lookup, however old its          *)
(* snapshot, never condemns the mapping a concurrent upload installed.     *)
MappingTruthful ==
  \A o \in Objects : meta[o] # NoRow =>
    /\ meta[o].id \in files[o] \cup deleted[o]
    /\ meta[o].status = "stale" => meta[o].id \in deleted[o]

(* An upload is acknowledged, or its attempt row says "succeeded", only    *)
(* when the object is durable: recorded as verified under a live Drive id, *)
(* unless somebody deleted files of it.                                    *)
AcknowledgedIsDurable ==
  \A u \in Uploads :
    /\ pc[u] = "ok" => row[u] = "succeeded"
    /\ row[u] = "succeeded" =>
         LET o == ObjectOf[u] IN
         /\ meta[o] # NoRow
         /\ got[u] \in files[o] \cup deleted[o]
         /\ deleted[o] = {} => /\ meta[o].status = "verified"
                               /\ meta[o].id \in files[o]

(* Whatever path a request took out of its handler (an error, an early     *)
(* return, a disconnection, a crash), it left no permit and no lock        *)
(* behind, and nothing waits for a lock while it holds a permit.           *)
NothingLeaks ==
  /\ permits = {c \in Clients : pc[c] \in CallPhases}
  /\ \A p \in Processes, o \in Objects : procLock[p][o] # Nobody =>
       pc[procLock[p][o]] \in ActivePhases \ {"waitProc", "open", "stream"}
  /\ \A s \in Stripes : stripeLock[s] # Nobody =>
       /\ pc[stripeLock[s]] \in ActivePhases
       /\ pc[stripeLock[s]] \notin {"waitProc", "askStripe", "waitStripe",
                                    "open", "stream"}

(* Every request that begins gets its reply or is dropped, and whatever it *)
(* left on the blocking pool ends: the process lock, the stripe and the    *)
(* permits are never waited for in a circle.  The blocking pool can be:    *)
(* waits for the file lock, of requests that are gone too, may fill it     *)
(* while the upload that holds the lock needs a thread to go on.  Nothing  *)
(* moves then until the holder's client leaves or the process ends; hence  *)
(* the premise that no pool stays full for good.                           *)
Termination ==
  (\A p \in Processes : []<>ThreadFree(p))
    => \A c \in Clients :
         pc[c] # "idle" ~> pc[c] \in FinalPhases \cup {"stream"}

(* The bound the configuration guide gives: provider work of a process,    *)
(* counting the download bodies still being read from Drive.               *)
ProviderWorkBounded ==
  \A p \in Processes :
    Cardinality({c \in Clients : /\ ProcessOf[c] = p
                                 /\ pc[c] \in CallPhases \cup {"stream"}})
      <= MaxProviderCalls

(* The transfers implement the promise of ObjectService: a success names a *)
(* file that was live during that request, and a reply is final.           *)
Reply(c) ==
  CASE pc[c] \in {"ok", "stream", "cut"} -> "ok"
    [] pc[c] = "missing" -> "missing"
    [] pc[c] = "failed" -> "failed"
    [] pc[c] \in OrphanPhases \cup {"gone"} -> "gone"
    [] OTHER -> "pending"

Service == INSTANCE ObjectService WITH
  stored <- files,
  witness <- got,
  reply <- [c \in Clients |-> Reply(c)]

ImplementsObjectService == Service!Spec
=============================================================================

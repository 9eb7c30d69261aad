---------------------------- MODULE LfsRequests ----------------------------
(***************************************************************************)
(* The Git LFS protocol at the server's edge.  A request is admitted or    *)
(* turned away, routed, authenticated, read, checked and authorized before *)
(* storage is asked anything.  A batch looks up each distinct object once, *)
(* a few at a time, and answers every entry of the request in its place;   *)
(* the actions of the answer are requests for the client to make later,    *)
(* by whatever then is true of its session, its permission and storage.    *)
(***************************************************************************)
EXTENDS Naturals, Sequences, FiniteSets, SequencesExt

CONSTANTS
  Requests,              \* requests that a client can have open
  Objects,               \* [oid, size]
  BatchLists,            \* the lists of objects that batches ask about
  MaxConcurrentRequests, \* server.max_concurrent_requests
  MaxBatchObjects,       \* server.max_batch_objects
  MaxUploadSize,         \* MAX_UPLOAD_OBJECT_BYTES
  LookupConcurrency,     \* BATCH_STORAGE_LOOKUP_CONCURRENCY
  StorageErrors,         \* the errors storage can give
  Nil

ASSUME RequestAssumption ==
  /\ \A o \in Objects : o.size \in Nat
  /\ \E o \in Objects : o.size <= MaxUploadSize
  /\ \A objects \in BatchLists : objects \in Seq(Objects)
  /\ {MaxConcurrentRequests, MaxBatchObjects, MaxUploadSize} \subseteq Nat
  /\ LookupConcurrency \in Nat \ {0}

VARIABLES
  request,    \* request[q]: what the client sent, or Nil
  phase,      \* phase[q]: where the server is with it
  looked,     \* looked[q]: the outcomes of its lookups, by object
  answer,     \* answer[q]: the status, who gave it, the entries of a batch
  advertised, \* the actions that answers gave to the client
  session,    \* does the session store accept the client's token?
  stored      \* the objects in storage
lfsVars == <<request, phase, looked, answer, advertised, session, stored>>

----------------------------------------------------------------------------
(* Requests.                                                               *)

Sized(objects) == {o \in objects : o.size <= MaxUploadSize}

Batch(op, objects) ==
  [endpoint |-> "batch", method |-> "POST", credential |-> "token", op |-> op,
   transfers |-> {"basic"}, body |-> "read", objects |-> objects]

(* The address of an action has the route of the repository, the object id *)
(* and the size, and its header has the token of the batch's session.      *)
lfs_object_transfer_action_url(method, o) ==
  [endpoint |-> "object", method |-> method, credential |-> "token",
   object |-> o, size |-> "given"]

Batches ==
  {Batch(op, objects) : op \in {"download", "upload"},
                        objects \in BatchLists}

(* One thing wrong with a request that is right otherwise.                 *)
OddRequests ==
  LET o == CHOOSE x \in Objects : x.size <= MaxUploadSize
      b == Batch("upload", <<o>>)
      t == lfs_object_transfer_action_url("GET", o)
  IN  {[b EXCEPT !.endpoint = e] : e \in {"info", "unknown repository", "malformed"}}
        \cup {[b EXCEPT !.method = "GET"], [t EXCEPT !.method = "DELETE"]}
        \cup {[b EXCEPT !.credential = c] : c \in {"none", "malformed", "other user"}}
        \cup {[b EXCEPT !.transfers = x] : x \in {{}, {"other"}}}
        \cup {[b EXCEPT !.body = x] :
                x \in {"too large", "too slow", "unreadable", "not a batch"}}
        \cup {[t EXCEPT !.size = x] : x \in {"none", "malformed"}}

LfsInit ==
  /\ request = [q \in Requests |-> Nil]
  /\ phase = [q \in Requests |-> "idle"]
  /\ looked = [q \in Requests |-> <<>>]
  /\ answer = [q \in Requests |-> Nil]
  /\ advertised = {} /\ session = TRUE /\ stored \in SUBSET Sized(Objects)

Goto(q, p) == phase' = [phase EXCEPT ![q] = p]

ReplyEntries(q, status, by, entries) ==
  /\ Goto(q, "answered")
  /\ answer' = [answer EXCEPT ![q] =
                  [status |-> status, by |-> by, entries |-> entries]]
Reply(q, status, by) == ReplyEntries(q, status, by, <<>>)

----------------------------------------------------------------------------
(* The way in.                                                             *)

Handled == {q \in Requests : phase[q] \notin {"idle", "answered"}}

(* A request beyond the limit does not wait.  Others may be handled, too.  *)
Send(q, r) ==
  /\ phase[q] \in {"idle", "answered"}
  /\ request' = [request EXCEPT ![q] = r]
  /\ looked' = [looked EXCEPT ![q] = <<>>]
  /\ \E others \in 0..MaxConcurrentRequests :
       IF Cardinality(Handled) + others < MaxConcurrentRequests
         THEN Goto(q, "admitted") /\ answer' = [answer EXCEPT ![q] = Nil]
         ELSE Reply(q, 503, "limit")
  /\ UNCHANGED <<advertised, session, stored>>

resolve_path(r) ==
  CASE r.endpoint = "unknown repository" -> 404
    [] r.endpoint = "malformed" -> 400
    [] OTHER -> 200

authenticate_lfs_session(r) == IF r.credential = "token" /\ session THEN 200 ELSE 401

Methods == [batch |-> {"POST"}, object |-> {"GET", "PUT"}]

endpoint_status(r) ==
  CASE r.endpoint = "info" -> 404
    [] r.endpoint \in DOMAIN Methods /\ r.method \notin Methods[r.endpoint] -> 405
    [] OTHER -> 200

(* The size of a transfer is known before anybody is asked about it.       *)
transfer_status(r) ==
  CASE r.endpoint = "object" /\ r.size # "given" -> 400
    [] r.endpoint = "object" /\ r.size = "given" /\ r.method = "PUT"
         /\ r.object.size > MaxUploadSize -> 413
    [] OTHER -> 200

handle_lfs_request(q) ==
  /\ phase[q] = "admitted"
  /\ LET r == request[q]
         checks == <<[status |-> resolve_path(r), by |-> "route"],
                     [status |-> authenticate_lfs_session(r), by |-> "session"],
                     [status |-> endpoint_status(r), by |-> "route"],
                     [status |-> transfer_status(r), by |-> "request"]>>
         failed == {i \in DOMAIN checks : checks[i].status # 200}
     IN  IF failed # {} THEN Reply(q, checks[Min(failed)].status, checks[Min(failed)].by)
         ELSE /\ Goto(q, IF r.endpoint = "batch" THEN "body" ELSE "authorize")
              /\ UNCHANGED answer
  /\ UNCHANGED <<request, looked, advertised, session, stored>>

(* The body of a batch is read within limits of size and time, and parsed. *)
body_status(r) ==
  CASE r.body = "too large" -> 413
    [] r.body = "too slow" -> 408
    [] r.body \in {"unreadable", "not a batch"} -> 400
    [] OTHER -> 200

BatchStatusOf(r) ==
  CASE Len(r.objects) > MaxBatchObjects -> 413
    [] r.transfers # {} /\ "basic" \notin r.transfers -> 409
    [] r.op = "upload" /\ \E i \in DOMAIN r.objects :
         r.objects[i].size > MaxUploadSize -> 413
    [] OTHER -> 200

handle_lfs_batch_request(q) ==
  /\ phase[q] = "body"
  /\ LET r == request[q]
     IN  IF body_status(r) # 200 THEN Reply(q, body_status(r), "request")
         ELSE IF BatchStatusOf(r) # 200 THEN Reply(q, BatchStatusOf(r), "request")
         ELSE Goto(q, "authorize") /\ UNCHANGED answer
  /\ UNCHANGED <<request, looked, advertised, session, stored>>

git_lfs_authorization_error_response(result) ==
  CASE result = "AuthenticationRequired" -> 401
    [] result \in {"PermissionDenied", "SsoRequired"} -> 403
    [] result = "RepositoryNotFound" -> 404
    [] result = "InvalidRequest" -> 400
    [] result = "Upstream" -> 502
    [] OTHER -> 500

Refusals ==
  {"PermissionDenied", "SsoRequired", "RepositoryNotFound", "InvalidRequest",
   "Upstream", "InvalidConfiguration"}

(* The provider's answer, which may be a cached one; a rejected token ends *)
(* the session before the client is told.                                  *)
Authorize(q) ==
  /\ phase[q] = "authorize"
  /\ \/ /\ Goto(q, IF request[q].endpoint = "batch" THEN "lookup" ELSE "transfer")
        /\ UNCHANGED <<answer, session>>
     \/ \E result \in Refusals :
          /\ Reply(q, git_lfs_authorization_error_response(result), "provider")
          /\ UNCHANGED session
     \/ /\ session' = FALSE
        /\ Reply(q, git_lfs_authorization_error_response("AuthenticationRequired"),
                 "provider")
  /\ UNCHANGED <<request, looked, advertised, stored>>

----------------------------------------------------------------------------
(* Lookups of a batch.                                                     *)

(* An upload's mismatch is the client's fault, a download's the storage's. *)
classify_lfs_storage_error(error) ==
  LET uniform(code) == [upload |-> code, download |-> code, batch |-> code]
  IN  CASE error = "IntegrityMismatch" ->
             [upload |-> 422, download |-> 502, batch |-> 502]
        [] error = "ObjectNotFound" -> uniform(404)
        [] error = "Conflict" -> uniform(409)
        [] error = "QuotaExceeded" -> uniform(507)
        [] error = "Retryable" -> uniform(503)
        [] error = "Unsupported" -> uniform(501)
        [] error \in {"PermissionDenied", "AuthenticationRequired", "CredentialLoad",
                      "RepositoryNamespaceMismatch", "Upstream"} -> uniform(502)
        [] OTHER -> uniform(500)

KeyByOid(o) == o.oid   \* mutant: entries of the same id share a lookup
LookupKey(o) == o

(* The distinct objects of a batch, and those being looked up: a window of *)
(* the line of them moves on when its first is done.                       *)
Unique(r) ==
  {r.objects[i] : i \in {j \in DOMAIN r.objects :
     \A k \in 1..(j - 1) : LookupKey(r.objects[k]) # LookupKey(r.objects[j])}}

Pending(q) == {o \in Unique(request[q]) : LookupKey(o) \notin DOMAIN looked[q]}

InFlight(q) ==
  LET line == SetToSeq(Unique(request[q]))
      left == {i \in DOMAIN line : line[i] \in Pending(q)}
  IN  {line[i] : i \in {i \in left : \A j \in left : i < j + LookupConcurrency}}

Outcomes(o) ==
  {IF o \in stored THEN "found" ELSE "missing"} \cup StorageErrors

LookupObject(q, o) ==
  /\ phase[q] = "lookup" /\ o \in InFlight(q)
  /\ \E outcome \in Outcomes(o) :
       looked' = [looked EXCEPT ![q] =
         [k \in DOMAIN @ \cup {LookupKey(o)} |->
            IF k = LookupKey(o) THEN [object |-> o, outcome |-> outcome] ELSE @[k]]]
  /\ UNCHANGED <<request, phase, answer, advertised, session, stored>>

(* The entry of a response: an action, an error code, or neither.          *)
entry(op, lookup) ==
  LET code == CASE lookup.outcome \in StorageErrors ->
                     classify_lfs_storage_error(lookup.outcome).batch
                [] lookup.outcome = "missing" /\ op = "download" -> 404
                [] OTHER -> 200
      actions == CASE op = "download" /\ lookup.outcome = "found" -> {"GET"}
                   [] op = "upload" /\ lookup.outcome = "missing" -> {"PUT"}
                   [] OTHER -> {}
  IN  [object |-> lookup.object, code |-> code,
       actions |-> {lfs_object_transfer_action_url(m, lookup.object) : m \in actions}]

AnswerBatch(q) ==
  /\ phase[q] = "lookup" /\ Pending(q) = {}
  /\ LET r == request[q]
         entries == [i \in DOMAIN r.objects |->
                       entry(r.op, looked[q][LookupKey(r.objects[i])])]
     IN  /\ ReplyEntries(q, 200, "batch", entries)
         /\ advertised' = advertised \cup UNION {entries[i].actions : i \in DOMAIN entries}
  /\ UNCHANGED <<request, looked, session, stored>>

----------------------------------------------------------------------------
(* Transfers.                                                              *)

Upload(q) ==
  /\ phase[q] = "transfer" /\ request[q].method = "PUT"
  /\ \/ stored' = stored \cup {request[q].object} /\ Reply(q, 200, "storage")
     \/ /\ \E error \in StorageErrors \cup {"IntegrityMismatch"} :
             Reply(q, classify_lfs_storage_error(error).upload, "storage")
        /\ UNCHANGED stored
  /\ UNCHANGED <<request, looked, advertised, session>>

Download(q) ==
  /\ phase[q] = "transfer" /\ request[q].method = "GET"
  /\ \/ Reply(q, IF request[q].object \in stored THEN 200 ELSE 404, "storage")
     \/ \E error \in StorageErrors :
          Reply(q, classify_lfs_storage_error(error).download, "storage")
  /\ UNCHANGED <<request, looked, advertised, session, stored>>

(* The client closes the connection: the handler is dropped.               *)
Abandon(q) ==
  /\ q \in Handled /\ Goto(q, "idle")
  /\ request' = [request EXCEPT ![q] = Nil]
  /\ looked' = [looked EXCEPT ![q] = <<>>]
  /\ UNCHANGED <<answer, advertised, session, stored>>

(* The world: the session ends, an object disappears from storage.         *)
EndSession ==
  /\ session /\ session' = FALSE
  /\ UNCHANGED <<request, phase, looked, answer, advertised, stored>>
Lose(o) ==
  /\ o \in stored /\ stored' = stored \ {o}
  /\ UNCHANGED <<request, phase, looked, answer, advertised, session>>

LfsNext ==
  \/ \E q \in Requests :
       \/ \E r \in Batches \cup OddRequests \cup advertised : Send(q, r)
       \/ handle_lfs_request(q) \/ handle_lfs_batch_request(q) \/ Authorize(q)
       \/ \E o \in Objects : LookupObject(q, o)
       \/ AnswerBatch(q) \/ Upload(q) \/ Download(q) \/ Abandon(q)
  \/ EndSession
  \/ \E o \in Objects : Lose(o)

----------------------------------------------------------------------------
(* Every entry of a batch is answered in its place and for the very object *)
(* it asks about, however often an object occurs, in whatever order the    *)
(* lookups end, and also if two entries differ in nothing but the size.    *)
AnsweredAsAsked ==
  \A q \in Requests :
    phase[q] = "answered" /\ answer[q].by = "batch" =>
      /\ Len(answer[q].entries) = Len(request[q].objects)
      /\ \A i \in DOMAIN answer[q].entries :
           answer[q].entries[i].object = request[q].objects[i]

(* An action that the server gave is one it takes: whenever the client     *)
(* makes that request, it can be turned away for what became of its        *)
(* session, its permission or storage or because too much is going on, but *)
(* not for its address, its method or its size.                            *)
ActionsFollowable ==
  \A q \in Requests :
    phase[q] = "answered" /\ request[q] \in advertised =>
      answer[q].by \notin {"route", "request"}

(* The answers of the server are for what was asked, and hold when they    *)
(* are followed.                                                           *)
AnswersKept == AnsweredAsAsked /\ ActionsFollowable
=============================================================================

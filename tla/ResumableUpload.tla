-------------------------- MODULE ResumableUpload --------------------------
(***************************************************************************)
(* How the object store puts one object on Google Drive: it finds or makes *)
(* the folder of the object's shard, opens a resumable session and sends   *)
(* the object chunk by chunk, going on from what Drive says it has.  A     *)
(* request that fails or makes no progress is given up after an idle       *)
(* timeout, and the session is probed; Drive may still act on the request  *)
(* it did not answer in time.  Uploads of different objects of one shard   *)
(* run at the same time, and a lookup searches the folders meanwhile, in   *)
(* which people keep files of their own and copies of the server's.        *)
(***************************************************************************)
EXTENDS DriveFiles, Integers, FiniteSetsExt

CONSTANTS
  Uploads,       \* each of an object of its own, all of one shard
  Key,           \* Key[u]: the object of u
  FileId,        \* FileId[u]: the id that Drive gives its file
  OtherFiles,    \* what else is on Drive
  ChunkSize,     \* GOOGLE_DRIVE_RESUMABLE_UPLOAD_CHUNK_SIZE
  MaxRecovery,   \* GOOGLE_DRIVE_RESUMABLE_UPLOAD_MAX_RECOVERY_ATTEMPTS
  Folders,       \* ids Drive may give to folders; uploads take the smallest
  Wanted,        \* the upload whose object is looked up
  None           \* null value

ASSUME ResumableUploadAssumption ==
  /\ Key \in [Uploads -> Keys]
  /\ \A u \in Uploads : Prefix[Key[u].oid] = Prefix[Key[Wanted].oid]
  /\ FileId \in [Uploads -> Nat] /\ ChunkSize \in Nat \ {0} /\ MaxRecovery \in Nat
  /\ Folders \subseteq Nat /\ Wanted \in Uploads /\ Root \in Nat
  /\ Cardinality(Folders) = Cardinality(Uploads)
  /\ None \notin Nat \cup Uploads /\ \A f \in OtherFiles : f.id \in Nat

(* Drive gives every file an id of its own.  People can copy, move, rename *)
(* and change a file; its properties are the server's alone, and a change  *)
(* that leaves the size as it was is beyond what a lookup can notice.      *)
ASSUME OtherFilesAssumption ==
  /\ \A u, v \in Uploads : FileId[u] = FileId[v] => u = v
  /\ \A f, g \in OtherFiles : f.id = g.id => f = g
  /\ \A u \in Uploads : FileId[u] \notin Folders \cup {f.id : f \in OtherFiles}
  /\ \A f \in OtherFiles : f.id \notin Folders
  /\ \A f \in OtherFiles :
       "size" \in DOMAIN f.properties /\ f.properties.size = f.size =>
         f.of \in Keys /\ f.properties = expected_app_properties(f.of)

VARIABLES
  folders,   \* the shard's folders on Drive
  session,   \* session[u]: "none", "open", "whole" or "gone", on Drive
  received,  \* received[u][i]: the byte Drive has at offset i
  file,      \* file[u]: the folder in which Drive made the file, or None
  late,      \* late[u]: chunks the client gave up and Drive may yet act on
  pc,        \* pc[u]: where the upload is
  parent,    \* parent[u]: the folder it uploads to
  offset,    \* offset[u]: committed_offset
  attempts,  \* attempts[u]: recovery_attempts
  request,   \* request[u]: the request on its way, or None
  reply,     \* reply[u]: Drive's answer to it, or None
  find       \* the lookup

drive == <<folders, session, received, file>>
client == <<parent, offset, attempts>>
vars == <<drive, late, pc, client, request, reply, find>>

Ended == {"done", "failed", "refused"}
Phases == Ended \cup {"folder", "makeFolder", "initiate", "send", "await", "recover"}

Size == [u \in Uploads |-> Key[u].size]

(* The files on Drive.                                                     *)
OnDrive ==
  {drive_upload_metadata(FileId[u], file[u], Key[u]) : u \in {x \in Uploads : file[x] # None}}
    \cup {drive_shard_folder_metadata(f, Key[Wanted]) : f \in folders} \cup OtherFiles

ShardFolders == {f.id : f \in drive_shard_folder_lookup_query(OnDrive, Key[Wanted])}

(* What Drive has of an object is a prefix of it.                          *)
Got(u) == Cardinality(DOMAIN received[u])
NoBytes == [i \in {} |-> i]

(* The requests on a session: a chunk with its range, or a probe           *)
Chunk(from, bytes) == [kind |-> "chunk", from |-> from, bytes |-> bytes]
Probe == [kind |-> "probe"]

(* A lookup: whether it is in the root, in the folders of the shard or at  *)
(* an end, the folders left, the ids found, and whether the object was on  *)
(* Drive when it began.                                                    *)
NoLookUp == [at |-> "none", todo |-> {}, found |-> {}, had |-> FALSE]

Init ==
  /\ folders = {} /\ session = [u \in Uploads |-> "none"]
  /\ received = [u \in Uploads |-> NoBytes]
  /\ file = [u \in Uploads |-> None] /\ late = [u \in Uploads |-> {}]
  /\ pc = [u \in Uploads |-> "folder"]
  /\ parent = [u \in Uploads |-> None]
  /\ offset = [u \in Uploads |-> 0]
  /\ attempts = [u \in Uploads |-> 0]
  /\ request = [u \in Uploads |-> None] /\ reply = [u \in Uploads |-> None]
  /\ find = NoLookUp

Goto(u, phase) == pc' = [pc EXCEPT ![u] = phase]

(* The upload returns, and its local variables are gone.                   *)
End(u, phase) ==
  /\ Goto(u, phase)
  /\ offset' = [offset EXCEPT ![u] = 0] /\ attempts' = [attempts EXCEPT ![u] = 0]

-----------------------------------------------------------------------------
(* upload_parent_folder_id: the first folder of the shard, or a new one     *)
FindFolder(u) ==
  /\ pc[u] = "folder"
  /\ IF ShardFolders = {} THEN Goto(u, "makeFolder") /\ UNCHANGED parent
     ELSE parent' = [parent EXCEPT ![u] = Min(ShardFolders)] /\ Goto(u, "initiate")
  /\ UNCHANGED <<drive, late, offset, attempts, request, reply, find>>

(* Drive makes a folder of that name whether or not there is one.          *)
MakeFolder(u) ==
  /\ pc[u] = "makeFolder"
  /\ \E f \in Folders \ folders :
       /\ folders' = folders \cup {f}
       /\ \/ parent' = [parent EXCEPT ![u] = f] /\ Goto(u, "initiate")
          \/ Goto(u, "failed") /\ UNCHANGED parent  \* the answer is lost
  /\ UNCHANGED <<session, received, file, late, offset, attempts, request, reply, find>>

Initiate(u) ==
  /\ pc[u] = "initiate"
  /\ session' = [session EXCEPT ![u] = "open"]
  /\ Goto(u, "send")
  /\ UNCHANGED <<folders, received, file, late, client, request, reply, find>>

(* Until the session is open an error of any kind ends the upload, and so  *)
(* does a staged file that cannot be read.                                 *)
StepFails(u) ==
  /\ pc[u] \in {"folder", "makeFolder", "initiate", "send"}
  /\ End(u, "failed")
  /\ UNCHANGED <<drive, late, parent, request, reply, find>>

-----------------------------------------------------------------------------
(* mutant: the staged file is read from the last whole chunk               *)
SeekToChunk(u) == offset[u] - (offset[u] % ChunkSize)

SeekTo(u) == offset[u]

(* read_drive_upload_chunk, and the request that carries the chunk         *)
SendChunk(u) ==
  /\ pc[u] = "send"
  /\ LET from == offset[u]
         length == Min({Size[u] - from, ChunkSize})
     IN request' = [request EXCEPT ![u] =
          Chunk(from, [i \in from .. from + length - 1 |-> SeekTo(u) + i - from])]
  /\ Goto(u, "await")
  /\ UNCHANGED <<drive, late, client, reply, find>>

RecoverAgain(u) ==  \* mutant: the attempts are not counted
  /\ pc[u] = "recover"
  /\ request' = [request EXCEPT ![u] = Probe]
  /\ Goto(u, "await")
  /\ UNCHANGED <<drive, late, client, reply, find>>

(* recover_drive_resumable_upload: one more probe, or the last error       *)
Recover(u) ==
  /\ pc[u] = "recover"
  /\ IF attempts[u] >= MaxRecovery
     THEN End(u, "failed") /\ UNCHANGED request
     ELSE /\ attempts' = [attempts EXCEPT ![u] = @ + 1] /\ UNCHANGED offset
          /\ request' = [request EXCEPT ![u] = Probe]
          /\ Goto(u, "await")
  /\ UNCHANGED <<drive, late, parent, reply, find>>

(* The request is given up, and Drive may yet act on it.                   *)
GiveUp(u) ==
  /\ request' = [request EXCEPT ![u] = None]
  /\ reply' = [reply EXCEPT ![u] = None]
  /\ late' = IF /\ pc[u] = "await" /\ reply[u] = None
                /\ request[u].kind = "chunk" /\ session[u] = "open"
             THEN [late EXCEPT ![u] = @ \cup {request[u]}] ELSE late
  /\ UNCHANGED <<drive, parent, find>>

(* The idle timeout has passed, or the transport failed.                   *)
Timeout(u) ==
  /\ pc[u] = "await"
  /\ GiveUp(u) /\ Goto(u, "recover")
  /\ UNCHANGED <<offset, attempts>>

(* The client of the server leaves and the upload's future is dropped.     *)
Drop(u) ==
  /\ pc[u] \notin Ended
  /\ GiveUp(u) /\ End(u, "failed")

-----------------------------------------------------------------------------
(* The client reads the answer                                             *)

(* parse_drive_resumable_upload_response is told how far Drive can be: at  *)
(* the end of the chunk, or anywhere for a probe.                          *)
MaximumOffset(u) ==
  IF request[u].kind = "probe" THEN Size[u]
  ELSE request[u].from + Cardinality(DOMAIN request[u].bytes)

(* mutant: the last byte is taken for the offset that follows it           *)
PossibleLastByte(u, next) ==
  next = 0 \/ (next < MaximumOffset(u) /\ next < Size[u])

(* parse_drive_resumable_upload_offset: no Range header stands for 0       *)
Possible(u, next) ==
  next = 0 \/ (next <= MaximumOffset(u) /\ next < Size[u])

Committed(u, next) == next

(* The loop of upload_verified_object, after a chunk or a recovery         *)
Progress(u, next) ==
  \/ /\ ~Possible(u, next) \/ next < offset[u]
     /\ End(u, "refused")
  \/ /\ Possible(u, next) /\ next > offset[u]
     /\ offset' = [offset EXCEPT ![u] = Committed(u, next)]
     /\ attempts' = [attempts EXCEPT ![u] = 0]
     /\ Goto(u, "send")
  \/ /\ Possible(u, next) /\ next = offset[u] /\ attempts[u] >= MaxRecovery
     /\ End(u, "failed")
  \/ /\ Possible(u, next) /\ next = offset[u] /\ attempts[u] < MaxRecovery
     /\ attempts' = [attempts EXCEPT ![u] = @ + 1]
     /\ Goto(u, "send") /\ UNCHANGED offset

Receive(u) ==
  /\ pc[u] = "await" /\ reply[u] # None
  /\ CASE reply[u].kind = "incomplete" -> Progress(u, reply[u].next)
       [] reply[u].kind = "complete" -> End(u, "done")
       [] reply[u].kind = "retry" -> Goto(u, "recover") /\ UNCHANGED <<offset, attempts>>
       [] reply[u].kind = "error" -> End(u, "failed")
  /\ request' = [request EXCEPT ![u] = None]
  /\ reply' = [reply EXCEPT ![u] = None]
  /\ UNCHANGED <<drive, late, parent, find>>

-----------------------------------------------------------------------------
(* Drive                                                                   *)

(* A chunk that starts within what Drive has: Drive keeps what it has and  *)
(* adds as much of the rest as it likes.  Chunks that arrive once it has   *)
(* the file change nothing.                                                *)
Extend(u, chunk, others) ==
  \E n \in Got(u) .. Max({Got(u), chunk.from + Cardinality(DOMAIN chunk.bytes)}) :
    /\ received' = [received EXCEPT ![u] =
         [i \in 0 .. n - 1 |-> IF i < Got(u) THEN @[i] ELSE chunk.bytes[i]]]
    /\ IF n = Size[u]
       THEN /\ session' = [session EXCEPT ![u] = "whole"]
            /\ file' = [file EXCEPT ![u] = parent[u]]
            /\ late' = [late EXCEPT ![u] = {}]
       ELSE late' = [late EXCEPT ![u] = others] /\ UNCHANGED <<session, file>>

Incomplete(next) == [kind |-> "incomplete", next |-> next]

(* Drive acts on the request in time and answers it: with the file once it *)
(* is whole, with 308 and what it has until then, and with 404, which the  *)
(* client retries, when it has forgotten the session.                      *)
Serve(u) ==
  /\ pc[u] = "await" /\ reply[u] = None
  /\ IF request[u].kind = "chunk" /\ session[u] = "open" THEN Extend(u, request[u], late[u])
     ELSE UNCHANGED <<received, session, file, late>>
  /\ reply' = [reply EXCEPT ![u] =
       CASE session'[u] = "whole" -> [kind |-> "complete"]
         [] session'[u] = "open" -> Incomplete(Cardinality(DOMAIN received'[u]))
         [] session'[u] = "gone" -> [kind |-> "retry"]]
  /\ UNCHANGED <<folders, pc, client, request, find>>

(* 429 and 5xx are retried, what else Drive may answer is not.             *)
Reject(u) ==
  /\ pc[u] = "await" /\ reply[u] = None
  /\ \E kind \in {"retry", "error"} : reply' = [reply EXCEPT ![u] = [kind |-> kind]]
  /\ UNCHANGED <<drive, late, pc, client, request, find>>

(* A chunk arrives after the client has given it up, or never.             *)
Late(u) ==
  /\ \E chunk \in late[u] : LET others == late[u] \ {chunk} IN
       \/ Extend(u, chunk, others)
       \/ late' = [late EXCEPT ![u] = others] /\ UNCHANGED <<received, session, file>>
  /\ UNCHANGED <<folders, pc, client, request, reply, find>>

(* Drive forgets a session; one whose client has returned is not missed.   *)
Expire(u) ==
  /\ session[u] = "open" /\ pc[u] \notin Ended
  /\ session' = [session EXCEPT ![u] = "gone"]
  /\ received' = [received EXCEPT ![u] = NoBytes]
  /\ late' = [late EXCEPT ![u] = {}]
  /\ UNCHANGED <<folders, file, pc, client, request, reply, find>>

-----------------------------------------------------------------------------
(* lookup_object: the root folder is searched first, where no upload puts  *)
(* files but old ones may be, then each folder of the shard.               *)

FirstOf(set) == IF set = {} THEN {} ELSE {Min(set)}  \* mutant: as an upload does

EveryOf(set) == set

(* lookup_objects_in_parent: an answer that is not what was asked for ends *)
(* the lookup.                                                             *)
Search(parentId, at, todo) ==
  LET answers == drive_object_lookup_query(OnDrive, parentId, Key[Wanted])
  IN  find' = IF \E f \in answers : verify_drive_object_file(f, Key[Wanted]) # "Ok"
              THEN NoLookUp
              ELSE [find EXCEPT !.at = at, !.todo = todo,
                                !.found = @ \cup {f.id : f \in answers},
                                !.had = IF find.at = "none" THEN file[Wanted] # None ELSE @]

SearchRoot ==
  /\ find.at = "none" /\ Search(Root, "root", {})
  /\ UNCHANGED <<drive, late, pc, client, request, reply>>

(* lookup_shard_folder_ids                                                 *)
ListFolders ==
  /\ find.at = "root"
  /\ find' = [find EXCEPT !.at = IF ShardFolders = {} THEN "end" ELSE "folders",
                          !.todo = EveryOf(ShardFolders)]
  /\ UNCHANGED <<drive, late, pc, client, request, reply>>

SearchFolder ==
  /\ find.at = "folders"
  /\ LET f == Min(find.todo) IN
       Search(f, IF find.todo = {f} THEN "end" ELSE "folders", find.todo \ {f})
  /\ UNCHANGED <<drive, late, pc, client, request, reply>>

(* lookup_object_by_backend_id: an id that may be of any file on Drive     *)
ResolveId(id) ==
  /\ find.at = "none"
  /\ LET result == lookup_object_by_backend_id(OnDrive, id, Key[Wanted]) IN
       /\ ~result.error
       /\ find' = [find EXCEPT !.at = "end", !.found = result.found]
  /\ UNCHANGED <<drive, late, pc, client, request, reply>>

(* The lookup returns: its smallest id, or an error of any request.        *)
LookUpReturns ==
  /\ find.at # "none"
  /\ find' = NoLookUp
  /\ UNCHANGED <<drive, late, pc, client, request, reply>>

-----------------------------------------------------------------------------
(* Every request to Drive has a timeout, so the client's steps are fair;   *)
(* nothing is expected of Drive, and no client has to leave.               *)
ClientStep(u) ==
  \/ FindFolder(u) \/ MakeFolder(u) \/ Initiate(u) \/ StepFails(u)
  \/ SendChunk(u) \/ Recover(u) \/ Timeout(u) \/ Receive(u)

DriveStep(u) == Serve(u) \/ Reject(u) \/ Late(u) \/ Expire(u)

Next ==
  \/ \E u \in Uploads : ClientStep(u) \/ DriveStep(u) \/ Drop(u)
  \/ SearchRoot \/ ListFolders \/ SearchFolder \/ LookUpReturns
  \/ \E f \in OnDrive : ResolveId(f.id)

Spec == Init /\ [][Next]_vars

FairSpec == Spec /\ \A u \in Uploads : WF_vars(ClientStep(u))

-----------------------------------------------------------------------------
Bytes(u) == 0 .. Size[u] - 1

OnTheWay(u) ==
  late[u] \cup {r \in {request[u]} : pc[u] = "await" /\ r.kind = "chunk"}

(* Types, and what the phases say: an upload waits exactly while a request *)
(* is on its way, Drive has a prefix, and no chunk leaves a gap after it.   *)
TypeOK ==
  /\ folders \subseteq Folders
  /\ session \in [Uploads -> {"none", "open", "whole", "gone"}]
  /\ file \in [Uploads -> Folders \cup {None}]
  /\ pc \in [Uploads -> Phases]
  /\ parent \in [Uploads -> Folders \cup {None}]
  /\ \A u \in Uploads :
       /\ DOMAIN received[u] = 0 .. Got(u) - 1 /\ Got(u) <= Size[u]
       /\ offset[u] \in 0 .. Size[u]
       /\ attempts[u] \in 0 .. MaxRecovery
       /\ session[u] = "open" =>
            \A c \in OnTheWay(u) : c.from <= Got(u) /\ DOMAIN c.bytes \subseteq Bytes(u)
       /\ (request[u] # None) <=> (pc[u] = "await")
       /\ reply[u] # None => pc[u] = "await"

(* A file appears on Drive only with the bytes of the staged object, each  *)
(* at its place, whatever was sent twice, cut short or delivered late; and *)
(* an upload that succeeds has a file.                                     *)
WholeObject ==
  \A u \in Uploads :
    /\ file[u] # None => received[u] = [i \in Bytes(u) |-> i]
    /\ pc[u] = "done" => file[u] # None

(* The client's checks of Drive's Range header never reject an honest      *)
(* Drive: not after a partial chunk, not when a chunk it gave up arrives   *)
(* between the probe and the next chunk.                                   *)
NoFalseAlarm == \A u \in Uploads : pc[u] # "refused"

(* A lookup that ends has found the object if it was on Drive when it      *)
(* began, although uploads that raced may have made the shard's folder     *)
(* twice; and whatever else lies in the folders under such names, it finds *)
(* only what holds that object of that repository and is not in the trash. *)
SearchComplete ==
  find.at = "end" =>
    /\ find.had => FileId[Wanted] \in find.found
    /\ \A f \in OnDrive : f.id \in find.found => f.of = Key[Wanted] /\ ~f.trashed

(* Each upload comes to an end, however Drive answers: an attempt either   *)
(* commits bytes or uses one of the recovery attempts.                     *)
Termination == \A u \in Uploads : <>(pc[u] \in Ended)
=============================================================================

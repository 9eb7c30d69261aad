--------------------------- MODULE StagedDownload ---------------------------
(***************************************************************************)
(* The bytes of a download.  A provider that can stream hands Drive's      *)
(* answer on chunk by chunk and hashes it as it goes by; for any other     *)
(* provider the object is put in a temporary file, verified, and only then *)
(* sent.  Drive may answer with the bytes of another content, break off,   *)
(* or have lost the file; meanwhile uploads record files of the object in  *)
(* its row, and clients leave.                                             *)
(***************************************************************************)
EXTENDS Naturals, Sequences, FiniteSets, FiniteSetsExt

CONSTANTS
  Downloads,   \* downloads of one object
  Streaming,   \* those that a streaming provider serves
  Length,      \* the chunks of the object
  Files,       \* the ids that Drive gives to files of the object
  Nothing

ASSUME DownloadAssumption ==
  /\ Streaming \subseteq Downloads /\ Length \in Nat \ {0}
  /\ Files \subseteq Nat /\ Nothing \notin Files

VARIABLES
  live,     \* the files of the object on Drive
  gone,     \* those that were there once
  record,   \* the object's row: [id, status], or Nothing
  step,     \* step[d]: where download d is
  read,     \* read[d]: the row it read
  source,   \* source[d]: the file it downloads
  chunks,   \* chunks[d]: what it has received of the file, each right or wrong
  onDisk,   \* onDisk[d]: its files in the temp directory, each with its chunks
  sent      \* sent[d]: what its client has received
world == <<live, gone, record>>
downloadVars == <<world, step, read, source, chunks, onDisk, sent>>

(* The temporary file of the response, and the one that is renamed to it.  *)
Destination == "destination"
Beside == "beside"

Over == {"idle", "done", "failed", "cut", "left", "leaked"}

(* What runs on a thread of its own goes on when its download is dropped.  *)
Orphan == [missing |-> "orphan missing", reconcile |-> "orphan reconcile",
           copy |-> "orphan copy", rename |-> "orphan rename"]
Threads == {"missing", "reconcile", "copy", "rename"}
Orphans == {Orphan[place] : place \in Threads}
Whole == [i \in 1..Length |-> "right"]

DownloadInit ==
  /\ live = {} /\ gone = {} /\ record = Nothing
  /\ step = [d \in Downloads |-> "idle"]
  /\ read = [d \in Downloads |-> Nothing] /\ source = [d \in Downloads |-> Nothing]
  /\ chunks = [d \in Downloads |-> <<>>] /\ sent = [d \in Downloads |-> <<>>]
  /\ onDisk = [d \in Downloads |-> <<>>]

Go(d, place) == step' = [step EXCEPT ![d] = place]

QuitKeepingFiles(d, place) ==   \* mutant: the path of the temporary file is kept
  /\ Go(d, place)
  /\ chunks' = [chunks EXCEPT ![d] = <<>>] /\ UNCHANGED onDisk

(* The future of the download is gone, and with it what it owns: an open   *)
(* file that has no name, and the temporary file.                          *)
Quit(d, place) ==
  /\ Go(d, place)
  /\ chunks' = [chunks EXCEPT ![d] = <<>>] /\ onDisk' = [onDisk EXCEPT ![d] = <<>>]
Fail(d) == Quit(d, "failed")

Without(files, f) == [g \in DOMAIN files \ {f} |-> files[g]]
With(files, f, content) == [g \in DOMAIN files \cup {f} |-> IF g = f THEN content ELSE files[g]]

-----------------------------------------------------------------------------
(* staged_download_response                                                *)

Begin(d) ==
  /\ step[d] = "idle"
  /\ read' = [read EXCEPT ![d] = record]
  /\ Go(d, IF d \in Streaming THEN "lookup" ELSE "temp")
  /\ UNCHANGED <<world, source, chunks, onDisk, sent>>

MakeTemp(d) ==
  /\ step[d] = "temp"
  /\ \/ /\ Go(d, "lookup") /\ UNCHANGED chunks
        /\ onDisk' = [onDisk EXCEPT ![d] = With(<<>>, Destination, <<>>)]
     \/ Fail(d)
  /\ UNCHANGED <<world, read, source, sent>>

(* mark_object_stale_async: the row, if it is still of the id that was     *)
(* read, though the file that is gone may be another one of the object.    *)
MarkStale(d) ==
  IF record # Nothing /\ read[d] # Nothing /\ record.id = read[d].id
  THEN [record EXCEPT !.status = "stale"] ELSE record

(* The file of the row, if the provider can ask for an id and it is there, *)
(* and otherwise the one with the smallest id.                             *)
Found(d) ==
  IF d \in Streaming /\ read[d] # Nothing /\ read[d].id \in live
  THEN read[d].id ELSE Min(live)

(* A streamed download mends the row before the file is opened, a staged   *)
(* one when it has the bytes.                                              *)
Find(d) ==
  /\ step[d] = "lookup"
  /\ IF live # {} THEN /\ source' = [source EXCEPT ![d] = Found(d)]
                       /\ Go(d, IF d \in Streaming THEN "reconcile" ELSE "open")
                  ELSE Go(d, "missing") /\ UNCHANGED source
  /\ UNCHANGED <<world, read, chunks, onDisk, sent>>

Missing(d) ==
  /\ step[d] \in {"missing", "orphan missing"}
  /\ record' = MarkStale(d)
  /\ Quit(d, IF step[d] = "missing" THEN "failed" ELSE "left")
  /\ UNCHANGED <<live, gone, read, source, sent>>

(* download_object_to_verified_file: the answer is a success of the length *)
(* that the object has, or an error.  To a staged download a file that is  *)
(* gone by now is as good as one that was not found.                       *)
OpenMedia(d) ==
  /\ step[d] = "open"
  /\ IF source[d] \in live THEN Go(d, "receive") /\ UNCHANGED <<chunks, onDisk>>
     ELSE IF d \in Streaming THEN Fail(d)
     ELSE Go(d, "missing") /\ UNCHANGED <<chunks, onDisk>>
  /\ UNCHANGED <<world, read, source, sent>>

(* Any error of Drive, of the database or of the disk.                     *)
Error(d) ==
  /\ step[d] \in {"lookup", "missing", "open", "receive", "copy", "rename", "reconcile", "body"}
  /\ Fail(d)
  /\ UNCHANGED <<world, read, source, sent>>

(* A direct stream passes each chunk on as it comes; the client has what   *)
(* the Content-Length promised when the last one is sent.                  *)
Receive(d) ==
  /\ step[d] = "receive" /\ Len(chunks[d]) < Length
  /\ \E chunk \in {"right", "wrong"} : chunks' = [chunks EXCEPT ![d] = Append(@, chunk)]
  /\ sent' = [sent EXCEPT ![d] = IF d \in Streaming THEN chunks'[d] ELSE @]
  /\ UNCHANGED <<world, step, read, source, onDisk>>

VerifiedLength(d) == Len(chunks[d]) = Length   \* mutant: the hash is not compared

Verified(d) == chunks[d] = Whole

Verify(d) ==
  /\ step[d] = "receive" /\ Len(chunks[d]) = Length
  /\ CASE Verified(d) /\ d \notin Streaming -> Go(d, "copy") /\ UNCHANGED <<chunks, onDisk>>
       [] Verified(d) /\ d \in Streaming -> Quit(d, "done")
       [] OTHER -> Quit(d, IF d \in Streaming THEN "cut" ELSE "failed")
  /\ UNCHANGED <<world, read, source, sent>>

(* Drive breaks off: the client sees a response that is too short.         *)
Break(d) ==
  /\ step[d] = "receive" /\ d \in Streaming
  /\ Quit(d, "cut")
  /\ UNCHANGED <<world, read, source, sent>>

(* persist_verified_drive_download_file, on a thread of its own: it goes   *)
(* on if the client leaves.                                                *)
Copy(d) ==
  /\ step[d] \in {"copy", "orphan copy"}
  /\ onDisk' = [onDisk EXCEPT ![d] = With(@, Beside, Whole)]
  /\ Go(d, IF step[d] = "copy" THEN "rename" ELSE Orphan["rename"])
  /\ UNCHANGED <<world, read, source, chunks, sent>>

Rename(d) ==
  /\ step[d] \in {"rename", "orphan rename"}
  /\ onDisk' = [onDisk EXCEPT ![d] = With(Without(@, Beside), Destination, @[Beside])]
  /\ Go(d, IF step[d] = "rename" THEN "reconcile" ELSE "leaked")
  /\ UNCHANGED <<world, read, source, chunks, sent>>

OrphanFails(d) ==
  /\ step[d] \in Orphans
  /\ Quit(d, "left")
  /\ UNCHANGED <<world, read, source, sent>>

(* The row that was read, if any, is made to name the file that was found. *)
Reconcile(d) ==
  /\ step[d] \in {"reconcile", "orphan reconcile"}
  /\ record' = IF /\ read[d] # Nothing
                  /\ read[d].id # source[d] \/ read[d].status # "verified"
               THEN [id |-> source[d], status |-> "verified"] ELSE record
  /\ Go(d, IF step[d] = "orphan reconcile" THEN "left"
           ELSE IF d \in Streaming THEN "open" ELSE "body")
  /\ UNCHANGED <<live, gone, read, source, chunks, onDisk, sent>>

(* The temporary file is opened by its name, and goes with the body.       *)
OpenBody(d) ==
  /\ step[d] = "body"
  /\ chunks' = [chunks EXCEPT ![d] = onDisk[d][Destination]]
  /\ Go(d, "send")
  /\ UNCHANGED <<world, read, source, onDisk, sent>>

SendChunk(d) ==
  /\ step[d] = "send"
  /\ IF Len(sent[d]) < Len(chunks[d])
     THEN /\ sent' = [sent EXCEPT ![d] = Append(@, chunks[d][Len(@) + 1])]
          /\ UNCHANGED <<step, chunks, onDisk>>
     ELSE Quit(d, "done") /\ UNCHANGED sent
  /\ UNCHANGED <<world, read, source>>

(* The client goes away, and the temporary file with its download.         *)
Disconnect(d) ==
  /\ step[d] \notin Over \cup Orphans
  /\ IF step[d] \in Threads
     THEN /\ Go(d, Orphan[step[d]])
          /\ chunks' = [chunks EXCEPT ![d] = <<>>]
          /\ onDisk' = [onDisk EXCEPT ![d] = Without(@, Destination)]
     ELSE Quit(d, "left")
  /\ UNCHANGED <<world, read, source, sent>>

-----------------------------------------------------------------------------
(* An upload of the object makes a file and records it; a file is deleted. *)
Store ==
  /\ \E f \in Files \ (live \cup gone) :
       live' = live \cup {f} /\ record' = [id |-> f, status |-> "verified"]
  /\ UNCHANGED <<gone, step, read, source, chunks, onDisk, sent>>

Delete ==
  /\ \E f \in live : live' = live \ {f} /\ gone' = gone \cup {f}
  /\ UNCHANGED <<record, step, read, source, chunks, onDisk, sent>>

DownloadNext ==
  \/ \E d \in Downloads :
       \/ Begin(d) \/ MakeTemp(d) \/ Find(d) \/ Missing(d) \/ OpenMedia(d) \/ Error(d)
       \/ Receive(d) \/ Verify(d) \/ Break(d) \/ Copy(d) \/ Rename(d) \/ OrphanFails(d)
       \/ Reconcile(d) \/ OpenBody(d) \/ SendChunk(d) \/ Disconnect(d)
  \/ Store \/ Delete

-----------------------------------------------------------------------------
(* Of a staged download a client never receives a byte that is not the     *)
(* object's.  A streamed one is sent as it comes; it ends without an error *)
(* only if it was the object, though its client may have all by then.      *)
ServedWhole ==
  \A d \in Downloads :
    /\ d \notin Streaming => \A i \in DOMAIN sent[d] : sent[d][i] = "right"
    /\ step[d] = "done" => sent[d] = Whole

(* When a download is over nothing of it is in the temp directory, except  *)
(* if its client left while the verified file was being put there.         *)
TempGone == \A d \in Downloads : step[d] \in Over \ {"leaked"} => onDisk[d] = <<>>
=============================================================================

----------------------- MODULE ResumableUploadProofs -----------------------
(* Theorems about the resumable upload, for every number of uploads, every *)
(* size of object and chunk, and every order of partial commits, lost      *)
(* answers and chunks that arrive after they were given up; and of lookups *)
(* that run meanwhile, among whatever other files there are on Drive.      *)
EXTENDS ResumableUpload, FiniteSetTheorems, TLAPS

----------------------------------------------------------------------------
(* What Drive has and what is sent, as the proofs cite them.               *)

(* The first n bytes of an object, and m of them from an offset on.        *)
FirstBytes(n) == [i \in 0 .. n - 1 |-> i]
Piece(from, m) == Chunk(from, [i \in from .. from + m - 1 |-> i])

(* The chunk an upload sends next.                                         *)
Length(u) == Min({Size[u] - offset[u], ChunkSize})
NextChunk(u) == Piece(offset[u], Length(u))

Early == {"folder", "makeFolder", "initiate"}

----------------------------------------------------------------------------
(* The inductive invariant, by its parts, for one upload.                  *)

(* Drive has a prefix of the object and makes the file when it has all of  *)
(* it; only an open session is waited for by chunks that were given up.    *)
DriveInv(u) ==
  /\ session[u] \in {"none", "open", "whole", "gone"}
  /\ Got(u) \in 0 .. Size[u] /\ received[u] = FirstBytes(Got(u))
  /\ file[u] # None => session[u] = "whole" /\ Got(u) = Size[u]
  /\ session[u] = "whole" => file[u] # None
  /\ session[u] = "none" => Got(u) = 0
  /\ session[u] = "open" => Got(u) < Size[u] \/ Got(u) = 0
  /\ late[u] # {} => session[u] = "open"

(* The upload has a session from its first chunk on, and a folder.         *)
PhaseInv(u) ==
  /\ pc[u] \in Phases /\ pc[u] # "refused"
  /\ pc[u] \in Early => session[u] = "none"
  /\ session[u] = "none" => pc[u] \in Early \cup {"failed"}
  /\ pc[u] = "initiate" \/ session[u] # "none" => parent[u] # None
  /\ pc[u] = "done" => session[u] = "whole"
  /\ offset[u] \in 0 .. Size[u] /\ (pc[u] \in Early => offset[u] = 0)

(* What was given up starts within what Drive has, and neither it nor what *)
(* Drive has ends beyond the chunk that the client would send now.         *)
ChunksInv(u) ==
  session[u] = "open" =>
    /\ pc[u] \notin Ended => offset[u] <= Got(u) /\ Got(u) <= offset[u] + ChunkSize
    /\ \A c \in late[u] : \E from \in 0 .. Size[u], m \in 0 .. ChunkSize :
         /\ c = Piece(from, m) /\ from + m <= Size[u] /\ from <= Got(u)
         /\ pc[u] \notin Ended => from <= offset[u]

(* The request on its way is the next chunk or a probe, and an answer to   *)
(* it is one that an honest Drive gives.                                   *)
RequestInv(u) ==
  /\ pc[u] = "await" => request[u] = Probe \/ request[u] = NextChunk(u)
  /\ reply[u] # None =>
       /\ pc[u] = "await"
       /\ \/ reply[u] = [kind |-> "complete"] /\ session[u] = "whole"
          \/ reply[u] = [kind |-> "retry"] \/ reply[u] = [kind |-> "error"]
          \/ \E next \in 0 .. Size[u] :
               /\ reply[u] = Incomplete(next)
               /\ Possible(u, next) /\ offset[u] <= next
               /\ session[u] = "open" => next <= Got(u)

UploadInv(u) == DriveInv(u) /\ PhaseInv(u) /\ ChunksInv(u) /\ RequestInv(u)

(* Each variable has an entry for each upload.                             *)
Shape ==
  /\ session = [u \in Uploads |-> session[u]] /\ received = [u \in Uploads |-> received[u]]
  /\ file = [u \in Uploads |-> file[u]] /\ late = [u \in Uploads |-> late[u]]
  /\ pc = [u \in Uploads |-> pc[u]] /\ parent = [u \in Uploads |-> parent[u]]
  /\ offset = [u \in Uploads |-> offset[u]] /\ attempts = [u \in Uploads |-> attempts[u]]
  /\ request = [u \in Uploads |-> request[u]] /\ reply = [u \in Uploads |-> reply[u]]

IInv == Shape /\ folders \subseteq Folders /\ \A u \in Uploads : UploadInv(u)

----------------------------------------------------------------------------
(* The constants, intervals of bytes and smallest members.                 *)

LEMMA Constants ==
  /\ \A u \in Uploads : Size[u] \in Nat /\ FileId[u] \in Nat
  /\ ChunkSize \in Nat /\ ChunkSize > 0 /\ MaxRecovery \in Nat
  /\ Folders \subseteq Nat /\ None \notin Nat
  /\ \A f \in OtherFiles : f.id \in Nat
<1>1. \A u \in Uploads : Key[u].size \in Nat
  BY ResumableUploadAssumption DEF Keys
<1> QED
  BY <1>1, ResumableUploadAssumption DEF Size

LEMMA Pair ==
  ASSUME NEW a \in Nat, NEW b \in Nat
  PROVE  /\ Min({a, b}) = IF a <= b THEN a ELSE b
         /\ Max({a, b}) = IF a <= b THEN b ELSE a
<1>1. ASSUME NEW m \in {a, b}, \A y \in {a, b} : m <= y PROVE m = IF a <= b THEN a ELSE b
  BY <1>1
<1>2. ASSUME NEW m \in {a, b}, \A y \in {a, b} : m >= y PROVE m = IF a <= b THEN b ELSE a
  BY <1>2
<1>3. \E m \in {a, b} : \A y \in {a, b} : m <= y
  OBVIOUS
<1>4. \E m \in {a, b} : \A y \in {a, b} : m >= y
  OBVIOUS
<1>5. Min({a, b}) \in {a, b} /\ \A y \in {a, b} : Min({a, b}) <= y
  BY <1>3 DEF Min
<1>6. Max({a, b}) \in {a, b} /\ \A y \in {a, b} : Max({a, b}) >= y
  BY <1>4 DEF Max
<1> QED
  BY <1>1, <1>2, <1>5, <1>6

LEMMA Counted ==
  ASSUME NEW a \in Nat, NEW m \in Nat
  PROVE  Cardinality(a .. a + m - 1) = m
  BY FS_Interval

LEMMA FirstBytesCounted ==
  ASSUME NEW n \in Nat
  PROVE  DOMAIN FirstBytes(n) = 0 .. n - 1 /\ Cardinality(DOMAIN FirstBytes(n)) = n
<1>1. Cardinality(0 .. 0 + n - 1) = n
  BY Counted
<1> QED
  BY <1>1 DEF FirstBytes

LEMMA NothingGot == NoBytes = FirstBytes(0) /\ Cardinality(DOMAIN NoBytes) = 0
<1>1. 0 .. 0 - 1 = {}
  OBVIOUS
<1>2. NoBytes = FirstBytes(0)
  BY <1>1 DEF NoBytes, FirstBytes
<1> QED
  BY <1>2, FirstBytesCounted

LEMMA PieceParts ==
  ASSUME NEW from \in Nat, NEW m \in Nat
  PROVE  /\ Piece(from, m).kind = "chunk" /\ Piece(from, m).from = from
         /\ DOMAIN Piece(from, m).bytes = from .. from + m - 1
         /\ Cardinality(DOMAIN Piece(from, m).bytes) = m
         /\ \A i \in from .. from + m - 1 : Piece(from, m).bytes[i] = i
<1>1. Cardinality(from .. from + m - 1) = m
  BY Counted
<1> QED
  BY <1>1 DEF Piece, Chunk

(* The smallest of some ids, and the ids of the shard's folders.           *)
LEMMA SmallestOf == ASSUME NEW S \in SUBSET Nat, S # {} PROVE Min(S) \in S
<1>1. PICK m \in S : \A y \in S : <<y, m>> \notin OpToRel(<, Nat)
  BY NatLessThanWellFounded, WFMin
<1>2. \A y \in Nat : y < m => <<y, m>> \in OpToRel(<, Nat)
  BY DEF OpToRel
<1>3. \A y \in S : ~ (y < m) /\ y \in Nat /\ m \in Nat
  BY <1>1, <1>2
<1>4. \A y \in S : m <= y
  BY <1>3
<1> QED
  BY <1>4 DEF Min

LEMMA ShardFolderIds == ASSUME folders \subseteq Folders PROVE ShardFolders \subseteq Nat
<1>1. \A f \in OnDrive : f.id \in Nat
  BY Constants DEF OnDrive, drive_upload_metadata, drive_shard_folder_metadata
<1> QED
  BY <1>1 DEF ShardFolders, drive_shard_folder_lookup_query

(* An upload's folder is one of Drive's, whoever made it.                  *)
LEMMA FolderNamed ==
  ASSUME folders \subseteq Folders, ShardFolders # {}
  PROVE  Min(ShardFolders) # None
  BY ShardFolderIds, SmallestOf, Constants

----------------------------------------------------------------------------
(* The steps of an upload leave the others alone.                          *)

Same(v) ==
  /\ session'[v] = session[v] /\ received'[v] = received[v] /\ file'[v] = file[v]
  /\ late'[v] = late[v] /\ pc'[v] = pc[v] /\ parent'[v] = parent[v]
  /\ offset'[v] = offset[v] /\ request'[v] = request[v] /\ reply'[v] = reply[v]

StepOf(u) ==
  /\ Shape' /\ folders' \subseteq Folders
  /\ \A v \in Uploads : v # u => Same(v)

LEMMA SameKept == ASSUME NEW v \in Uploads, UploadInv(v), Same(v) PROVE UploadInv(v)'
<1>1. DriveInv(v)'
  BY DEF UploadInv, DriveInv, Same, Got
<1>2. PhaseInv(v)'
  BY DEF UploadInv, PhaseInv, Same
<1>3. ChunksInv(v)'
  BY DEF UploadInv, ChunksInv, Same, Got
<1>4. RequestInv(v)'
  BY DEF UploadInv, RequestInv, Same, Got, NextChunk, Length, Possible, MaximumOffset
<1> QED
  BY <1>1, <1>2, <1>3, <1>4 DEF UploadInv

LEMMA OthersKept ==
  ASSUME IInv, NEW u \in Uploads, StepOf(u), UploadInv(u)' PROVE IInv'
<1>1. \A v \in Uploads : v # u => UploadInv(v)'
  BY SameKept DEF IInv, StepOf
<1> QED
  BY <1>1 DEF IInv, StepOf

(* Drive's bytes grow: it keeps what it has and takes from a chunk that    *)
(* starts within that and carries the object's own bytes.                  *)
LEMMA Extended ==
  ASSUME Shape, NEW u \in Uploads, DriveInv(u), session[u] = "open", parent[u] # None,
         NEW from \in Nat, NEW m \in Nat, from <= Got(u), from + m <= Size[u],
         NEW others \in SUBSET late[u], Extend(u, Piece(from, m), others)
  PROVE  /\ DriveInv(u)' /\ Got(u)' >= Got(u)
         /\ Got(u)' <= Got(u) \/ Got(u)' <= from + m
         /\ session'[u] \in {"open", "whole"}
         /\ late'[u] \subseteq others
         /\ \A v \in Uploads : v # u =>
              /\ session'[v] = session[v] /\ received'[v] = received[v]
              /\ file'[v] = file[v] /\ late'[v] = late[v]
         /\ session' = [v \in Uploads |-> session'[v]]
         /\ received' = [v \in Uploads |-> received'[v]]
         /\ file' = [v \in Uploads |-> file'[v]] /\ late' = [v \in Uploads |-> late'[v]]
<1> DEFINE g == Got(u)
           top == Max({g, from + m})
<1>1. g \in Nat /\ g <= Size[u] /\ Size[u] \in Nat /\ received[u] = FirstBytes(g)
  BY Constants DEF DriveInv
<1>2. top = IF g <= from + m THEN from + m ELSE g
  <2> DEFINE b == from + m
  <2>1. b \in Nat
    OBVIOUS
  <2> HIDE DEF g, b
  <2>2. Max({g, b}) = IF g <= b THEN b ELSE g
    BY <1>1, <2>1, Pair
  <2> QED
    BY <2>2 DEF b
<1>3. PICK n \in g .. top :
        /\ received' = [received EXCEPT ![u] =
             [i \in 0 .. n - 1 |-> IF i < g THEN @[i] ELSE Piece(from, m).bytes[i]]]
        /\ IF n = Size[u]
           THEN /\ session' = [session EXCEPT ![u] = "whole"]
                /\ file' = [file EXCEPT ![u] = parent[u]]
                /\ late' = [late EXCEPT ![u] = {}]
           ELSE late' = [late EXCEPT ![u] = others] /\ UNCHANGED <<session, file>>
  <2>1. Piece(from, m).from = from /\ Cardinality(DOMAIN Piece(from, m).bytes) = m
    BY PieceParts
  <2> QED
    BY <2>1, Zenon DEF Extend
<1> HIDE DEF g, top
<1>4. n \in Nat /\ g <= n /\ n <= Size[u] /\ (n <= g \/ n <= from + m)
  BY <1>1, <1>2, <1>3
<1>5. [i \in 0 .. n - 1 |-> IF i < g THEN received[u][i] ELSE Piece(from, m).bytes[i]]
        = FirstBytes(n)
  <2> SUFFICES ASSUME NEW i \in 0 .. n - 1
               PROVE  (IF i < g THEN received[u][i] ELSE Piece(from, m).bytes[i]) = i
    BY DEF FirstBytes
  <2>1. CASE i < g
    BY <1>1, <2>1 DEF FirstBytes
  <2>2. CASE ~(i < g)
    <3>1. i \in from .. from + m - 1
      BY <1>1, <1>4, <2>2 DEF g
    <3> QED
      BY <2>2, <3>1, PieceParts
  <2> QED
    BY <2>1, <2>2
<1>6. received'[u] = FirstBytes(n) /\ \A v \in Uploads : v # u => received'[v] = received[v]
  BY <1>3, <1>5 DEF Shape
<1>7. Got(u)' = n
  BY <1>4, <1>6, FirstBytesCounted DEF Got
<1>8. received' = [v \in Uploads |-> received'[v]]
  BY <1>3 DEF Shape
<1>9. /\ session' = [v \in Uploads |-> session'[v]]
      /\ file' = [v \in Uploads |-> file'[v]] /\ late' = [v \in Uploads |-> late'[v]]
      /\ \A v \in Uploads : v # u => /\ session'[v] = session[v] /\ file'[v] = file[v]
                                     /\ late'[v] = late[v]
      /\ IF n = Size[u]
         THEN session'[u] = "whole" /\ file'[u] = parent[u] /\ late'[u] = {}
         ELSE session'[u] = "open" /\ file'[u] = file[u] /\ late'[u] = others
  BY <1>3 DEF Shape
<1>10. DriveInv(u)'
  BY <1>1, <1>4, <1>6, <1>7, <1>9 DEF DriveInv
<1> QED
  BY <1>1, <1>4, <1>6, <1>7, <1>8, <1>9, <1>10 DEF g

----------------------------------------------------------------------------
(* The steps of an upload towards its session.                             *)

LEMMA EarlyStep ==
  ASSUME IInv, NEW u \in Uploads, FindFolder(u) \/ MakeFolder(u) \/ Initiate(u)
  PROVE  IInv'
<1> USE DEF Goto
<1>1. UploadInv(u) /\ Shape /\ folders \subseteq Folders
  BY DEF IInv
<1>2. CASE FindFolder(u)
  <2>1. /\ pc[u] = "folder" /\ pc'[u] \in {"makeFolder", "initiate"}
        /\ pc'[u] = "initiate" => parent'[u] # None
        /\ UNCHANGED <<session, received, file, late, offset, request, reply>>
    BY <1>1, <1>2, FolderNamed DEF FindFolder, drive, Shape
  <2>2. StepOf(u)
    BY <1>1, <1>2 DEF FindFolder, drive, Shape, StepOf, Same
  <2>3. UploadInv(u)'
    BY <1>1, <2>1
    DEF UploadInv, DriveInv, PhaseInv, ChunksInv, RequestInv, Got, Early, Phases, Ended
  <2> QED
    BY <2>2, <2>3, OthersKept
<1>3. CASE MakeFolder(u)
  <2>1. PICK f \in Folders \ folders :
          /\ folders' = folders \cup {f}
          /\ \/ parent' = [parent EXCEPT ![u] = f] /\ pc' = [pc EXCEPT ![u] = "initiate"]
             \/ pc' = [pc EXCEPT ![u] = "failed"] /\ UNCHANGED parent
    BY <1>3 DEF MakeFolder
  <2>2. /\ pc[u] = "makeFolder" /\ pc'[u] \in {"failed", "initiate"}
        /\ pc'[u] = "initiate" => parent'[u] # None
        /\ UNCHANGED <<session, received, file, late, offset, attempts, request, reply>>
    BY <1>1, <1>3, <2>1, Constants DEF MakeFolder, Shape
  <2>3. StepOf(u)
    BY <1>1, <2>1, <2>2 DEF Shape, StepOf, Same
  <2>4. UploadInv(u)'
    BY <1>1, <2>2
    DEF UploadInv, DriveInv, PhaseInv, ChunksInv, RequestInv, Got, Early, Phases, Ended
  <2> QED
    BY <2>3, <2>4, OthersKept
<1>4. CASE Initiate(u)
  <2>1. /\ pc[u] = "initiate" /\ pc'[u] = "send" /\ session'[u] = "open"
        /\ UNCHANGED <<received, file, late, parent, offset, request, reply>>
    BY <1>1, <1>4 DEF Initiate, client, Shape
  <2>2. StepOf(u)
    BY <1>1, <1>4 DEF Initiate, client, Shape, StepOf, Same
  <2>3. Got(u) = 0 /\ offset[u] = 0 /\ late[u] = {} /\ file[u] = None
    BY <1>1, <2>1 DEF UploadInv, DriveInv, PhaseInv, Early
  <2>4. UploadInv(u)'
    BY <1>1, <2>1, <2>3, Constants
    DEF UploadInv, DriveInv, PhaseInv, ChunksInv, RequestInv, Got, Early, Phases, Ended
  <2> QED
    BY <2>2, <2>4, OthersKept
<1> QED
  BY <1>2, <1>3, <1>4

(* An upload that ends leaves to Drive what is on its way.                 *)
LEMMA EndKept ==
  ASSUME NEW u \in Uploads, UploadInv(u), pc'[u] \in {"failed", "done"}, offset'[u] = 0,
         pc'[u] = "done" => session[u] = "whole", reply'[u] = None,
         session'[u] = session[u], received'[u] = received[u], file'[u] = file[u],
         parent'[u] = parent[u], late'[u] = late[u]
  PROVE  UploadInv(u)'
<1>1. DriveInv(u)'
  BY DEF UploadInv, DriveInv, Got
<1>2. PhaseInv(u)'
  BY Constants DEF UploadInv, PhaseInv, Phases, Ended, Early, DriveInv
<1>3. ChunksInv(u)'
  BY DEF UploadInv, ChunksInv, Got, Ended
<1>4. RequestInv(u)'
  BY DEF RequestInv
<1> QED
  BY <1>1, <1>2, <1>3, <1>4 DEF UploadInv

LEMMA FailStep ==
  ASSUME IInv, NEW u \in Uploads, StepFails(u) PROVE IInv'
<1>1. UploadInv(u) /\ Shape /\ folders \subseteq Folders
  BY DEF IInv
<1>2. StepOf(u)
  BY <1>1 DEF StepFails, End, Goto, drive, Shape, StepOf, Same
<1>3. reply[u] = None
  BY <1>1 DEF StepFails, UploadInv, RequestInv
<1>4. UploadInv(u)'
  BY <1>1, <1>3, EndKept DEF StepFails, End, Goto, drive, Shape
<1> QED
  BY <1>2, <1>4, OthersKept

LEMMA SendStep ==
  ASSUME IInv, NEW u \in Uploads, SendChunk(u) PROVE IInv'
<1>1. UploadInv(u) /\ Shape /\ folders \subseteq Folders
  BY DEF IInv
<1>2. StepOf(u)
  BY <1>1 DEF SendChunk, Goto, drive, client, Shape, StepOf, Same
<1>3. request'[u] = NextChunk(u)
  <2> DEFINE from == offset[u]
             length == Length(u)
  <2>1. request'[u] = Chunk(from, [i \in from .. from + length - 1 |-> SeekTo(u) + i - from])
    BY <1>1 DEF SendChunk, Shape, Length
  <2>2. from \in Nat
    BY <1>1 DEF UploadInv, PhaseInv
  <2>3. [i \in from .. from + length - 1 |-> SeekTo(u) + i - from]
          = [i \in from .. from + length - 1 |-> i]
    BY <2>2 DEF SeekTo
  <2> QED
    BY <2>1, <2>3 DEF NextChunk, Piece
<1>4. /\ pc[u] = "send" /\ pc'[u] = "await"
      /\ UNCHANGED <<session, received, file, late, parent, offset, reply>>
  BY <1>1 DEF SendChunk, Goto, drive, client, Shape
<1>5. NextChunk(u)' = NextChunk(u)
  BY <1>4 DEF NextChunk, Length
<1>6. UploadInv(u)'
  BY <1>1, <1>3, <1>4, <1>5
  DEF UploadInv, DriveInv, PhaseInv, ChunksInv, RequestInv, Got, Early, Phases, Ended
<1> QED
  BY <1>2, <1>6, OthersKept

LEMMA RecoverStep ==
  ASSUME IInv, NEW u \in Uploads, Recover(u) PROVE IInv'
<1>1. UploadInv(u) /\ Shape /\ folders \subseteq Folders
  BY DEF IInv
<1>2. StepOf(u)
  BY <1>1 DEF Recover, End, Goto, drive, Shape, StepOf, Same
<1>3. pc[u] = "recover" /\ reply[u] = None
  BY <1>1 DEF Recover, UploadInv, RequestInv
<1>4. CASE attempts[u] >= MaxRecovery
  <2>1. UploadInv(u)'
    BY <1>1, <1>3, <1>4, EndKept DEF Recover, End, Goto, drive, Shape
  <2> QED
    BY <1>2, <2>1, OthersKept
<1>5. CASE ~(attempts[u] >= MaxRecovery)
  <2>1. /\ pc'[u] = "await" /\ request'[u] = Probe
        /\ UNCHANGED <<session, received, file, late, parent, offset, reply>>
    BY <1>1, <1>5 DEF Recover, Goto, drive, Shape
  <2>2. UploadInv(u)'
    BY <1>1, <1>3, <2>1
    DEF UploadInv, DriveInv, PhaseInv, ChunksInv, RequestInv, Got, Early, Phases, Ended
  <2> QED
    BY <1>2, <2>2, OthersKept
<1> QED
  BY <1>4, <1>5

LEMMA LengthBounds ==
  ASSUME NEW u \in Uploads, PhaseInv(u)
  PROVE  /\ Length(u) \in 0 .. ChunkSize /\ offset[u] \in Nat
         /\ offset[u] + Length(u) <= Size[u]
         /\ offset[u] + Length(u) = Size[u] \/ Length(u) = ChunkSize
<1> DEFINE left == Size[u] - offset[u]
<1>1. offset[u] \in 0 .. Size[u] /\ Size[u] \in Nat
  BY Constants DEF PhaseInv
<1>2. left \in Nat /\ ChunkSize \in Nat /\ offset[u] + left = Size[u]
  BY <1>1, Constants
<1> HIDE DEF left
<1>3. Min({left, ChunkSize}) = IF left <= ChunkSize THEN left ELSE ChunkSize
  BY <1>2, Pair
<1>4. Length(u) = IF left <= ChunkSize THEN left ELSE ChunkSize
  BY <1>3 DEF Length, left
<1> QED
  BY <1>1, <1>2, <1>4

(* What the client gives up keeps within the bounds of what it would send. *)
LEMMA GiveUpStep ==
  ASSUME IInv, NEW u \in Uploads, Timeout(u) \/ Drop(u) PROVE IInv'
<1>1. UploadInv(u) /\ Shape /\ folders \subseteq Folders
  BY DEF IInv
<1>2. StepOf(u)
  BY <1>1 DEF Timeout, Drop, GiveUp, End, Goto, drive, Shape, StepOf, Same
<1>3. /\ UNCHANGED <<session, received, file, parent>> /\ reply'[u] = None
      /\ pc[u] \notin Ended
      /\ \/ pc[u] = "await" /\ pc'[u] = "recover" /\ offset'[u] = offset[u]
         \/ pc'[u] = "failed" /\ offset'[u] = 0
  BY <1>1 DEF Timeout, Drop, GiveUp, End, Goto, drive, Shape, Ended
<1>4. \/ late'[u] = late[u]
      \/ late'[u] = late[u] \cup {NextChunk(u)} /\ pc[u] = "await" /\ session[u] = "open"
  <2>1. pc[u] = "await" => request[u] = Probe \/ request[u] = NextChunk(u)
    BY <1>1 DEF UploadInv, RequestInv
  <2>2. Probe.kind # "chunk"
    BY DEF Probe
  <2> QED
    BY <1>1, <2>1, <2>2 DEF Timeout, Drop, GiveUp, Shape
<1>5. DriveInv(u)'
  BY <1>1, <1>3, <1>4 DEF UploadInv, DriveInv, Got
<1>6. PhaseInv(u)'
  BY <1>1, <1>3, Constants DEF UploadInv, PhaseInv, Phases, Ended, Early
<1>7. ChunksInv(u)'
  <2> SUFFICES ASSUME session[u] = "open"
               PROVE  /\ pc'[u] \notin Ended =>
                           offset'[u] <= Got(u) /\ Got(u) <= offset'[u] + ChunkSize
                      /\ \A c \in late'[u] : \E from \in 0 .. Size[u], m \in 0 .. ChunkSize :
                           /\ c = Piece(from, m) /\ from + m <= Size[u] /\ from <= Got(u)
                           /\ pc'[u] \notin Ended => from <= offset'[u]
    BY <1>3 DEF ChunksInv, Got
  <2>1. /\ offset[u] <= Got(u) /\ Got(u) <= offset[u] + ChunkSize
        /\ \A c \in late[u] : \E from \in 0 .. Size[u], m \in 0 .. ChunkSize :
             /\ c = Piece(from, m) /\ from + m <= Size[u] /\ from <= Got(u)
             /\ from <= offset[u]
    BY <1>1, <1>3 DEF UploadInv, ChunksInv
  <2>2. /\ Length(u) \in 0 .. ChunkSize /\ offset[u] + Length(u) <= Size[u]
        /\ offset[u] \in 0 .. Size[u]
    BY <1>1, LengthBounds DEF UploadInv, PhaseInv
  <2>3. pc'[u] \notin Ended => offset'[u] = offset[u]
    BY <1>3 DEF Ended
  <2>4. ASSUME NEW c \in late[u]
        PROVE  \E from \in 0 .. Size[u], m \in 0 .. ChunkSize :
                 /\ c = Piece(from, m) /\ from + m <= Size[u] /\ from <= Got(u)
                 /\ pc'[u] \notin Ended => from <= offset'[u]
    BY <2>1, <2>3
  <2>5. ASSUME NEW c, c = NextChunk(u)
        PROVE  \E from \in 0 .. Size[u], m \in 0 .. ChunkSize :
                 /\ c = Piece(from, m) /\ from + m <= Size[u] /\ from <= Got(u)
                 /\ pc'[u] \notin Ended => from <= offset'[u]
    BY <2>1, <2>2, <2>3, <2>5 DEF NextChunk
  <2> QED
    BY <1>4, <2>1, <2>3, <2>4, <2>5
<1>8. RequestInv(u)'
  BY <1>3 DEF RequestInv
<1> QED
  BY <1>2, <1>5, <1>6, <1>7, <1>8, OthersKept DEF UploadInv

(* How far Drive can be, by what it was sent.                              *)
LEMMA MaximumOffsets ==
  ASSUME NEW u \in Uploads, PhaseInv(u), request[u] = Probe \/ request[u] = NextChunk(u)
  PROVE  \/ request[u] = Probe /\ MaximumOffset(u) = Size[u]
         \/ request[u] = NextChunk(u) /\ MaximumOffset(u) = offset[u] + Length(u)
<1>1. CASE request[u] = Probe
  BY <1>1 DEF MaximumOffset, Probe
<1>2. CASE request[u] = NextChunk(u)
  <2>1. Length(u) \in Nat /\ offset[u] \in Nat
    BY LengthBounds, Constants
  <2>2. /\ NextChunk(u).kind = "chunk" /\ NextChunk(u).from = offset[u]
        /\ Cardinality(DOMAIN NextChunk(u).bytes) = Length(u)
    BY <2>1, PieceParts DEF NextChunk
  <2>3. "chunk" # "probe"
    OBVIOUS
  <2> QED
    BY <1>2, <2>2, <2>3 DEF MaximumOffset
<1> QED
  BY <1>1, <1>2

(* An honest answer is never refused: it makes progress or it does not.    *)
LEMMA ReceiveStep ==
  ASSUME IInv, NEW u \in Uploads, Receive(u) PROVE IInv'
<1>1. UploadInv(u) /\ Shape /\ folders \subseteq Folders
  BY DEF IInv
<1>2. /\ pc[u] = "await" /\ reply[u] # None /\ reply'[u] = None
      /\ UNCHANGED <<folders, session, received, file, late, parent>>
      /\ request' = [v \in Uploads |-> request'[v]] /\ reply' = [v \in Uploads |-> reply'[v]]
      /\ \A v \in Uploads : v # u => request'[v] = request[v] /\ reply'[v] = reply[v]
  BY <1>1 DEF Receive, drive, Shape
<1>3. ASSUME NEW phase \in {"done", "failed"}, End(u, phase),
             phase = "done" => session[u] = "whole"
      PROVE  IInv'
  <2>1. StepOf(u)
    BY <1>1, <1>2, <1>3 DEF End, Goto, Shape, StepOf, Same
  <2>2. UploadInv(u)'
    BY <1>1, <1>2, <1>3, EndKept DEF End, Goto, Shape
  <2> QED
    BY <2>1, <2>2, OthersKept
<1>4. ASSUME Goto(u, "recover"), UNCHANGED <<offset, attempts>> PROVE IInv'
  <2>1. StepOf(u)
    BY <1>1, <1>2, <1>4 DEF Goto, Shape, StepOf, Same
  <2>2. UploadInv(u)'
    BY <1>1, <1>2, <1>4
    DEF UploadInv, DriveInv, PhaseInv, ChunksInv, RequestInv, Got, Early, Phases, Ended,
        Goto, Shape
  <2> QED
    BY <2>1, <2>2, OthersKept
<1>5. ASSUME NEW next \in 0 .. Size[u], reply[u] = Incomplete(next), Possible(u, next),
             offset[u] <= next, session[u] = "open" => next <= Got(u), Progress(u, next)
      PROVE  IInv'
  <2>1. offset[u] \in Nat /\ next \in Nat /\ ChunkSize \in Nat /\ Got(u) \in Nat
    BY <1>1, Constants DEF UploadInv, PhaseInv, DriveInv
  <2>2. CASE End(u, "failed")
    BY <1>3, <2>2
  <2>3. CASE /\ Goto(u, "send") /\ attempts' = [v \in Uploads |-> attempts'[v]]
             /\ offset' = [offset EXCEPT ![u] = next]
    <3>1. StepOf(u)
      BY <1>1, <1>2, <2>3 DEF Goto, Shape, StepOf, Same
    <3>2. pc'[u] = "send" /\ offset'[u] = next
      BY <1>1, <2>3 DEF Goto, Shape
    <3>3. DriveInv(u)'
      BY <1>1, <1>2 DEF UploadInv, DriveInv, Got
    <3>4. PhaseInv(u)'
      BY <1>1, <1>2, <3>2 DEF UploadInv, PhaseInv, Phases, Ended, Early
    <3>5. ChunksInv(u)'
      <4>1. ASSUME session[u] = "open"
            PROVE  next <= Got(u) /\ Got(u) <= next + ChunkSize
        BY <1>1, <1>2, <1>5, <2>1, <4>1 DEF UploadInv, ChunksInv, Ended
      <4>2. ASSUME NEW from \in Nat, from <= offset[u] PROVE from <= next
        BY <1>5, <2>1, <4>2
      <4> QED
        BY <1>1, <1>2, <3>2, <4>1, <4>2 DEF UploadInv, ChunksInv, Got, Ended
    <3>6. RequestInv(u)'
      BY <1>2, <3>2 DEF RequestInv
    <3> QED
      BY <3>1, <3>3, <3>4, <3>5, <3>6, OthersKept DEF UploadInv
  <2>4. \/ End(u, "failed")
        \/ /\ Goto(u, "send") /\ attempts' = [v \in Uploads |-> attempts'[v]]
           /\ offset' = [offset EXCEPT ![u] = next]
    <3>1. ~(~Possible(u, next) \/ next < offset[u])
      BY <1>5, <2>1
    <3>2. CASE /\ next > offset[u] /\ offset' = [offset EXCEPT ![u] = Committed(u, next)]
               /\ attempts' = [attempts EXCEPT ![u] = 0] /\ Goto(u, "send")
      BY <1>1, <3>2 DEF Committed, Shape
    <3>3. CASE /\ next = offset[u] /\ UNCHANGED offset
               /\ attempts' = [attempts EXCEPT ![u] = @ + 1] /\ Goto(u, "send")
      BY <1>1, <3>3 DEF Shape
    <3> QED
      BY <1>5, <3>1, <3>2, <3>3 DEF Progress
  <2> QED
    BY <2>2, <2>3, <2>4
<1>6. CASE reply[u] = [kind |-> "complete"] /\ session[u] = "whole"
  BY <1>3, <1>6 DEF Receive
<1>7. CASE reply[u] = [kind |-> "retry"]
  BY <1>4, <1>7 DEF Receive
<1>8. CASE reply[u] = [kind |-> "error"]
  BY <1>3, <1>8 DEF Receive
<1>9. ASSUME NEW next \in 0 .. Size[u], reply[u] = Incomplete(next), Possible(u, next),
             offset[u] <= next, session[u] = "open" => next <= Got(u)
      PROVE  IInv'
  <2>1. reply[u].kind = "incomplete" /\ reply[u].next = next
    BY <1>9 DEF Incomplete
  <2>2. Progress(u, next)
    BY <2>1 DEF Receive
  <2> QED
    BY <1>5, <1>9, <2>2
<1> QED
  BY <1>1, <1>2, <1>6, <1>7, <1>8, <1>9 DEF UploadInv, RequestInv

----------------------------------------------------------------------------
(* The steps of Drive.                                                     *)

LEMMA SessionKnown ==
  ASSUME NEW u \in Uploads, UploadInv(u), pc[u] = "await"
  PROVE  session[u] \in {"open", "whole", "gone"} /\ parent[u] # None
  BY DEF UploadInv, DriveInv, PhaseInv, Early

(* Bytes that arrive in time are told of as they are.                      *)
LEMMA ServeStep ==
  ASSUME IInv, NEW u \in Uploads, Serve(u) PROVE IInv'
<1>1. UploadInv(u) /\ Shape /\ folders \subseteq Folders
  BY DEF IInv
<1>2. /\ pc[u] = "await" /\ reply[u] = None
      /\ UNCHANGED <<folders, pc, parent, offset, attempts, request, find>>
  BY DEF Serve, client
<1>3. parent[u] # None /\ session[u] \in {"open", "whole", "gone"}
  BY <1>1, <1>2, SessionKnown
<1>4. /\ offset[u] \in Nat /\ Length(u) \in 0 .. ChunkSize
      /\ offset[u] + Length(u) <= Size[u] /\ Size[u] \in Nat /\ ChunkSize \in Nat
      /\ offset[u] + Length(u) = Size[u] \/ Length(u) = ChunkSize
  BY <1>1, LengthBounds, Constants DEF UploadInv
<1>5. \/ request[u] = Probe /\ MaximumOffset(u) = Size[u]
      \/ request[u] = NextChunk(u) /\ MaximumOffset(u) = offset[u] + Length(u)
  BY <1>1, <1>2, MaximumOffsets DEF UploadInv, RequestInv
<1>6. session[u] = "open" => /\ offset[u] <= Got(u) /\ Got(u) <= offset[u] + ChunkSize
                             /\ Got(u) \in 0 .. Size[u] /\ (Got(u) < Size[u] \/ Got(u) = 0)
  BY <1>1, <1>2 DEF UploadInv, DriveInv, ChunksInv, Ended
<1>7. reply'[u] = CASE session'[u] = "whole" -> [kind |-> "complete"]
                    [] session'[u] = "open" -> Incomplete(Cardinality(DOMAIN received'[u]))
                    [] session'[u] = "gone" -> [kind |-> "retry"]
  BY <1>1 DEF Serve, Shape
<1>8. /\ reply' = [v \in Uploads |-> reply'[v]]
      /\ \A v \in Uploads : v # u => reply'[v] = reply[v]
  <2>1. PICK r : reply' = [reply EXCEPT ![u] = r]
    BY DEF Serve
  <2> QED
    BY <1>1, <2>1 DEF Shape
(* What Drive has after the request, and how far that is.                  *)
<1>9. /\ DriveInv(u)' /\ session'[u] \in {"open", "whole", "gone"}
      /\ session'[u] = "open" =>
           /\ session[u] = "open" /\ Got(u)' >= Got(u)
           /\ \/ Got(u)' <= Got(u)
              \/ Got(u)' <= offset[u] + Length(u) /\ request[u] = NextChunk(u)
      /\ late'[u] \subseteq late[u]
      /\ \A v \in Uploads : v # u =>
           /\ session'[v] = session[v] /\ received'[v] = received[v]
           /\ file'[v] = file[v] /\ late'[v] = late[v]
      /\ session' = [v \in Uploads |-> session'[v]]
      /\ received' = [v \in Uploads |-> received'[v]]
      /\ file' = [v \in Uploads |-> file'[v]] /\ late' = [v \in Uploads |-> late'[v]]
  <2>1. CASE request[u].kind = "chunk" /\ session[u] = "open"
    <3>1. request[u] = NextChunk(u)
      <4>1. Probe.kind # "chunk"
        BY DEF Probe
      <4> QED
        BY <1>5, <2>1, <4>1
    <3>2. Extend(u, Piece(offset[u], Length(u)), late[u])
      BY <2>1, <3>1 DEF Serve, NextChunk
    <3>3. Length(u) \in Nat
      BY <1>4
    <3>4. DriveInv(u)
      BY <1>1 DEF UploadInv
    <3> QED
      BY <1>1, <1>3, <1>4, <1>6, <2>1, <3>1, <3>2, <3>3, <3>4, Extended
  <2>2. CASE ~(request[u].kind = "chunk" /\ session[u] = "open")
    <3>1. UNCHANGED <<received, session, file, late>>
      BY <2>2 DEF Serve
    <3>2. Got(u)' = Got(u) /\ Got(u) \in Nat
      BY <1>1, <3>1 DEF Got, UploadInv, DriveInv
    <3> QED
      BY <1>1, <1>3, <3>1, <3>2 DEF UploadInv, DriveInv, Shape
  <2> QED
    BY <2>1, <2>2
<1>10. Got(u)' \in 0 .. Size[u]
  BY <1>9 DEF DriveInv
<1>11. PhaseInv(u)'
  BY <1>1, <1>2, <1>3, <1>9 DEF UploadInv, PhaseInv, Early, Ended
<1>12. ASSUME session'[u] = "open"
       PROVE  /\ offset[u] <= Got(u)' /\ Got(u)' <= offset[u] + ChunkSize
              /\ Got(u)' <= offset[u] + Length(u)
  BY <1>4, <1>6, <1>9, <1>10, <1>12
<1>13. ChunksInv(u)'
  <2>1. ASSUME session'[u] = "open", NEW c \in late'[u]
        PROVE  \E from \in 0 .. Size[u], m \in 0 .. ChunkSize :
                 /\ c = Piece(from, m) /\ from + m <= Size[u] /\ from <= Got(u)'
                 /\ pc[u] \notin Ended => from <= offset[u]
    <3>1. PICK from \in 0 .. Size[u], m \in 0 .. ChunkSize :
            /\ c = Piece(from, m) /\ from + m <= Size[u] /\ from <= Got(u)
            /\ pc[u] \notin Ended => from <= offset[u]
      BY <1>1, <1>9, <2>1 DEF UploadInv, ChunksInv
    <3>2. from <= Got(u)'
      BY <1>6, <1>9, <1>10, <2>1, <3>1
    <3> QED
      BY <3>1, <3>2
  <2> QED
    BY <1>2, <1>12, <2>1 DEF ChunksInv
<1>14. RequestInv(u)'
  <2>1. request'[u] = request[u] /\ NextChunk(u)' = NextChunk(u)
    BY <1>2 DEF NextChunk, Length
  <2>2. CASE session'[u] = "whole"
    BY <1>1, <1>2, <1>7, <2>1, <2>2 DEF UploadInv, RequestInv
  <2>3. CASE session'[u] = "gone"
    BY <1>1, <1>2, <1>7, <2>1, <2>3 DEF UploadInv, RequestInv
  <2>4. CASE session'[u] = "open"
    <3>0. PICK next \in 0 .. Size[u] : next = Got(u)'
      BY <1>10
    <3>1. reply'[u] = Incomplete(next)
      BY <1>7, <2>4, <3>0 DEF Got
    <3>2. next \in 0 .. Size[u] /\ offset[u] <= next /\ next <= offset[u] + Length(u)
      BY <1>12, <2>4, <3>0
    <3>3. next < Size[u] \/ next = 0
      BY <1>9, <2>4, <3>0 DEF DriveInv
    <3>4. next <= MaximumOffset(u)
      BY <1>5, <3>2, <1>4
    <3>5. Possible(u, next)' <=> Possible(u, next)
      BY <1>2 DEF Possible, MaximumOffset
    <3>6. Possible(u, next)
      BY <3>3, <3>4 DEF Possible
    <3>7. Incomplete(next)' = Incomplete(next)
      BY DEF Incomplete
    <3>8. Possible(u, next)' /\ next <= Got(u)'
      BY <3>0, <3>2, <3>5, <3>6
    <3> QED
      BY <1>1, <1>2, <2>1, <3>1, <3>2, <3>8 DEF UploadInv, RequestInv
  <2> QED
    BY <1>9, <2>2, <2>3, <2>4
<1>15. StepOf(u)
  BY <1>1, <1>2, <1>8, <1>9 DEF StepOf, Shape, Same
<1> QED
  BY <1>9, <1>11, <1>13, <1>14, <1>15, OthersKept DEF UploadInv

LEMMA RejectStep ==
  ASSUME IInv, NEW u \in Uploads, Reject(u) PROVE IInv'
<1>1. UploadInv(u) /\ Shape /\ folders \subseteq Folders
  BY DEF IInv
<1>2. /\ pc[u] = "await" /\ UNCHANGED <<drive, late, pc, client, request>>
      /\ reply'[u] \in {[kind |-> "retry"], [kind |-> "error"]}
  BY <1>1 DEF Reject, Shape
<1>3. StepOf(u)
  BY <1>1 DEF Reject, drive, client, Shape, StepOf, Same
<1>4. DriveInv(u)' /\ PhaseInv(u)' /\ ChunksInv(u)'
  BY <1>1, <1>2 DEF UploadInv, DriveInv, PhaseInv, ChunksInv, Got, drive, client
<1>5. RequestInv(u)'
  BY <1>1, <1>2 DEF UploadInv, RequestInv, NextChunk, Length, client
<1> QED
  BY <1>3, <1>4, <1>5, OthersKept DEF UploadInv

(* A late chunk brings no more than the client would send now.             *)
LEMMA LateStep ==
  ASSUME IInv, NEW u \in Uploads, Late(u) PROVE IInv'
<1>1. UploadInv(u) /\ Shape /\ folders \subseteq Folders
  BY DEF IInv
<1>2. PICK chunk \in late[u] :
        \/ Extend(u, chunk, late[u] \ {chunk})
        \/ /\ late' = [late EXCEPT ![u] = late[u] \ {chunk}]
           /\ UNCHANGED <<received, session, file>>
  BY DEF Late
<1>3. UNCHANGED <<folders, pc, parent, offset, attempts, request, reply>>
  BY DEF Late, client
<1>4. session[u] = "open" /\ DriveInv(u) /\ parent[u] # None
  BY <1>1, <1>2 DEF UploadInv, DriveInv, PhaseInv
<1>5. PICK from \in 0 .. Size[u], m \in 0 .. ChunkSize :
        /\ chunk = Piece(from, m) /\ from + m <= Size[u] /\ from <= Got(u)
        /\ pc[u] \notin Ended => from <= offset[u]
  BY <1>1, <1>2, <1>4 DEF UploadInv, ChunksInv
<1>6. /\ from \in Nat /\ m \in Nat /\ m <= ChunkSize /\ ChunkSize \in Nat
      /\ Got(u) \in Nat /\ offset[u] \in Nat
  BY <1>1, <1>4, <1>5, Constants DEF DriveInv, UploadInv, PhaseInv
<1>7. /\ DriveInv(u)' /\ Got(u)' >= Got(u) /\ session'[u] \in {"open", "whole"}
      /\ Got(u)' <= Got(u) \/ Got(u)' <= from + m
      /\ late'[u] \subseteq late[u]
      /\ \A v \in Uploads : v # u =>
           /\ session'[v] = session[v] /\ received'[v] = received[v]
           /\ file'[v] = file[v] /\ late'[v] = late[v]
      /\ session' = [v \in Uploads |-> session'[v]]
      /\ received' = [v \in Uploads |-> received'[v]]
      /\ file' = [v \in Uploads |-> file'[v]] /\ late' = [v \in Uploads |-> late'[v]]
  <2>1. CASE Extend(u, chunk, late[u] \ {chunk})
    BY <1>1, <1>4, <1>5, <1>6, <2>1, Extended
  <2>2. CASE /\ late' = [late EXCEPT ![u] = late[u] \ {chunk}]
             /\ UNCHANGED <<received, session, file>>
    <3>1. Got(u)' = Got(u)
      BY <2>2 DEF Got
    <3>2. /\ late' = [v \in Uploads |-> late'[v]] /\ late'[u] = late[u] \ {chunk}
          /\ \A v \in Uploads : v # u => late'[v] = late[v]
      BY <1>1, <2>2 DEF Shape
    <3>3. DriveInv(u)'
      BY <1>4, <2>2, <3>1, <3>2 DEF DriveInv
    <3> QED
      BY <1>1, <1>4, <1>6, <2>2, <3>1, <3>2, <3>3 DEF Shape
  <2> QED
    BY <1>2, <2>1, <2>2
<1>8. Got(u)' \in Nat
  BY <1>7 DEF DriveInv
<1>9. PhaseInv(u)'
  BY <1>1, <1>3, <1>4, <1>7 DEF UploadInv, PhaseInv, Early
<1>10. ChunksInv(u)'
  <2>1. ASSUME pc[u] \notin Ended
        PROVE  offset[u] <= Got(u)' /\ Got(u)' <= offset[u] + ChunkSize
    <3>1. offset[u] <= Got(u) /\ Got(u) <= offset[u] + ChunkSize /\ from <= offset[u]
      BY <1>1, <1>4, <1>5, <2>1 DEF UploadInv, ChunksInv
    <3> QED
      BY <1>6, <1>7, <1>8, <3>1
  <2>2. ASSUME NEW c \in late'[u]
        PROVE  \E f \in 0 .. Size[u], k \in 0 .. ChunkSize :
                 /\ c = Piece(f, k) /\ f + k <= Size[u] /\ f <= Got(u)'
                 /\ pc[u] \notin Ended => f <= offset[u]
    <3>1. PICK f \in 0 .. Size[u], k \in 0 .. ChunkSize :
            /\ c = Piece(f, k) /\ f + k <= Size[u] /\ f <= Got(u)
            /\ pc[u] \notin Ended => f <= offset[u]
      BY <1>1, <1>4, <1>7, <2>2 DEF UploadInv, ChunksInv
    <3>2. f <= Got(u)'
      BY <1>6, <1>7, <1>8, <3>1
    <3> QED
      BY <3>1, <3>2
  <2> QED
    BY <1>3, <2>1, <2>2 DEF ChunksInv
<1>11. RequestInv(u)'
  <2>1. \A next : Possible(u, next)' <=> Possible(u, next)
    BY <1>3 DEF Possible, MaximumOffset
  <2>2. \A next \in 0 .. Size[u] : next <= Got(u) => next <= Got(u)'
    BY <1>6, <1>7, <1>8
  <2>3. NextChunk(u)' = NextChunk(u)
    BY <1>3 DEF NextChunk, Length
  <2>4. pc[u] = "await" => request[u] = Probe \/ request[u] = NextChunk(u)
    BY <1>1 DEF UploadInv, RequestInv
  <2>5. reply[u] # None =>
          /\ pc[u] = "await"
          /\ \/ reply[u] = [kind |-> "retry"] \/ reply[u] = [kind |-> "error"]
             \/ \E next \in 0 .. Size[u] :
                  /\ reply[u] = Incomplete(next)
                  /\ Possible(u, next) /\ offset[u] <= next /\ next <= Got(u)
    BY <1>1, <1>4 DEF UploadInv, RequestInv
  <2>6. ASSUME NEW next \in 0 .. Size[u], Possible(u, next), next <= Got(u)
        PROVE  Possible(u, next)' /\ next <= Got(u)'
    BY <2>1, <2>2, <2>6
  <2> QED
    BY <1>3, <2>3, <2>4, <2>5, <2>6 DEF RequestInv, Incomplete
<1>12. StepOf(u)
  BY <1>1, <1>3, <1>7 DEF StepOf, Shape, Same
<1> QED
  BY <1>7, <1>9, <1>10, <1>11, <1>12, OthersKept DEF UploadInv

LEMMA ExpireStep ==
  ASSUME IInv, NEW u \in Uploads, Expire(u) PROVE IInv'
<1>1. UploadInv(u) /\ Shape /\ folders \subseteq Folders
  BY DEF IInv
<1>2. /\ session[u] = "open" /\ session'[u] = "gone" /\ late'[u] = {}
      /\ received'[u] = FirstBytes(0) /\ pc[u] \notin Ended
      /\ UNCHANGED <<file, pc, parent, offset, request, reply>>
  BY <1>1, NothingGot DEF Expire, client, Shape
<1>3. StepOf(u)
  BY <1>1 DEF Expire, client, Shape, StepOf, Same
<1>4. Got(u)' = 0
  BY <1>2, FirstBytesCounted DEF Got
<1>5. DriveInv(u)'
  BY <1>1, <1>2, <1>4, Constants DEF UploadInv, DriveInv
<1>6. PhaseInv(u)' /\ ChunksInv(u)'
  BY <1>1, <1>2 DEF UploadInv, PhaseInv, ChunksInv, Ended, Early
<1>7. RequestInv(u)'
  <2>1. \A next : Possible(u, next)' <=> Possible(u, next)
    BY <1>2 DEF Possible, MaximumOffset
  <2>2. NextChunk(u)' = NextChunk(u)
    BY <1>2 DEF NextChunk, Length
  <2> QED
    BY <1>1, <1>2, <2>1, <2>2 DEF UploadInv, RequestInv, Incomplete
<1> QED
  BY <1>3, <1>5, <1>6, <1>7, OthersKept DEF UploadInv

----------------------------------------------------------------------------
(* The invariant holds of every behaviour.                                 *)

LEMMA NothingYet == Init => IInv
<1> SUFFICES ASSUME Init PROVE IInv
  OBVIOUS
<1>1. Shape /\ folders \subseteq Folders
  BY DEF Init, Shape
<1>2. ASSUME NEW u \in Uploads PROVE UploadInv(u)
  <2>1. /\ session[u] = "none" /\ file[u] = None /\ late[u] = {} /\ pc[u] = "folder"
        /\ parent[u] = None /\ offset[u] = 0 /\ request[u] = None /\ reply[u] = None
        /\ received[u] = NoBytes
    BY DEF Init
  <2>2. received[u] = FirstBytes(0) /\ Got(u) = 0
    BY <2>1, NothingGot DEF Got
  <2> QED
    BY <2>1, <2>2, Constants
    DEF UploadInv, DriveInv, PhaseInv, ChunksInv, RequestInv, Early, Phases, Ended
<1> QED
  BY <1>1, <1>2 DEF IInv

LEMMA OnlyFind ==
  ASSUME IInv, UNCHANGED <<drive, late, pc, client, request, reply>> PROVE IInv'
<1>1. \A v \in Uploads : Same(v)
  BY DEF Same, drive, client
<1>2. \A v \in Uploads : UploadInv(v)'
  BY <1>1, SameKept DEF IInv
<1> QED
  BY <1>2 DEF IInv, Shape, drive, client

LEMMA Invariance == Spec => []IInv
<1>1. ASSUME IInv, [Next]_vars PROVE IInv'
  <2>1. ASSUME NEW u \in Uploads, ClientStep(u) PROVE IInv'
    BY <1>1, <2>1, EarlyStep, FailStep, SendStep, RecoverStep, GiveUpStep, ReceiveStep
    DEF ClientStep
  <2>2. ASSUME NEW u \in Uploads, DriveStep(u) PROVE IInv'
    BY <1>1, <2>2, ServeStep, RejectStep, LateStep, ExpireStep DEF DriveStep
  <2>3. ASSUME NEW u \in Uploads, Drop(u) PROVE IInv'
    BY <1>1, <2>3, GiveUpStep
  <2>4. CASE \/ SearchRoot \/ ListFolders \/ SearchFolder \/ LookUpReturns
             \/ \E f \in OnDrive : ResolveId(f.id)
    BY <1>1, <2>4, OnlyFind
    DEF SearchRoot, ListFolders, SearchFolder, LookUpReturns, ResolveId
  <2>5. CASE UNCHANGED vars
    BY <1>1, <2>5, OnlyFind DEF vars
  <2> QED
    BY <1>1, <2>1, <2>2, <2>3, <2>4, <2>5 DEF Next
<1> QED
  BY <1>1, NothingYet, PTL DEF Spec

(* THEOREM: a file appears on Drive only with every byte of the staged     *)
(* object at its place, and an upload that succeeds has a file, whatever   *)
(* the sizes of the object and of the chunks, and however often chunks are *)
(* cut short, repeated or late (upload_verified_object).                   *)
THEOREM ObjectsWhole == Spec => []WholeObject
<1>1. IInv => WholeObject
  BY DEF IInv, UploadInv, DriveInv, PhaseInv, WholeObject, FirstBytes, Bytes
<1> QED
  BY <1>1, Invariance, PTL

(* THEOREM: the checks of the Range header never refuse what an honest     *)
(* Drive says (parse_drive_resumable_upload_offset).                       *)
THEOREM HonestDriveAccepted == Spec => []NoFalseAlarm
<1>1. IInv => NoFalseAlarm
  BY DEF IInv, UploadInv, PhaseInv, NoFalseAlarm
<1> QED
  BY <1>1, Invariance, PTL

----------------------------------------------------------------------------
(* Lookups: what the properties of a file say, and the folders of a shard. *)

Holds(f) == f.of = Key[Wanted] /\ ~f.trashed

(* The properties of an object, one by one.                                *)
LEMMA Tags ==
  ASSUME NEW key \in Keys
  PROVE  LET tags == expected_app_properties(key) IN
         /\ DOMAIN tags = {"version", "oid", "size", "namespace"}
                            \cup (IF key.namespace \in Fitting THEN {} ELSE {"format"})
         /\ tags.version = 1 /\ tags.oid = key.oid /\ tags.size = key.size
         /\ tags.namespace = IF key.namespace \in Fitting THEN key.namespace
                             ELSE Sha256[key.namespace]
         /\ key.namespace \notin Fitting => tags.format = "sha256"
<1> DEFINE object == [version |-> 1, oid |-> key.oid, size |-> key.size]
           tag == GoogleDriveRepositoryNamespaceProperty(key.namespace)
<1>1. DOMAIN object = {"version", "oid", "size"}
  OBVIOUS
<1>2. CASE key.namespace \in Fitting
  <2>1. tag = [namespace |-> key.namespace]
    BY <1>2 DEF GoogleDriveRepositoryNamespaceProperty
  <2> QED
    BY <1>1, <1>2, <2>1 DEF expected_app_properties
<1>3. CASE key.namespace \notin Fitting
  <2>1. tag = [namespace |-> Sha256[key.namespace], format |-> "sha256"]
    BY <1>3 DEF GoogleDriveRepositoryNamespaceProperty
  <2> QED
    BY <1>1, <1>3, <2>1 DEF expected_app_properties
<1> QED
  BY <1>2, <1>3

(* No object is taken for another by its properties.                       *)
LEMMA TagsIdentify ==
  ASSUME NEW f, NEW key \in Keys, NEW wanted \in Keys,
         f.properties = expected_app_properties(key),
         Has(f, expected_app_properties(wanted))
  PROVE  key = wanted
<1> DEFINE mine == expected_app_properties(key)
           asked == expected_app_properties(wanted)
<1>1. \A p \in DOMAIN asked : p \in DOMAIN mine /\ mine[p] = asked[p]
  BY DEF Has
<1> HIDE DEF mine, asked
<1>2. key.oid = wanted.oid /\ key.size = wanted.size
  BY <1>1, Tags DEF mine, asked
<1>3. mine.namespace = asked.namespace
  BY <1>1, Tags DEF mine, asked
<1>4. key.namespace = wanted.namespace
  <2>1. CASE wanted.namespace \in Fitting
    <3>1. asked.namespace = wanted.namespace
      BY <2>1, Tags DEF asked
    <3>2. key.namespace \in Fitting
      <4> SUFFICES ASSUME key.namespace \notin Fitting PROVE FALSE
        OBVIOUS
      <4>1. mine.namespace = Sha256[key.namespace] /\ key.namespace \in DOMAIN Sha256
        BY Tags DEF mine, Keys
      <4> QED
        BY <1>3, <2>1, <3>1, <4>1, DigestAssumption
    <3>3. mine.namespace = key.namespace
      BY <3>2, Tags DEF mine
    <3> QED
      BY <1>3, <3>1, <3>3
  <2>2. CASE wanted.namespace \notin Fitting
    <3>1. "format" \in DOMAIN mine
      BY <1>1, <2>2, Tags DEF asked
    <3>2. key.namespace \notin Fitting
      <4> SUFFICES ASSUME key.namespace \in Fitting PROVE FALSE
        OBVIOUS
      <4>1. DOMAIN mine = {"version", "oid", "size", "namespace"}
        BY Tags DEF mine
      <4> QED
        BY <3>1, <4>1
    <3>3. /\ mine.namespace = Sha256[key.namespace]
          /\ asked.namespace = Sha256[wanted.namespace]
          /\ key.namespace \in DOMAIN Sha256 /\ wanted.namespace \in DOMAIN Sha256
      BY <2>2, <3>2, Tags DEF mine, asked, Keys
    <3> QED
      BY <1>3, <3>3, DigestAssumption
  <2> QED
    BY <2>1, <2>2
<1> QED
  BY <1>2, <1>4 DEF Keys

(* What a lookup accepts holds the object.                                 *)
LEMMA VerifiedHolds ==
  ASSUME NEW f \in OnDrive, verify_drive_object_file(f, Key[Wanted]) = "Ok"
  PROVE  Holds(f)
<1>1. Wanted \in Uploads /\ Key[Wanted] \in Keys
  BY ResumableUploadAssumption
<1>2. /\ ~f.trashed /\ f.size = Key[Wanted].size
      /\ Has(f, expected_app_properties(Key[Wanted]))
  BY DEF verify_drive_object_file
<1>3. ASSUME NEW u \in Uploads, f = drive_upload_metadata(FileId[u], file[u], Key[u])
      PROVE  f.of = Key[Wanted]
  <2>1. f.properties = expected_app_properties(Key[u]) /\ f.of = Key[u]
    BY <1>3 DEF drive_upload_metadata
  <2> QED
    BY <1>1, <1>2, <2>1, TagsIdentify, ResumableUploadAssumption
<1>4. ASSUME NEW x \in folders, f = drive_shard_folder_metadata(x, Key[Wanted])
      PROVE  f.of = Key[Wanted]
  BY <1>4 DEF drive_shard_folder_metadata
<1>5. ASSUME f \in OtherFiles PROVE f.of = Key[Wanted]
  <2>1. "size" \in DOMAIN f.properties /\ f.properties.size = f.size
    BY <1>1, <1>2, Tags DEF Has
  <2>2. f.of \in Keys /\ f.properties = expected_app_properties(f.of)
    BY <1>5, <2>1, OtherFilesAssumption
  <2> QED
    BY <1>1, <1>2, <2>2, TagsIdentify
<1> QED
  BY <1>2, <1>3, <1>4, <1>5 DEF OnDrive, Holds

(* Ids are unique on Drive.                                                *)
LEMMA UniqueIds ==
  ASSUME folders \subseteq Folders, NEW f \in OnDrive, NEW g \in OnDrive, f.id = g.id
  PROVE  f = g
<1> DEFINE Mine(u) == drive_upload_metadata(FileId[u], file[u], Key[u])
           Folder(x) == drive_shard_folder_metadata(x, Key[Wanted])
<1>1. \A u \in Uploads : Mine(u).id = FileId[u]
  BY DEF drive_upload_metadata
<1>2. \A x \in folders : Folder(x).id = x
  BY DEF drive_shard_folder_metadata
<1>3. \A h \in OnDrive : \/ \E u \in Uploads : h = Mine(u)
                         \/ \E x \in folders : h = Folder(x)
                         \/ h \in OtherFiles
  BY DEF OnDrive
<1> HIDE DEF Mine, Folder
<1> QED
  BY <1>1, <1>2, <1>3, OtherFilesAssumption

(* A folder that was made for the shard is one of the shard's.             *)
LEMMA FolderListed ==
  ASSUME NEW files, NEW x, drive_shard_folder_metadata(x, Key[Wanted]) \in files
  PROVE  x \in {f.id : f \in drive_shard_folder_lookup_query(files, Key[Wanted])}
<1> DEFINE f == drive_shard_folder_metadata(x, Key[Wanted])
<1>1. f.id = x
  BY DEF drive_shard_folder_metadata
<1>2. is_shard_folder(f, Key[Wanted])
  BY DEF is_shard_folder, drive_shard_folder_metadata, Has
<1> QED
  BY <1>1, <1>2 DEF drive_shard_folder_lookup_query

(* The file of the wanted object is among the answers in its folder.       *)
LEMMA OwnFileFound ==
  ASSUME file[Wanted] # None
  PROVE  \E f \in drive_object_lookup_query(OnDrive, file[Wanted], Key[Wanted]) :
           f.id = FileId[Wanted]
<1> DEFINE f == drive_upload_metadata(FileId[Wanted], file[Wanted], Key[Wanted])
<1>1. f \in OnDrive /\ f.id = FileId[Wanted]
  BY ResumableUploadAssumption DEF OnDrive, drive_upload_metadata
<1>2. /\ file[Wanted] \in f.parents /\ ~f.trashed /\ f.name = file_name(Key[Wanted])
      /\ f.properties = expected_app_properties(Key[Wanted])
  BY DEF drive_upload_metadata
<1>3. Has(f, expected_app_properties(Key[Wanted]))
  BY <1>2 DEF Has
<1> QED
  BY <1>1, <1>2, <1>3 DEF drive_object_lookup_query

----------------------------------------------------------------------------
(* The inductive invariant of lookups, beside that of the uploads.         *)

(* Files are put in folders of the shard, and those stay.                  *)
FolderInv ==
  \A u \in Uploads :
    /\ parent[u] # None => parent[u] \in ShardFolders
    /\ file[u] # None => file[u] \in ShardFolders

(* The file of the object was found or is in a folder still to search, and *)
(* every id found is of a file that is on Drive and holds the object.      *)
FindInv ==
  /\ find = [at |-> find.at, todo |-> find.todo, found |-> find.found, had |-> find.had]
  /\ find.at = "none" => find = NoLookUp
  /\ find.todo \subseteq Nat
  /\ find.had =>
       /\ file[Wanted] # None
       /\ find.at = "folders" => FileId[Wanted] \in find.found \/ file[Wanted] \in find.todo
       /\ find.at = "end" => FileId[Wanted] \in find.found
  /\ \A i \in find.found : \E f \in OnDrive : f.id = i /\ Holds(f)

(* What a step may do to the files and folders on Drive.                   *)
Grows ==
  /\ folders \subseteq folders'
  /\ \A u \in Uploads :
       /\ file[u] # None => file'[u] = file[u]
       /\ file'[u] # None => file'[u] \in {file[u], parent[u]} \ {None}
       /\ parent'[u] # None => parent'[u] \in {parent[u]} \cup folders' \cup ShardFolders

LEMMA Unmoved == ASSUME UNCHANGED <<folders, file, parent>> PROVE Grows
  BY DEF Grows

LEMMA ExtendGrows ==
  ASSUME IInv, NEW u \in Uploads, session[u] = "open", NEW chunk, NEW others,
         Extend(u, chunk, others), UNCHANGED <<folders, parent>>
  PROVE  Grows
<1>1. /\ file = [v \in Uploads |-> file[v]] /\ file[u] = None /\ parent[u] # None
      /\ file' = [file EXCEPT ![u] = parent[u]] \/ UNCHANGED file
  BY DEF IInv, Shape, UploadInv, DriveInv, PhaseInv, Extend
<1>2. \A v \in Uploads : file'[v] = IF v = u THEN file'[u] ELSE file[v]
  BY <1>1
<1>3. file'[u] \in {None, parent[u]}
  BY <1>1
<1> QED
  BY <1>1, <1>2, <1>3 DEF Grows

LEMMA AlwaysGrows == ASSUME IInv, [Next]_vars PROVE Grows
<1>1. parent = [u \in Uploads |-> parent[u]] /\ folders \subseteq Folders
  BY DEF IInv, Shape
<1>2. ASSUME NEW u \in Uploads, FindFolder(u) PROVE Grows
  <2>1. CASE ShardFolders = {}
    BY <1>2, <2>1, Unmoved DEF FindFolder, drive
  <2>2. CASE ShardFolders # {}
    <3>1. parent' = [parent EXCEPT ![u] = Min(ShardFolders)] /\ UNCHANGED <<folders, file>>
      BY <1>2, <2>2 DEF FindFolder, drive
    <3>2. Min(ShardFolders) \in ShardFolders
      BY <1>1, <2>2, ShardFolderIds, SmallestOf
    <3>3. \A v \in Uploads : parent'[v] \in {parent[v]} \cup ShardFolders
      BY <1>1, <3>1, <3>2
    <3> QED
      BY <3>1, <3>3 DEF Grows
  <2> QED
    BY <2>1, <2>2
<1>3. ASSUME NEW u \in Uploads, MakeFolder(u) PROVE Grows
  <2>1. PICK f \in Folders \ folders :
          /\ folders' = folders \cup {f}
          /\ parent' = [parent EXCEPT ![u] = f] \/ UNCHANGED parent
    BY <1>3 DEF MakeFolder
  <2>2. UNCHANGED file
    BY <1>3 DEF MakeFolder
  <2>3. \A v \in Uploads : parent'[v] \in {parent[v]} \cup folders'
    BY <1>1, <2>1
  <2> QED
    BY <2>1, <2>2, <2>3 DEF Grows
<1>4. ASSUME NEW u \in Uploads,
             \/ Initiate(u) \/ StepFails(u) \/ SendChunk(u) \/ Recover(u) \/ Timeout(u)
             \/ Receive(u) \/ Reject(u) \/ Expire(u) \/ Drop(u)
      PROVE  Grows
  <2>1. UNCHANGED <<folders, file, parent>>
    BY <1>4 DEF Initiate, StepFails, SendChunk, Recover, Timeout, GiveUp, Receive, Reject,
                Expire, Drop, drive, client
  <2> QED
    BY <2>1, Unmoved
<1>5. ASSUME NEW u \in Uploads, Serve(u) PROVE Grows
  <2>1. CASE request[u].kind = "chunk" /\ session[u] = "open"
    BY <1>5, <2>1, ExtendGrows DEF Serve, client
  <2>2. CASE ~(request[u].kind = "chunk" /\ session[u] = "open")
    BY <1>5, <2>2, Unmoved DEF Serve, client
  <2> QED
    BY <2>1, <2>2
<1>6. ASSUME NEW u \in Uploads, Late(u) PROVE Grows
  <2>1. session[u] = "open"
    BY <1>6 DEF Late, IInv, UploadInv, DriveInv
  <2>2. PICK chunk \in late[u] :
          \/ Extend(u, chunk, late[u] \ {chunk})
          \/ UNCHANGED <<received, session, file>>
    BY <1>6 DEF Late
  <2> QED
    BY <1>6, <2>1, <2>2, ExtendGrows, Unmoved DEF Late, client
<1>7. CASE \/ SearchRoot \/ ListFolders \/ SearchFolder \/ LookUpReturns
           \/ \E f \in OnDrive : ResolveId(f.id)
  BY <1>7, Unmoved
  DEF SearchRoot, ListFolders, SearchFolder, LookUpReturns, ResolveId, drive, client
<1>8. CASE UNCHANGED vars
  BY <1>8, Unmoved DEF vars, drive, client
<1> QED
  BY <1>2, <1>3, <1>4, <1>5, <1>6, <1>7, <1>8 DEF Next, ClientStep, DriveStep

(* Nothing leaves Drive.                                                   *)
LEMMA DriveGrows ==
  ASSUME Grows PROVE OnDrive \subseteq OnDrive' /\ ShardFolders \subseteq ShardFolders'
<1>1. OnDrive \subseteq OnDrive'
  BY DEF Grows, OnDrive
<1> QED
  BY <1>1 DEF ShardFolders, drive_shard_folder_lookup_query

LEMMA FoldersKept == ASSUME FolderInv, Grows PROVE FolderInv'
<1>1. ShardFolders \subseteq ShardFolders'
  BY DriveGrows
<1>2. folders' \subseteq ShardFolders'
  <2> SUFFICES ASSUME NEW x \in folders' PROVE x \in ShardFolders'
    OBVIOUS
  <2>1. drive_shard_folder_metadata(x, Key[Wanted]) \in OnDrive'
    BY DEF OnDrive
  <2> QED
    BY <2>1, FolderListed DEF ShardFolders
<1> QED
  BY <1>1, <1>2 DEF FolderInv, Grows

LEMMA OnlyOthers == ASSUME FindInv, Grows, UNCHANGED find PROVE FindInv'
<1>1. OnDrive \subseteq OnDrive'
  BY DriveGrows
<1>2. file[Wanted] # None => file'[Wanted] = file[Wanted]
  BY ResumableUploadAssumption DEF Grows
<1> QED
  BY <1>1, <1>2 DEF FindInv

LEMMA NoLookUpKept == ASSUME find' = NoLookUp PROVE FindInv'
  BY DEF FindInv, NoLookUp

(* A search of one folder finds the object if its file is in that folder.  *)
LEMMA SearchStep ==
  ASSUME FindInv, Grows, NEW p, NEW at, NEW todo \in SUBSET Nat, Search(p, at, todo),
         \/ find.at = "none" /\ at = "root"
         \/ /\ find.at = "folders" /\ at \in {"folders", "end"}
            /\ at = "end" => todo = {}
            /\ file[Wanted] \in find.todo => file[Wanted] \in todo \cup {p}
  PROVE  FindInv'
<1> DEFINE answers == drive_object_lookup_query(OnDrive, p, Key[Wanted])
           had == IF find.at = "none" THEN file[Wanted] # None ELSE find.had
           next == [at |-> at, todo |-> todo,
                    found |-> find.found \cup {f.id : f \in answers}, had |-> had]
<1>1. OnDrive \subseteq OnDrive'
  BY DriveGrows
<1>2. file[Wanted] # None => file'[Wanted] = file[Wanted]
  BY ResumableUploadAssumption DEF Grows
<1>3. CASE \E f \in answers : verify_drive_object_file(f, Key[Wanted]) # "Ok"
  BY <1>3, NoLookUpKept DEF Search
<1>4. CASE \A f \in answers : verify_drive_object_file(f, Key[Wanted]) = "Ok"
  <2>1. find' = [find EXCEPT !.at = at, !.todo = todo,
                             !.found = @ \cup {f.id : f \in answers}, !.had = had]
    BY <1>4 DEF Search
  <2>2. find' = next
    BY <2>1 DEF FindInv
  <2>3. \A i \in next.found : \E f \in OnDrive : f.id = i /\ Holds(f)
    <3>1. \A f \in answers : f \in OnDrive
      BY DEF drive_object_lookup_query
    <3> HIDE DEF answers
    <3>2. \A f \in answers : Holds(f)
      BY <1>4, <3>1, VerifiedHolds
    <3> QED
      BY <3>1, <3>2 DEF FindInv
  <2>4. ASSUME had, at # "root"
        PROVE  /\ file[Wanted] # None
               /\ FileId[Wanted] \in next.found \/ file[Wanted] \in todo
    <3>1. find.at = "folders" /\ find.had
      BY <2>4
    <3>2. /\ file[Wanted] # None
          /\ FileId[Wanted] \in find.found \/ file[Wanted] \in find.todo
      BY <3>1 DEF FindInv
    <3>3. file[Wanted] \in find.todo => file[Wanted] = p \/ file[Wanted] \in todo
      BY <3>1
    <3>4. ASSUME file[Wanted] = p PROVE FileId[Wanted] \in {f.id : f \in answers}
      BY <3>2, <3>4, OwnFileFound
    <3> QED
      BY <3>2, <3>3, <3>4
  <2>5. had => file[Wanted] # None
    BY DEF FindInv
  <2> HIDE DEF had
  <2>6. next.at = at /\ next.todo = todo /\ next.had = had
    OBVIOUS
  <2> HIDE DEF next
  <2>7. find' = [at |-> find'.at, todo |-> find'.todo, found |-> find'.found,
                 had |-> find'.had]
    BY <2>2 DEF next
  <2>8. \A i \in find'.found : \E f \in OnDrive' : f.id = i /\ Holds(f)
    BY <1>1, <2>2, <2>3
  <2>9. find'.had =>
          /\ file'[Wanted] # None
          /\ find'.at = "folders" =>
               FileId[Wanted] \in find'.found \/ file'[Wanted] \in find'.todo
          /\ find'.at = "end" => FileId[Wanted] \in find'.found
    BY <1>2, <2>2, <2>4, <2>5, <2>6
  <2> QED
    BY <2>2, <2>6, <2>7, <2>8, <2>9 DEF FindInv
<1> QED
  BY <1>3, <1>4

LEMMA FindKept == ASSUME IInv, FolderInv, FindInv, [Next]_vars PROVE FindInv'
<1>1. Grows /\ folders \subseteq Folders /\ OnDrive \subseteq OnDrive'
  BY AlwaysGrows, DriveGrows DEF IInv
<1>2. CASE SearchRoot
  <2>1. find.at = "none" /\ Search(Root, "root", {})
    BY <1>2 DEF SearchRoot
  <2> QED
    BY <1>1, <2>1, SearchStep
<1>3. CASE ListFolders
  <2> DEFINE at == IF ShardFolders = {} THEN "end" ELSE "folders"
  <2>1. find.at = "root" /\ find' = [find EXCEPT !.at = at, !.todo = ShardFolders]
    BY <1>3 DEF ListFolders, EveryOf
  <2>2. find' = [at |-> at, todo |-> ShardFolders, found |-> find.found, had |-> find.had]
    BY <2>1 DEF FindInv
  <2>3. UNCHANGED file
    BY <1>3 DEF ListFolders, drive
  <2>4. find.had => file[Wanted] # None /\ file[Wanted] \in ShardFolders
    BY ResumableUploadAssumption DEF FindInv, FolderInv
  <2>5. ShardFolders \subseteq Nat
    BY <1>1, ShardFolderIds
  <2>6. find'.at \in {"end", "folders"} /\ (find'.at = "end" => ShardFolders = {})
    BY <2>2
  <2>7. \A i \in find.found : \E f \in OnDrive' : f.id = i /\ Holds(f)
    BY <1>1 DEF FindInv
  <2>8. /\ find'.todo = ShardFolders /\ find'.found = find.found /\ find'.had = find.had
        /\ find' = [at |-> find'.at, todo |-> find'.todo, found |-> find'.found,
                    had |-> find'.had]
    BY <2>2
  <2> QED
    BY <2>3, <2>4, <2>5, <2>6, <2>7, <2>8 DEF FindInv
<1>4. CASE SearchFolder
  <2> DEFINE f == Min(find.todo)
             at == IF find.todo = {f} THEN "end" ELSE "folders"
  <2>1. find.at = "folders" /\ Search(f, at, find.todo \ {f}) /\ find.todo \subseteq Nat
    BY <1>4 DEF SearchFolder, FindInv
  <2> HIDE DEF f
  <2>2. at \in {"folders", "end"} /\ (at = "end" => find.todo \ {f} = {})
    OBVIOUS
  <2> HIDE DEF at
  <2> QED
    BY <1>1, <2>1, <2>2, SearchStep
<1>5. ASSUME NEW id, ResolveId(id) PROVE FindInv'
  <2> DEFINE result == lookup_object_by_backend_id(OnDrive, id, Key[Wanted])
  <2>1. /\ find = NoLookUp /\ ~result.error
        /\ find' = [find EXCEPT !.at = "end", !.found = result.found]
    BY <1>5 DEF ResolveId, FindInv
  <2>2. find' = [at |-> "end", todo |-> {}, found |-> result.found, had |-> FALSE]
    BY <2>1 DEF NoLookUp
  <2>3. \A i \in result.found : \E f \in OnDrive : f.id = i /\ Holds(f)
    BY <2>1, VerifiedHolds DEF lookup_object_by_backend_id
  <2> HIDE DEF result
  <2> QED
    BY <1>1, <2>2, <2>3 DEF FindInv
<1>6. CASE LookUpReturns
  BY <1>6, NoLookUpKept DEF LookUpReturns
<1>7. CASE UNCHANGED find
  BY <1>1, <1>7, OnlyOthers
<1>8. \/ SearchRoot \/ ListFolders \/ SearchFolder \/ LookUpReturns
      \/ \E f \in OnDrive : ResolveId(f.id)
      \/ UNCHANGED find
  BY DEF Next, vars, ClientStep, DriveStep, FindFolder, MakeFolder, Initiate, StepFails,
         SendChunk, Recover, Timeout, Receive, Serve, Reject, Late, Expire, Drop, GiveUp
<1> QED
  BY <1>2, <1>3, <1>4, <1>5, <1>6, <1>7, <1>8

(* THEOREM: a lookup that ends has found the object if it was on Drive     *)
(* when it began, and finds nothing that is not that object, in the trash  *)
(* or of another repository (lookup_object, lookup_object_by_backend_id).  *)
THEOREM LookupsComplete == Spec => []SearchComplete
<1>1. Init => FolderInv /\ FindInv
  BY DEF Init, FolderInv, FindInv, NoLookUp
<1>2. IInv /\ FolderInv /\ FindInv /\ [Next]_vars => (FolderInv /\ FindInv)'
  BY AlwaysGrows, FoldersKept, FindKept
<1>3. IInv /\ FindInv => SearchComplete
  <2> SUFFICES ASSUME IInv, FindInv, find.at = "end",
                      NEW f \in OnDrive, f.id \in find.found
               PROVE  f.of = Key[Wanted] /\ ~f.trashed
    BY DEF SearchComplete, FindInv
  <2>1. PICK g \in OnDrive : g.id = f.id /\ Holds(g)
    BY DEF FindInv
  <2>2. f = g
    BY <2>1, UniqueIds DEF IInv
  <2> QED
    BY <2>1, <2>2 DEF Holds
<1> QED
  BY <1>1, <1>2, <1>3, Invariance, PTL DEF Spec

============================================================================

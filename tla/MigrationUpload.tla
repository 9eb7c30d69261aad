-------------------------- MODULE MigrationUpload --------------------------
(***************************************************************************)
(* The resumable migration upload: an invocation loads the checkpoint,     *)
(* uploads what the storage target lacks with a bound on simultaneous      *)
(* transfers, and appends one JSON line per completed object before it     *)
(* reports the object.  Invocations for one repository and target share    *)
(* the checkpoint file, whose accesses hold a file lock; an invocation may *)
(* be killed anywhere, also in the middle of an append, and an append may  *)
(* fail half way (a full disk).                                            *)
(*                                                                         *)
(* The file is a sequence of lines that end in a newline, and a tail that  *)
(* does not.  A line is the object its record names, or Garbled when it is *)
(* no record; the tail is the object of a record that only misses its      *)
(* newline, Torn, or Empty.                                                *)
(***************************************************************************)
EXTENDS Naturals, Sequences, FiniteSets

CONSTANTS
  Runs,           \* invocations of the migration upload
  Objects,        \* the objects to migrate
  Garbled, Torn, Empty,
  MaxConcurrent,  \* max_concurrent_uploads
  MaxKills,       \* bound: invocations killed
  MaxStarts,      \* bound: starts of invocations
  MaxBreaks,      \* bound: appends that fail on a full disk
  MaxDeletes      \* bound: objects deleted from the storage target

ASSUME MarkAssumption ==
  /\ {Garbled, Torn, Empty} \cap Objects = {}
  /\ Garbled # Torn /\ Torn # Empty /\ Empty # Garbled

ASSUME CountAssumption ==
  /\ MaxConcurrent \in Nat \ {0}
  /\ {MaxKills, MaxStarts, MaxBreaks, MaxDeletes} \subseteq Nat

VARIABLES
  run,       \* run[r]: the invocation's state
  job,       \* job[r][o]: where the invocation is with an object
  restored,  \* restored[r]: completions loaded from the checkpoint
  starts,    \* how often an invocation was started
  lines,     \* the checkpoint's terminated lines
  tail,      \* what follows the last newline
  stored,    \* the objects in the storage target
  removed,   \* objects that were in the target and deleted by hand
  gone,      \* gone[r]: those deleted since invocation r began
  breaks,    \* appends that did not write a whole line
  kills

vars == <<run, job, restored, starts, lines, tail, stored, removed,
          gone, breaks, kills>>
checkpoint == <<lines, tail, breaks>>
target == <<stored, removed, gone>>

Success == {"present", "uploaded", "resumed"}
Outcomes == Success \cup {"failed"}
Busy == {"exists", "upload", "recordPresent", "recordUploaded"}
Jobs == {"todo"} \cup Busy \cup Outcomes
RunStates == {"off", "loading", "working", "done", "refused"}

Init ==
  /\ run = [r \in Runs |-> "off"]
  /\ job = [r \in Runs |-> [o \in Objects |-> "todo"]]
  /\ restored = [r \in Runs |-> {}]
  /\ starts = 0
  /\ lines = <<>> /\ tail = Empty
  /\ stored = {} /\ removed = {} /\ gone = [r \in Runs |-> {}]
  /\ breaks = 0 /\ kills = 0

SetJob(r, o, j) == job' = [job EXCEPT ![r][o] = j]

LinesOf(s) == {s[k] : k \in DOMAIN s}

(* What a reader of the checkpoint restores: a last line without a newline *)
(* counts when it parses and is dropped when it does not.                  *)
Restored == (LinesOf(lines) \cup {tail}) \cap Objects

Unreadable == Garbled \in LinesOf(lines)

(* The write appends to whatever follows the last newline.                 *)
WriteLine(o) ==
  /\ lines' = Append(lines, IF tail = Empty THEN o ELSE Garbled)
  /\ tail' = Empty
  /\ UNCHANGED breaks

(* The write stops after some of its bytes.                                *)
WriteSomeOf(o) ==
  /\ tail' \in IF tail = Empty THEN {Empty, Torn, o} ELSE {tail, Torn}
  /\ breaks' = breaks + 1
  /\ UNCHANGED lines

----------------------------------------------------------------------------
(* One invocation.                                                         *)

Invoke(r) ==
  /\ run[r] \in {"off", "done", "refused"} /\ starts < MaxStarts
  /\ run' = [run EXCEPT ![r] = "loading"]
  /\ job' = [job EXCEPT ![r] = [o \in Objects |-> "todo"]]
  /\ restored' = [restored EXCEPT ![r] = {}]
  /\ starts' = starts + 1
  /\ gone' = [gone EXCEPT ![r] = {}]
  /\ UNCHANGED <<checkpoint, stored, removed, kills>>

Load(r) ==
  /\ run[r] = "loading" /\ ~ Unreadable
  /\ restored' = [restored EXCEPT ![r] = Restored]
  /\ run' = [run EXCEPT ![r] = "working"]
  /\ UNCHANGED <<job, starts, checkpoint, target, kills>>

(* A malformed complete record fails closed.                               *)
Refuse(r) ==
  /\ run[r] = "loading" /\ Unreadable
  /\ run' = [run EXCEPT ![r] = "refused"]
  /\ UNCHANGED <<job, restored, starts, checkpoint, target, kills>>

Take(r, o) ==
  /\ run[r] = "working" /\ job[r][o] = "todo"
  /\ Cardinality({x \in Objects : job[r][x] \in Busy}) < MaxConcurrent
  /\ SetJob(r, o, "exists")
  /\ UNCHANGED <<run, restored, starts, checkpoint, target, kills>>

(* mutant: a checkpointed completion is not checked against the target     *)
TrustCheckpoint(r, o) ==
  /\ run[r] = "working" /\ job[r][o] = "exists"
  /\ SetJob(r, o, IF o \in restored[r] THEN "resumed"
                  ELSE IF o \in stored THEN "recordPresent" ELSE "upload")
  /\ UNCHANGED <<run, restored, starts, checkpoint, target, kills>>

(* The target is asked; a restored completion that still holds is reported *)
(* without a new record.                                                   *)
CheckTarget(r, o) ==
  /\ run[r] = "working" /\ job[r][o] = "exists"
  /\ SetJob(r, o, IF o \notin stored THEN "upload"
                  ELSE IF o \in restored[r] THEN "resumed"
                  ELSE "recordPresent")
  /\ UNCHANGED <<run, restored, starts, checkpoint, target, kills>>

(* The provider uploads unless somebody stored the object meanwhile.       *)
Upload(r, o) ==
  /\ run[r] = "working" /\ job[r][o] = "upload"
  /\ stored' = stored \cup {o}
  /\ SetJob(r, o, "recordUploaded")
  /\ UNCHANGED <<run, restored, starts, checkpoint, removed, gone, kills>>

(* mutant: an ambiguous target error counts as uploaded                    *)
TransferAssumed(r, o) ==
  /\ run[r] = "working" /\ job[r][o] \in {"exists", "upload"}
  /\ SetJob(r, o, "recordUploaded")
  /\ UNCHANGED <<run, restored, starts, checkpoint, target, kills>>

(* A target error, a missing or changed source file, a wrong answer.       *)
TransferFails(r, o) ==
  /\ run[r] = "working" /\ job[r][o] \in {"exists", "upload"}
  /\ SetJob(r, o, "failed")
  /\ UNCHANGED <<run, restored, starts, checkpoint, target, kills>>

Reported(j) == IF j = "recordPresent" THEN "present" ELSE "uploaded"

Record(r, o) ==
  /\ run[r] = "working" /\ job[r][o] \in {"recordPresent", "recordUploaded"}
  /\ WriteLine(o)
  /\ SetJob(r, o, Reported(job[r][o]))
  /\ UNCHANGED <<run, restored, starts, target, kills>>

(* The write breaks off, or the whole line is written and not synced: the  *)
(* object is in the target, and is reported as failed.                     *)
RecordFails(r, o) ==
  /\ run[r] = "working" /\ job[r][o] \in {"recordPresent", "recordUploaded"}
  /\ breaks < MaxBreaks
  /\ WriteSomeOf(o) \/ WriteLine(o)
  /\ SetJob(r, o, "failed")
  /\ UNCHANGED <<run, restored, starts, target, kills>>

(* mutant: a failed object keeps the invocation waiting                    *)
FinishWhenAllSucceed(r) ==
  /\ run[r] = "working" /\ \A o \in Objects : job[r][o] \in Success
  /\ run' = [run EXCEPT ![r] = "done"]
  /\ UNCHANGED <<job, restored, starts, checkpoint, target, kills>>

Finish(r) ==
  /\ run[r] = "working" /\ \A o \in Objects : job[r][o] \in Outcomes
  /\ run' = [run EXCEPT ![r] = "done"]
  /\ UNCHANGED <<job, restored, starts, checkpoint, target, kills>>

----------------------------------------------------------------------------
(* The invocation is killed, at worst in the middle of an append.          *)
Kill(r) ==
  /\ run[r] \in {"loading", "working"}
  /\ kills < MaxKills /\ kills' = kills + 1
  /\ run' = [run EXCEPT ![r] = "off"]
  /\ job' = [job EXCEPT ![r] = [o \in Objects |-> "todo"]]
  /\ restored' = [restored EXCEPT ![r] = {}]
  /\ \/ UNCHANGED checkpoint
     \/ \E o \in Objects : /\ job[r][o] \in {"recordPresent", "recordUploaded"}
                           /\ WriteSomeOf(o) \/ WriteLine(o)
  /\ UNCHANGED <<starts, target>>

DeleteFromTarget(o) ==
  /\ o \in stored /\ Cardinality(removed) < MaxDeletes /\ o \notin removed
  /\ stored' = stored \ {o} /\ removed' = removed \cup {o}
  /\ gone' = [r \in Runs |-> gone[r] \cup {o}]
  /\ UNCHANGED <<run, job, restored, starts, checkpoint, kills>>

Advance(r) ==
  \/ Load(r) \/ Refuse(r) \/ Finish(r)
  \/ \E o \in Objects :
       \/ Take(r, o) \/ CheckTarget(r, o) \/ Upload(r, o)
       \/ TransferFails(r, o) \/ Record(r, o) \/ RecordFails(r, o)

Next ==
  \/ \E r \in Runs : Invoke(r) \/ Advance(r) \/ Kill(r)
  \/ \E o \in Objects : DeleteFromTarget(o)

Spec == Init /\ [][Next]_vars

(* The invocation's tasks are polled until they are done.                  *)
FairSpec == Spec /\ \A r \in Runs : WF_vars(Advance(r))

----------------------------------------------------------------------------
(* Properties.                                                             *)

(* Every variable keeps its type.                                          *)
TypeOK ==
  /\ run \in [Runs -> RunStates]
  /\ job \in [Runs -> [Objects -> Jobs]]
  /\ restored \in [Runs -> SUBSET Objects]
  /\ starts \in 0..MaxStarts
  /\ lines \in Seq(Objects \cup {Garbled})
  /\ tail \in Objects \cup {Torn, Empty}
  /\ stored \in SUBSET Objects /\ removed \in SUBSET Objects
  /\ gone \in [Runs -> SUBSET Objects]
  /\ breaks \in 0..(MaxBreaks + MaxKills) /\ kills \in 0..MaxKills

(* Whatever was killed, broken off or run twice, the checkpoint never      *)
(* claims an object that was not stored, and no invocation reports success *)
(* for one: a crash between the upload and its record, or between the      *)
(* bytes of the record, cannot invent a completion.                        *)
NothingInvented ==
  /\ Restored \subseteq stored \cup removed
  /\ \A r \in Runs, o \in Objects :
       job[r][o] \in Success => o \in stored \cup removed

(* Each success is recorded before it is reported, so that as long as no   *)
(* append broke off a later invocation restores all that was reported.     *)
ReportedIsRecorded ==
  breaks = 0 => \A r \in Runs, o \in Objects :
                  job[r][o] \in Success => o \in Restored

(* What invocations report and what the checkpoint says are the truth      *)
(* about the storage, and the checkpoint does not fall behind the reports. *)
CheckpointTruthful == NothingInvented /\ ReportedIsRecorded

(* A success is of an object that was in the target during this very       *)
(* invocation, however old the record it was restored from and whatever    *)
(* other invocations and people do: an object that was deleted before is   *)
(* uploaded again, not resumed.                                            *)
SuccessWasLive ==
  \A r \in Runs, o \in Objects :
    job[r][o] \in Success => o \in stored \cup gone[r]

(* The doc comment's promise: the checkpoint is safe to reuse after an     *)
(* interruption, because a partial final line is ignored.                  *)
NeverRefused == \A r \in Runs : run[r] # "refused"

(* An invocation that has begun reports on every object, refuses the       *)
(* checkpoint or is killed.                                                *)
InvocationEnds ==
  \A r \in Runs :
    run[r] \in {"loading", "working"} ~> run[r] \in {"done", "refused", "off"}
=============================================================================

---------------------------- MODULE ClientProofs ----------------------------
(* Theorems about the command-line client: about the wait for a process it *)
(* started, for every amount of output and every limit, about its logins   *)
(* and logouts, for any repositories, tokens and faults, and about the     *)
(* upload of a migration and its checkpoint, for every number of           *)
(* invocations and objects, and every order of kills, broken appends and   *)
(* deletions from the storage target.                                      *)
EXTENDS ClientLogin, MigrationUpload, TLAPS

----------------------------------------------------------------------------
(* The wait for a process.                                                 *)

Verdicts == {None, "success", "failure"}

ChildRecords ==
  [option : Options, proc : {"running", "exited", "reaped"}, exit : Verdicts,
   helper : {"none", "group", "escaped", "gone"}, holds : SUBSET Streams,
   slow : BOOLEAN, wrote : [Streams -> Nat], read : [Streams -> Nat],
   sent : SUBSET Streams, events : SUBSET Streams, got : SUBSET Streams,
   status : Verdicts, late : BOOLEAN, grace : BOOLEAN,
   why : {None, "limit", "timeout", "inherited"}, error : BOOLEAN,
   pc : {"accept", "collect", "ok", "limit", "timeout", "inherited"}]

(* An output that was read to its end is whole; one that was not exceeds.  *)
StreamWhole(c, s) == ~Writers(c, s) /\ c.read[s] = c.wrote[s]

(* No output that the waiting thread took exceeds its limit, unless it     *)
(* says so.                                                                *)
Within(c) == c.pc \in {"accept", "ok"} \/ (c.pc = "collect" /\ c.why = "inherited" /\ ~c.error)

ChildBase(c) ==
  /\ c \in ChildRecords
  /\ c.sent \subseteq c.option.piped /\ c.events \subseteq c.sent
  /\ c.got \cap c.option.piped \subseteq c.sent
  /\ \A s \in c.sent : Exceeds(c, s) \/ StreamWhole(c, s)
  /\ c.status # None => c.proc = "reaped" /\ c.status = c.exit
  /\ c.pc = "ok" => c.status # None /\ c.got = Streams
  /\ c.pc \notin {"accept", "ok"} => c.proc = "reaped" /\ c.helper # "group"
  /\ c.pc = "collect" => c.why \in {"limit", "timeout", "inherited"}

ChildInv(c) ==
  ChildBase(c) /\ (Within(c) => \A s \in c.got \cap c.option.piped : ~Exceeds(c, s))

CInv == child = None \/ ChildInv(child)

(* Every process is started with one of a few sets of options.             *)
LEMMA OptionTypes ==
  ASSUME NEW o \in Options
  PROVE  o.piped \subseteq Streams /\ o.capture \in {"truncate", "hard", "unlimited"}
BY DEF Options, CredentialOption, FetchOption, CheckAttrOption, MigrationOption,
       Option, Streams

LEMMA ChildStarts == ChildInit => ChildInv(child)
<1> SUFFICES ASSUME NEW o \in Options, child = Started(o)
             PROVE  ChildInv(child)
  BY DEF ChildInit
<1>1. o.piped \subseteq Streams BY OptionTypes
<1>2. child \in ChildRecords BY DEF Started, ChildRecords, Verdicts, Streams
<1> QED BY <1>1, <1>2 DEF ChildInv, ChildBase, Started, Within, Exceeds, StreamWhole

(* The process writes, starts a helper and exits.                          *)
LEMMA WriteKeeps ==
  ASSUME NEW s \in Streams, ChildInv(child), Write(s)
  PROVE  ChildInv(child')
<1>1. child \in ChildRecords BY DEF ChildInv, ChildBase
<1>2. child' = [child EXCEPT !.wrote[s] = @ + 1] BY DEF Write
<1>3. child' \in ChildRecords BY <1>1, <1>2 DEF ChildRecords
<1>4. s \notin child.sent \/ Exceeds(child, s)
  BY DEF ChildInv, ChildBase, StreamWhole, Write
<1>5. \A q \in child'.sent : Exceeds(child', q) \/ StreamWhole(child', q)
  <2> SUFFICES ASSUME NEW q \in child'.sent PROVE Exceeds(child', q) \/ StreamWhole(child', q)
    OBVIOUS
  <2>1. q \in Streams /\ (Exceeds(child, q) \/ StreamWhole(child, q))
    BY <1>1, <1>2 DEF ChildInv, ChildBase, ChildRecords
  <2>2. CASE Exceeds(child, q) BY <1>1, <1>2, <2>1, <2>2 DEF ChildRecords, Exceeds
  <2>3. CASE ~Exceeds(child, q)
    <3>1. q # s BY <1>1, <1>2, <1>4, <2>3 DEF ChildRecords
    <3> QED BY <1>1, <1>2, <2>1, <2>3, <3>1 DEF ChildRecords, StreamWhole, Writers
  <2> QED BY <2>2, <2>3
<1>6. ChildBase(child')
  BY <1>1, <1>2, <1>3, <1>5 DEF ChildInv, ChildBase, ChildRecords
<1> QED BY <1>1, <1>2, <1>6 DEF ChildInv, ChildRecords, Within, Exceeds

LEMMA StartHelperKeeps ==
  ASSUME NEW place \in {"group", "escaped"}, ChildInv(child), StartHelper(place)
  PROVE  ChildInv(child')
<1> PICK pipes \in {{}, child.option.piped} :
      child' = [child EXCEPT !.helper = place, !.holds = pipes]
  BY DEF StartHelper
<1>1. child \in ChildRecords BY DEF ChildInv, ChildBase
<1>2. pipes \subseteq Streams BY <1>1, OptionTypes DEF ChildRecords
<1>3. child' \in ChildRecords BY <1>1, <1>2 DEF ChildRecords
<1>4. ChildBase(child')
  BY <1>1, <1>3 DEF ChildInv, ChildBase, StartHelper, ChildRecords, Exceeds, StreamWhole, Writers
<1> QED BY <1>1, <1>4 DEF ChildInv, ChildRecords, Within, Exceeds

LEMMA HelperExitsKeeps ==
  ASSUME ChildInv(child), HelperExits
  PROVE  ChildInv(child')
<1>1. child \in ChildRecords BY DEF ChildInv, ChildBase
<1>2. child' = [child EXCEPT !.helper = "gone", !.holds = {}] BY DEF HelperExits
<1>3. child' \in ChildRecords BY <1>1, <1>2 DEF ChildRecords
<1>4. ChildBase(child')
  BY <1>1, <1>2, <1>3 DEF ChildInv, ChildBase, ChildRecords, Exceeds, StreamWhole, Writers
<1> QED BY <1>1, <1>2, <1>4 DEF ChildInv, ChildRecords, Within, Exceeds

LEMMA ChildExitsKeeps ==
  ASSUME NEW status \in {"success", "failure"}, ChildInv(child), ChildExits(status)
  PROVE  ChildInv(child')
<1>1. child \in ChildRecords BY DEF ChildInv, ChildBase
<1>2. child' = [child EXCEPT !.proc = "exited", !.exit = status] BY DEF ChildExits
<1>3. child' \in ChildRecords BY <1>1, <1>2 DEF ChildRecords, Verdicts
<1>4. child.proc = "running" BY DEF ChildExits
<1>5. ChildBase(child')
  BY <1>1, <1>2, <1>3, <1>4 DEF ChildInv, ChildBase, ChildRecords, Exceeds, StreamWhole, Writers
<1> QED BY <1>1, <1>2, <1>5 DEF ChildInv, ChildRecords, Within, Exceeds

(* The clocks.                                                             *)
LEMMA ClocksKeep ==
  ASSUME ChildInv(child), TurnSlow \/ DeadlinePasses \/ GracePasses
  PROVE  ChildInv(child')
<1>1. child \in ChildRecords BY DEF ChildInv, ChildBase
<1>2. CASE child' = [child EXCEPT !.slow = TRUE]
  <2>1. child' \in ChildRecords BY <1>1, <1>2 DEF ChildRecords
  <2>2. ChildBase(child')
    BY <1>1, <1>2, <2>1 DEF ChildInv, ChildBase, ChildRecords, Exceeds, StreamWhole, Writers
  <2> QED BY <1>1, <1>2, <2>2 DEF ChildInv, ChildRecords, Within, Exceeds
<1>3. CASE child' = [child EXCEPT !.late = TRUE]
  <2>1. child' \in ChildRecords BY <1>1, <1>3 DEF ChildRecords
  <2>2. ChildBase(child')
    BY <1>1, <1>3, <2>1 DEF ChildInv, ChildBase, ChildRecords, Exceeds, StreamWhole, Writers
  <2> QED BY <1>1, <1>3, <2>2 DEF ChildInv, ChildRecords, Within, Exceeds
<1>4. CASE child' = [child EXCEPT !.grace = TRUE]
  <2>1. child' \in ChildRecords BY <1>1, <1>4 DEF ChildRecords
  <2>2. ChildBase(child')
    BY <1>1, <1>4, <2>1 DEF ChildInv, ChildBase, ChildRecords, Exceeds, StreamWhole, Writers
  <2> QED BY <1>1, <1>4, <2>2 DEF ChildInv, ChildRecords, Within, Exceeds
<1> QED BY <1>2, <1>3, <1>4 DEF TurnSlow, DeadlinePasses, GracePasses

(* The reader threads: an event is sent for an output that exceeds its     *)
(* limit or is whole.                                                      *)
LEMMA SendKeeps ==
  ASSUME NEW c, NEW s \in Streams, ChildInv(c), s \in c.option.piped,
         Exceeds(c, s) \/ StreamWhole(c, s)
  PROVE  ChildInv(Send(c, s))
<1> DEFINE d == [c EXCEPT !.sent = @ \cup {s}, !.events = @ \cup {s}]
<1>1. c \in ChildRecords BY DEF ChildInv, ChildBase
<1>2. d \in ChildRecords BY <1>1 DEF ChildRecords
<1>3. ChildBase(d)
  BY <1>1, <1>2 DEF ChildInv, ChildBase, ChildRecords, Exceeds, StreamWhole, Writers
<1>4. ChildInv(d) BY <1>1, <1>3 DEF ChildInv, ChildRecords, Within, Exceeds
<1> QED BY <1>4 DEF Send

LEMMA ReaderKeeps ==
  ASSUME NEW s \in Streams, ChildInv(child), Reader(s)
  PROVE  ChildInv(child')
<1>1. child \in ChildRecords BY DEF ChildInv, ChildBase
<1>2. CASE ReadPipe(s)
  <2> DEFINE c == [child EXCEPT !.read[s] = child.wrote[s]]
  <2>1. c \in ChildRecords BY <1>1 DEF ChildRecords
  <2>2. s \in child.option.piped \ child.sent BY <1>2 DEF ReadPipe
  <2>3. ChildBase(c)
    BY <1>1, <2>1, <2>2 DEF ChildInv, ChildBase, ChildRecords, Exceeds, StreamWhole, Writers
  <2>4. \A q \in c.got \cap c.option.piped : q \in child.got \cap child.option.piped /\ q # s
    BY <1>1, <2>2 DEF ChildInv, ChildBase, ChildRecords
  <2>5. ChildInv(c) BY <1>1, <2>3, <2>4 DEF ChildInv, ChildRecords, Within, Exceeds
  <2>6. s \in c.option.piped BY <1>1, <2>2 DEF ChildRecords
  <2>7. child' = IF Exceeds(c, s) THEN Send(c, s) ELSE c BY <1>2 DEF ReadPipe
  <2> HIDE DEF c
  <2> QED BY <2>5, <2>6, <2>7, SendKeeps
<1>3. CASE EndOfPipe(s)
  BY <1>3, SendKeeps DEF EndOfPipe, StreamWhole
<1> QED BY <1>2, <1>3 DEF Reader

(* The process tree is stopped.                                            *)
LEMMA StopKeeps ==
  ASSUME NEW c, ChildBase(c), NEW d, d = stop_process_tree(c)
  PROVE  ChildBase(d) /\ d.helper # "group" /\ d.status = c.status /\ d.pc = c.pc
           /\ d.got = c.got /\ d.option = c.option /\ d.read = c.read /\ d.proc = c.proc
<1>1. CASE c.helper # "group" BY <1>1 DEF stop_process_tree
<1>2. CASE c.helper = "group"
  <2>1. c \in ChildRecords BY DEF ChildBase
  <2>2. d = [c EXCEPT !.helper = "gone", !.holds = {}] BY <1>2 DEF stop_process_tree
  <2>3. d \in ChildRecords BY <2>1, <2>2 DEF ChildRecords
  <2>4. ChildBase(d)
    BY <2>1, <2>2, <2>3 DEF ChildBase, ChildRecords, Exceeds, StreamWhole, Writers
  <2> QED BY <2>1, <2>2, <2>4 DEF ChildRecords
<1> QED BY <1>1, <1>2

LEMMA TerminateKeeps ==
  ASSUME NEW c, ChildBase(c), NEW d, d = terminate_process_tree(c)
  PROVE  ChildBase(d) /\ d.helper # "group" /\ d.pc = c.pc /\ d.proc = "reaped"
<1> DEFINE e == stop_process_tree(c)
<1>1. ChildBase(e) /\ e.helper # "group" /\ e.pc = c.pc BY StopKeeps
<1>2. d = [e EXCEPT !.proc = "reaped"] BY DEF terminate_process_tree
<1> HIDE DEF e
<1>3. e \in ChildRecords BY <1>1 DEF ChildBase
<1>4. d \in ChildRecords BY <1>2, <1>3 DEF ChildRecords
<1>5. \A s \in d.sent : Exceeds(d, s) \/ StreamWhole(d, s)
  BY <1>1, <1>2, <1>3 DEF ChildBase, ChildRecords, Exceeds, StreamWhole, Writers
<1>6. ChildBase(d)
  BY <1>1, <1>2, <1>3, <1>4, <1>5 DEF ChildBase, ChildRecords
<1> QED BY <1>1, <1>2, <1>3, <1>6 DEF ChildRecords

(* Then what is still on its way is collected.                             *)
LEMMA CollectingKeeps ==
  ASSUME NEW c, ChildBase(c), c.proc = "reaped", c.helper # "group",
         NEW why \in {"limit", "timeout", "inherited"},
         why = "inherited" => ChildInv(c) /\ c.pc = "accept",
         NEW d, d = Collecting(c, why)
  PROVE  ChildInv(d)
<1>1. c \in ChildRecords BY DEF ChildBase
<1>2. d = [c EXCEPT !.pc = "collect", !.why = why] BY DEF Collecting
<1>3. d \in ChildRecords BY <1>1, <1>2 DEF ChildRecords
<1>4. ChildBase(d)
  BY <1>1, <1>2, <1>3 DEF ChildBase, ChildRecords, Exceeds, StreamWhole, Writers
<1>5. d.pc = "collect" /\ d.why = why BY <1>1, <1>2 DEF ChildRecords
<1>6. Within(d) => ChildInv(c) /\ c.pc = "accept" BY <1>5 DEF Within
<1> QED BY <1>1, <1>2, <1>4, <1>6 DEF ChildInv, ChildRecords, Within, Exceeds

(* The waiting thread takes an event, and gives up where a limit is        *)
(* exceeded.                                                               *)
LEMMA TakeKeeps ==
  ASSUME NEW c, NEW s \in Streams, ChildInv(c), s \in c.events, c.pc # "ok",
         NEW d, d = [c EXCEPT !.events = @ \ {s}, !.got = @ \cup {s}]
  PROVE  /\ ChildBase(d) /\ d.pc = c.pc
         /\ ~Exceeds(c, s) => ChildInv(d)
<1>1. c \in ChildRecords BY DEF ChildInv, ChildBase
<1>2. d \in ChildRecords BY <1>1 DEF ChildRecords
<1>3. ChildBase(d)
  BY <1>1, <1>2 DEF ChildInv, ChildBase, ChildRecords, Exceeds, StreamWhole, Writers
<1>4. d.pc = c.pc BY <1>1 DEF ChildRecords
<1>5. ~Exceeds(c, s) => ChildInv(d)
  BY <1>1, <1>3 DEF ChildInv, ChildRecords, Within, Exceeds
<1> QED BY <1>3, <1>4, <1>5

LEMMA AcceptEventKeeps ==
  ASSUME NEW s \in Streams, ChildInv(child), AcceptEvent(s)
  PROVE  ChildInv(child')
<1> DEFINE c == [child EXCEPT !.events = @ \ {s}, !.got = @ \cup {s}]
<1>1. s \in child.events /\ child.pc = "accept" BY DEF AcceptEvent, Waiting
<1>2. /\ ChildBase(c) /\ c.pc = "accept"
      /\ ~Exceeds(child, s) => ChildInv(c)
  BY <1>1, TakeKeeps
<1>3. child' = IF Exceeds(child, s)
               THEN Collecting(terminate_process_tree(c), "limit") ELSE c
  BY DEF AcceptEvent
<1> HIDE DEF c
<1>4. CASE Exceeds(child, s)
  <2> DEFINE e == terminate_process_tree(c)
  <2>1. ChildBase(e) /\ e.helper # "group" /\ e.proc = "reaped" BY <1>2, TerminateKeeps
  <2>2. child' = Collecting(e, "limit") BY <1>3, <1>4
  <2> HIDE DEF e
  <2> QED BY <2>1, <2>2, CollectingKeeps
<1> QED BY <1>2, <1>3, <1>4

(* It polls: what it makes of the exit, the deadline and the grace.        *)
LEMMA ReapKeeps ==
  ASSUME NEW c, ChildInv(c), c.pc = "accept", c.proc = "exited",
         NEW d, d = [c EXCEPT !.proc = "reaped", !.status = c.exit]
  PROVE  ChildInv(d) /\ d.pc = "accept"
<1>1. c \in ChildRecords BY DEF ChildInv, ChildBase
<1>2. d \in ChildRecords BY <1>1 DEF ChildRecords
<1>3. ChildBase(d)
  BY <1>1, <1>2 DEF ChildInv, ChildBase, ChildRecords, Exceeds, StreamWhole, Writers
<1> QED BY <1>1, <1>3 DEF ChildInv, ChildRecords, Within, Exceeds

LEMMA PollKeeps ==
  ASSUME ChildInv(child), Poll
  PROVE  ChildInv(child')
<1> DEFINE c == IF child.proc = "exited"
                THEN [child EXCEPT !.proc = "reaped", !.status = child.exit]
                ELSE child
<1>1. ChildInv(c) /\ c.pc = "accept" BY ReapKeeps DEF Poll, Waiting
<1>2. \/ child' = [c EXCEPT !.pc = "ok"] /\ c.status # None /\ Complete(c)
      \/ child' = Collecting(terminate_process_tree(c), "timeout")
      \/ child' = Collecting(stop_process_tree(c), "inherited") /\ c.status # None
      \/ child' = c
  BY DEF Poll
<1> HIDE DEF c
<1>3. CASE child' = [c EXCEPT !.pc = "ok"] /\ c.status # None /\ Complete(c)
  <2>1. c \in ChildRecords BY <1>1 DEF ChildInv, ChildBase
  <2>2. child' \in ChildRecords BY <1>3, <2>1 DEF ChildRecords
  <2>3. ChildBase(child')
    BY <1>1, <1>3, <2>1, <2>2
       DEF Complete, ChildInv, ChildBase, ChildRecords, Exceeds, StreamWhole, Writers
  <2> QED BY <1>1, <1>3, <2>1, <2>3 DEF ChildInv, ChildRecords, Within, Exceeds
<1>4. CASE child' = Collecting(terminate_process_tree(c), "timeout")
  <2> DEFINE e == terminate_process_tree(c)
  <2>1. ChildBase(c) BY <1>1 DEF ChildInv
  <2>2. ChildBase(e) /\ e.helper # "group" /\ e.proc = "reaped" BY <2>1, TerminateKeeps
  <2>3. child' = Collecting(e, "timeout") BY <1>4
  <2> HIDE DEF e
  <2> QED BY <2>2, <2>3, CollectingKeeps
<1>5. CASE child' = Collecting(stop_process_tree(c), "inherited") /\ c.status # None
  <2> DEFINE e == stop_process_tree(c)
  <2>1. ChildBase(c) BY <1>1 DEF ChildInv
  <2>2. /\ ChildBase(e) /\ e.helper # "group" /\ e.status = c.status /\ e.pc = c.pc
        /\ e.got = c.got /\ e.option = c.option /\ e.read = c.read /\ e.proc = c.proc
    BY <2>1, StopKeeps
  <2>3. child' = Collecting(e, "inherited") BY <1>5
  <2> HIDE DEF e
  <2>4. e.proc = "reaped" BY <1>5, <2>1, <2>2 DEF ChildBase
  <2>5. ChildInv(e) BY <1>1, <2>2 DEF ChildInv, Within, Exceeds
  <2> QED BY <1>1, <2>2, <2>3, <2>4, <2>5, CollectingKeeps
<1> QED BY <1>1, <1>2, <1>3, <1>4, <1>5

(* What comes in after the tree was stopped.                               *)
LEMMA CollectEventKeeps ==
  ASSUME NEW s \in Streams, ChildInv(child), CollectEvent(s)
  PROVE  ChildInv(child')
<1> DEFINE c == [child EXCEPT !.events = @ \ {s}, !.got = @ \cup {s}]
           d == [c EXCEPT !.error = child.error \/ Exceeds(child, s)]
<1>1. child \in ChildRecords /\ s \in child.events /\ child.pc = "collect"
  BY DEF ChildInv, ChildBase, CollectEvent, Waiting
<1>2. /\ ChildBase(c) /\ c.pc = child.pc
      /\ ~Exceeds(child, s) => ChildInv(c)
  BY <1>1, TakeKeeps
<1>3. c \in ChildRecords /\ c.error = child.error
  BY <1>1 DEF ChildRecords
<1>4. child' = d BY <1>1 DEF CollectEvent, ChildRecords
<1> HIDE DEF c
<1>5. CASE ~Exceeds(child, s)
  <2>1. d = c BY <1>3, <1>5 DEF ChildRecords
  <2> QED BY <1>2, <1>4, <1>5, <2>1
<1>6. CASE Exceeds(child, s)
  <2>1. d = [c EXCEPT !.error = TRUE] BY <1>6
  <2> HIDE DEF d
  <2>2. d \in ChildRecords BY <1>3, <2>1 DEF ChildRecords
  <2>3. ChildBase(d)
    BY <1>2, <1>3, <2>1, <2>2 DEF ChildBase, ChildRecords, Exceeds, StreamWhole, Writers
  <2>4. ~Within(d) BY <1>1, <1>2, <1>3, <2>1 DEF Within, ChildRecords
  <2> QED BY <1>4, <2>3, <2>4 DEF ChildInv
<1> QED BY <1>5, <1>6

LEMMA CollectEndsKeeps ==
  ASSUME ChildInv(child), CollectEnds
  PROVE  ChildInv(child')
<1> DEFINE pc == Outcome(child)
<1>1. child \in ChildRecords /\ child.pc = "collect"
  BY DEF ChildInv, ChildBase, CollectEnds, Waiting
<1>2. pc \in {"limit", "timeout", "inherited", "accept"}
  BY <1>1 DEF ChildInv, ChildBase, Outcome
<1>3. pc = "accept" => Within(child)
  BY <1>1 DEF ChildInv, ChildBase, Outcome, Within
<1>4. child' = [child EXCEPT !.pc = pc] BY DEF CollectEnds
<1> HIDE DEF pc
<1>5. child' \in ChildRecords BY <1>1, <1>2, <1>4 DEF ChildRecords
<1>6. ChildBase(child')
  BY <1>1, <1>2, <1>4, <1>5
     DEF ChildInv, ChildBase, ChildRecords, Exceeds, StreamWhole, Writers
<1>7. child'.pc = pc BY <1>1, <1>4 DEF ChildRecords
<1>8. Within(child') => pc = "accept" BY <1>2, <1>7 DEF Within
<1> QED BY <1>1, <1>3, <1>4, <1>6, <1>8 DEF ChildInv, ChildRecords, Exceeds

LEMMA ChildSteps ==
  ASSUME CInv, ChildNext
  PROVE  CInv'
<1>1. ChildInv(child)
  BY DEF CInv, ChildNext, Write, Reader, ReadPipe, EndOfPipe, StartHelper, ChildExits,
         HelperExits, TurnSlow, DeadlinePasses, GracePasses, WaitingThread, Poll,
         CollectEnds, AcceptEvent, CollectEvent, Waiting
<1>2. ChildInv(child')
  BY <1>1, WriteKeeps, ReaderKeeps, StartHelperKeeps, ChildExitsKeeps, HelperExitsKeeps,
     ClocksKeep, PollKeeps, CollectEndsKeeps, AcceptEventKeeps, CollectEventKeeps
     DEF ChildNext, WaitingThread
<1> QED BY <1>2 DEF CInv, ChildInv, ChildBase, ChildRecords, Within, Exceeds, StreamWhole, Writers

(* What the invariant says of a wait that has returned.                    *)
LEMMA OverByInv ==
  ASSUME CInv
  PROVE  CommandOver
<1>1. CASE child # None /\ child.pc = "ok"
  <2> SUFFICES ASSUME NEW s \in child.option.piped
               PROVE  /\ ~Writers(child, s)
                      /\ Kept(child, s) = IF child.option.capture = "truncate"
                                             /\ child.wrote[s] > Limit
                                          THEN Limit ELSE child.wrote[s]
    BY <1>1 DEF CInv, ChildInv, ChildBase, CommandOver, OutputWhole, NothingLeft, Waiting, Returned
  <2>1. ChildInv(child) BY <1>1 DEF CInv
  <2>2. s \in Streams /\ child.option.capture \in {"truncate", "hard", "unlimited"}
    BY <2>1, OptionTypes DEF ChildInv, ChildBase, ChildRecords
  <2>3. s \in child.got \cap child.option.piped BY <1>1, <2>1, <2>2 DEF ChildInv, ChildBase
  <2>4. ~Exceeds(child, s) BY <1>1, <2>1, <2>3 DEF ChildInv, Within
  <2>5. StreamWhole(child, s) BY <2>1, <2>3, <2>4 DEF ChildInv, ChildBase
  <2>6. child.read[s] \in Nat /\ child.wrote[s] \in Nat
    BY <2>1, <2>2 DEF ChildInv, ChildBase, ChildRecords
  <2> QED BY <2>2, <2>4, <2>5, <2>6, OutputAssumption DEF Kept, Exceeds, StreamWhole
<1> QED BY <1>1 DEF CInv, ChildInv, ChildBase, CommandOver, OutputWhole, NothingLeft, Waiting, Returned

(* A process that is waited for, alone.                                    *)
ChildSpec == (child = None \/ ChildInit) /\ [][ChildNext]_child

(* CommandOver, for every limit and amount of output: when wait_for_child  *)
(* returns, the command succeeded with all its output or nothing of it     *)
(* goes on.                                                                *)
THEOREM CommandsEnd == ChildSpec => []CommandOver
<1>1. child = None \/ ChildInit => CInv BY ChildStarts DEF CInv
<1>2. CInv /\ [ChildNext]_child => CInv'
  <2> SUFFICES ASSUME CInv, [ChildNext]_child PROVE CInv' OBVIOUS
  <2>1. CASE ChildNext BY <2>1, ChildSteps
  <2>2. CASE UNCHANGED child
    BY <2>2 DEF CInv, ChildInv, ChildBase, ChildRecords, Within, Exceeds, StreamWhole, Writers
  <2> QED BY <2>1, <2>2
<1>3. CInv => CommandOver BY OverByInv
<1> QED BY <1>1, <1>2, <1>3, PTL DEF ChildSpec

----------------------------------------------------------------------------
(* Logins and logouts.                                                     *)

Requests ==
  [kind : {"login", "logout", "status"}, repo : Repos, at : 1..6,
   token : Tokens \cup {HandStored, None}]

GitSteps == {"helper", "persist", "approve", "lookup", "reject"}

Leftovers ==
  [step : GitSteps, repo : Repos, token : Tokens \cup {HandStored, None}]

(* A token that no login has stored, and one that no login has stored yet. *)
Nowhere(t) ==
  (\A k \in Repos \cup {Host} : store[k] # t) /\ \A r \in Repos : kept[r] # t
Unplaced(t) == t \notin left /\ Nowhere(t)

(* A session of the repository.                                            *)
Own(t, r) == t \in Tokens /\ owner[t] = r

(* The command: a login that has its session has not stored the token; a   *)
(* logout that has found one has it from its own path in the store, and    *)
(* rejects it when it is revoked.                                          *)
CommandInv ==
  /\ command \in Requests /\ command.at <= Len(Steps[command.kind])
  /\ command.kind = "login" /\ command.at > 3 =>
       Own(command.token, command.repo) /\ Unplaced(command.token)
  /\ command.kind = "login" /\ command.at = 6 => command.repo \in pathAware
  /\ command.kind = "logout" /\ command.at > 2 =>
       Own(command.token, command.repo) /\ command.repo \in pathAware
  /\ command.kind = "logout" /\ command.at = 4 => command.token \notin active

(* What an interrupted command left behind.                                *)
OrphanInv ==
  /\ orphan \in Leftovers
  /\ orphan.step = "approve" =>
       /\ Own(orphan.token, orphan.repo) /\ Unplaced(orphan.token)
       /\ orphan.repo \in pathAware
  /\ orphan.step = "reject" =>
       /\ Own(orphan.token, orphan.repo) /\ orphan.token \notin active
       /\ orphan.repo \in pathAware

(* The two of them are never about the same token, unless it is stored.    *)
HasToken == \/ command.kind = "login" /\ command.at > 3
            \/ command.kind = "logout" /\ command.at > 2
Apart == orphan.step = "approve" /\ HasToken => orphan.token # command.token

(* The tokens in the store: at the path of a repository one of its own,    *)
(* and without a path none that a login stored.                            *)
StoreInv ==
  /\ store \in [Repos \cup {Host} -> Tokens \cup {HandStored, None}]
  /\ kept \in [Repos -> Tokens \cup {None}]
  /\ pathAware \subseteq Repos
  /\ store[Host] \in {HandStored, None}
  /\ \A r \in Repos : /\ store[r] # None => Own(store[r], r)
                      /\ kept[r] # None => Own(kept[r], r)

ServerInv ==
  /\ owner \in [Tokens \cup {HandStored} -> Repos \cup {None}] /\ owner[HandStored] = None
  /\ \A t \in left : t \in Tokens /\ owner[t] # None

LInv ==
  /\ StoreInv /\ ServerInv /\ KeepsToken /\ LoggedOut
  /\ command # None => CommandInv
  /\ orphan # None => OrphanInv
  /\ command # None /\ orphan # None => Apart

(* Where the steps are in the commands.                                    *)
LEMMA StepsAt ==
  ASSUME NEW kind \in {"login", "logout", "status"}, NEW at \in 1..6, at <= Len(Steps[kind]),
         NEW s, s = Steps[kind][at]
  PROVE  /\ s = "discover" => at = 1
         /\ s = "read" => kind = "login" /\ at = 2
         /\ s = "exchange" => kind = "login" /\ at = 3
         /\ s = "helper" => kind = "login" /\ at = 4
         /\ s = "persist" => kind = "login" /\ at = 5
         /\ s = "approve" => kind = "login" /\ at = 6
         /\ s = "lookup" => kind \in {"logout", "status"} /\ at = 2
         /\ s = "revoke" => kind = "logout" /\ at = 3
         /\ s = "reject" => kind = "logout" /\ at = 4
<1>1. CASE kind = "login" BY <1>1 DEF Steps, LoginSteps, LogoutSteps, StatusSteps
<1>2. CASE kind = "logout" BY <1>2 DEF Steps, LoginSteps, LogoutSteps, StatusSteps
<1>3. CASE kind = "status" BY <1>3 DEF Steps, LoginSteps, LogoutSteps, StatusSteps
<1> QED BY <1>1, <1>2, <1>3

Last(kind) == IF kind = "login" THEN 6 ELSE IF kind = "logout" THEN 4 ELSE 2

LEMMA Lengths ==
  ASSUME NEW kind \in {"login", "logout", "status"}
  PROVE  Len(Steps[kind]) = Last(kind) /\ Last(kind) \in 2..6
<1>1. CASE kind = "login" BY <1>1 DEF Steps, LoginSteps, Last
<1>2. CASE kind = "logout" BY <1>2 DEF Steps, LogoutSteps, Last
<1>3. CASE kind = "status" BY <1>3 DEF Steps, StatusSteps, Last
<1> QED BY <1>1, <1>2, <1>3

(* The parts of a command.                                                 *)
LEMMA CommandTypes ==
  ASSUME CommandInv
  PROVE  /\ command.kind \in {"login", "logout", "status"} /\ command.repo \in Repos
         /\ command.at \in 1..6 /\ command.token \in Tokens \cup {HandStored, None}
         /\ command.at <= Last(command.kind)
         /\ Len(Steps[command.kind]) = Last(command.kind)
BY Lengths DEF CommandInv, Requests

(* The step at which a command is.                                         *)
LEMMA StepAt ==
  ASSUME CommandInv
  PROVE  /\ Step = "discover" => command.at = 1
         /\ Step = "read" => command.kind = "login" /\ command.at = 2
         /\ Step = "exchange" => command.kind = "login" /\ command.at = 3
         /\ Step = "helper" => command.kind = "login" /\ command.at = 4
         /\ Step = "persist" => command.kind = "login" /\ command.at = 5
         /\ Step = "approve" => command.kind = "login" /\ command.at = 6
         /\ Step = "lookup" => command.kind \in {"logout", "status"} /\ command.at = 2
         /\ Step = "revoke" => command.kind = "logout" /\ command.at = 3
         /\ Step = "reject" => command.kind = "logout" /\ command.at = 4
<1> DEFINE kind == command.kind  at == command.at  s == Step
<1>1. kind \in {"login", "logout", "status"} /\ at \in 1..6 /\ at <= Len(Steps[kind])
  BY CommandTypes
<1>2. s = Steps[kind][at] BY DEF Step
<1> HIDE DEF kind, at, s
<1>3. /\ s = "discover" => at = 1
      /\ s = "read" => kind = "login" /\ at = 2
      /\ s = "exchange" => kind = "login" /\ at = 3
      /\ s = "helper" => kind = "login" /\ at = 4
      /\ s = "persist" => kind = "login" /\ at = 5
      /\ s = "approve" => kind = "login" /\ at = 6
      /\ s = "lookup" => kind \in {"logout", "status"} /\ at = 2
      /\ s = "revoke" => kind = "logout" /\ at = 3
      /\ s = "reject" => kind = "logout" /\ at = 4
  BY <1>1, <1>2, StepsAt
<1> QED BY <1>3 DEF kind, at, s

(* A command and a leftover that do not act keep what is known of them     *)
(* while sessions end, repositories become path-aware and other tokens are *)
(* placed.                                                                 *)
LEMMA CommandStays ==
  ASSUME CommandInv, command' = command, pathAware \subseteq pathAware',
         \A t \in Tokens : owner[t] # None => owner'[t] = owner[t],
         \A t \in active' : t \in active \/ owner[t] = None,
         HasToken /\ command.kind = "login" => Unplaced(command.token)'
  PROVE  CommandInv'
<1>1. command.repo # None BY LoginAssumption DEF CommandInv, Requests
<1> QED BY <1>1 DEF CommandInv, Own, HasToken

LEMMA OrphanStays ==
  ASSUME OrphanInv, orphan' = orphan, pathAware \subseteq pathAware',
         \A t \in Tokens : owner[t] # None => owner'[t] = owner[t],
         \A t \in active' : t \in active \/ owner[t] = None,
         orphan.step = "approve" => Unplaced(orphan.token)'
  PROVE  OrphanInv'
<1>1. orphan.repo # None BY LoginAssumption DEF OrphanInv, Leftovers
<1> QED BY <1>1 DEF OrphanInv, Own

(* What a Git process may do: store a token that was nowhere, at its own   *)
(* path, or erase one that is no longer accepted.                          *)
LEMMA EffectKeeps ==
  ASSUME StoreInv, ServerInv, KeepsToken, UNCHANGED server,
         NEW step, NEW r \in Repos, NEW t, Effect(step, r, t),
         step = "approve" => Own(t, r) /\ r \in pathAware,
         step = "reject" => Own(t, r) /\ t \notin active /\ r \in pathAware
  PROVE  /\ StoreInv' /\ KeepsToken' /\ pathAware \subseteq pathAware'
         /\ step = "persist" => r \in pathAware'
         /\ \A u : (\A k \in Repos \cup {Host} : store[k] # u) /\ u # None
                     /\ (step = "approve" => u # t)
                   => \A k \in Repos \cup {Host} : store'[k] # u
         /\ \A u : (\A q \in Repos : kept[q] # u) /\ (step = "approve" => u # t)
                   => \A q \in Repos : kept'[q] # u
         /\ step = "reject" => \A k \in Repos \cup {Host} : store'[k] # t
<1>1. CASE step = "persist"
  BY <1>1 DEF Effect, persist_path_aware_lookup, StoreInv, KeepsToken, Own, server
<1>2. CASE step \notin {"persist", "approve", "reject"}
  BY <1>2 DEF Effect, StoreInv, KeepsToken, Own, server
<1>3. CASE step = "approve"
  <2>1. /\ store' = [store EXCEPT ![r] = t] /\ kept' = [kept EXCEPT ![r] = t]
        /\ pathAware' = pathAware
    BY <1>3 DEF Effect, approve_with_configured_git, Key
  <2>2. t \in Tokens /\ owner[t] = r /\ owner' = owner /\ active' = active
    BY <1>3 DEF Own, server
  <2>3. r # Host BY LoginAssumption
  <2>4. /\ store' \in [Repos \cup {Host} -> Tokens \cup {HandStored, None}]
        /\ kept' \in [Repos -> Tokens \cup {None}]
        /\ store'[r] = t /\ kept'[r] = t
        /\ \A k \in Repos \cup {Host} : k # r => store'[k] = store[k]
        /\ \A q \in Repos : q # r => kept'[q] = kept[q]
    BY <2>1, <2>2 DEF StoreInv
  <2>5. StoreInv' BY <2>1, <2>2, <2>3, <2>4 DEF StoreInv, Own
  <2>6. KeepsToken' BY <2>2, <2>4 DEF KeepsToken
  <2> QED BY <1>3, <2>1, <2>4, <2>5, <2>6
<1>4. CASE step = "reject"
  <2>1. /\ store' = [store EXCEPT ![r] = IF @ = t THEN None ELSE @]
        /\ kept' = kept /\ pathAware' = pathAware
    BY <1>4 DEF Effect, RejectCredential, Key
  <2>2. t \in Tokens /\ owner[t] = r /\ owner' = owner /\ active' = active /\ t \notin active
    BY <1>4 DEF Own, server
  <2>3. r # Host /\ t # None /\ t # HandStored BY <2>2, LoginAssumption
  <2>4. /\ store' \in [Repos \cup {Host} -> Tokens \cup {HandStored, None}]
        /\ store'[r] = (IF store[r] = t THEN None ELSE store[r])
        /\ \A k \in Repos \cup {Host} : k # r => store'[k] = store[k]
    BY <2>1, <2>2 DEF StoreInv
  <2>5. StoreInv' BY <2>1, <2>2, <2>3, <2>4 DEF StoreInv, Own
  <2>6. KeepsToken' BY <2>1, <2>2, <2>4 DEF KeepsToken
  <2>7. \A k \in Repos \cup {Host} : store[k] = t => k = r
    BY <2>2, <2>3 DEF StoreInv, Own
  <2>8. \A k \in Repos \cup {Host} : store'[k] # t BY <2>3, <2>4, <2>7
  <2>9. \A u : (\A k \in Repos \cup {Host} : store[k] # u) /\ u # None
               => \A k \in Repos \cup {Host} : store'[k] # u
    BY <2>4
  <2> QED BY <1>4, <2>1, <2>5, <2>6, <2>8, <2>9
<1> QED BY <1>1, <1>2, <1>3, <1>4

(* So it places no other token, and puts no token of a reported logout     *)
(* back into the store.                                                    *)
LEMMA EffectPlaces ==
  ASSUME LInv, UNCHANGED server,
         NEW step, NEW r \in Repos, NEW t, Effect(step, r, t),
         step = "approve" => Own(t, r) /\ Unplaced(t) /\ r \in pathAware,
         step = "reject" => Own(t, r) /\ t \notin active /\ r \in pathAware,
         left' = left \/ (step = "reject" /\ left' = left \cup {t})
  PROVE  /\ StoreInv' /\ ServerInv' /\ KeepsToken' /\ LoggedOut'
         /\ pathAware \subseteq pathAware'
         /\ step = "persist" => r \in pathAware'
         /\ \A u \in Tokens : Unplaced(u) /\ (step = "approve" => u # t)
                                /\ (left' = left \/ u # t) => Unplaced(u)'
<1>1. StoreInv /\ ServerInv /\ KeepsToken /\ LoggedOut BY DEF LInv
<1>2. /\ StoreInv' /\ KeepsToken' /\ pathAware \subseteq pathAware'
      /\ step = "persist" => r \in pathAware'
      /\ \A u : (\A k \in Repos \cup {Host} : store[k] # u) /\ u # None
                  /\ (step = "approve" => u # t)
                => \A k \in Repos \cup {Host} : store'[k] # u
      /\ \A u : (\A q \in Repos : kept[q] # u) /\ (step = "approve" => u # t)
                => \A q \in Repos : kept'[q] # u
      /\ step = "reject" => \A k \in Repos \cup {Host} : store'[k] # t
  BY <1>1, EffectKeeps
<1>3. owner' = owner /\ active' = active BY DEF server
<1>4. ServerInv'
  BY <1>1, <1>3, LoginAssumption DEF ServerInv, Own
<1>5. DOMAIN store = Repos \cup {Host} /\ DOMAIN store' = Repos \cup {Host}
  BY <1>1, <1>2 DEF StoreInv
<1>6. ASSUME NEW u \in left' PROVE u \notin active' /\ \A k \in Repos \cup {Host} : store'[k] # u
  <2>1. CASE u \in left
    <3>1. u # None BY <1>1, <2>1, LoginAssumption DEF ServerInv
    <3>2. step = "approve" => u # t BY <2>1 DEF Unplaced
    <3> QED BY <1>1, <1>2, <1>3, <1>5, <2>1, <3>1, <3>2 DEF LoggedOut
  <2>2. CASE u \notin left BY <1>2, <1>3, <1>6, <2>2
  <2> QED BY <2>1, <2>2
<1>7. LoggedOut' BY <1>5, <1>6 DEF LoggedOut
<1>8. ASSUME NEW u \in Tokens, Unplaced(u), step = "approve" => u # t, left' = left \/ u # t
      PROVE  Unplaced(u)'
  <2>1. u # None BY LoginAssumption
  <2>2. u \notin left' BY <1>8 DEF Unplaced
  <2>3. Nowhere(u)' BY <1>2, <1>8, <2>1 DEF Unplaced, Nowhere
  <2> QED BY <2>2, <2>3 DEF Unplaced
<1> QED BY <1>2, <1>4, <1>7, <1>8

(* Every step keeps the invariant, one at a time.                          *)
LEMMA StartKeeps ==
  ASSUME LInv, NEW kind \in DOMAIN Steps, NEW r \in Repos, Start(kind, r)
  PROVE  LInv'
<1>1. kind \in {"login", "logout", "status"} BY DEF Steps
<1>2. command' = [kind |-> kind, repo |-> r, at |-> 1, token |-> None] BY DEF Start
<1>3. UNCHANGED <<orphan, local, server, left>> BY DEF Start
<1>4. /\ command' \in Requests /\ command'.kind = kind /\ command'.at = 1
  BY <1>1, <1>2 DEF Requests
<1>5. 1 <= Len(Steps[kind]) BY <1>1, Lengths
<1>6. CommandInv' /\ ~HasToken' BY <1>4, <1>5 DEF CommandInv, HasToken
<1>7. orphan # None => OrphanInv'
  BY <1>3, OrphanStays DEF LInv, OrphanInv, local, server, Unplaced, Nowhere
<1> QED BY <1>3, <1>6, <1>7 DEF LInv, local, server, StoreInv, ServerInv, KeepsToken, LoggedOut,
                               Own, Apart

(* A step that only ends or advances the command: what it says of the      *)
(* command after it is shown for each.                                     *)
LEMMA OnlyCommand ==
  ASSUME LInv, UNCHANGED <<orphan, local, server, left>>,
         command' # None => CommandInv',
         command' # None /\ orphan # None => Apart'
  PROVE  LInv'
<1>1. orphan # None => OrphanInv'
  BY OrphanStays DEF LInv, OrphanInv, local, server, Unplaced, Nowhere
<1> QED BY <1>1 DEF LInv, local, server, StoreInv, ServerInv, KeepsToken, LoggedOut, Own

(* A command that is not at its last step advances.                        *)
LEMMA Advances ==
  ASSUME CommandInv, NEW token \in Tokens \cup {HandStored, None}, GoOn(token),
         command.at # Len(Steps[command.kind])
  PROVE  /\ command' \in Requests /\ command'.at <= Len(Steps[command'.kind])
         /\ command'.kind = command.kind /\ command'.repo = command.repo
         /\ command'.at = command.at + 1 /\ command'.token = token
         /\ left' = left
<1>1. command \in Requests BY DEF CommandInv
<1>2. command.at \in 1..6 /\ command.at + 1 \in 1..6 BY CommandTypes DEF Last
<1>3. command' = [command EXCEPT !.at = @ + 1, !.token = token] /\ left' = left
  BY DEF GoOn
<1>4. /\ command' \in Requests /\ command'.kind = command.kind /\ command'.repo = command.repo
      /\ command'.at = command.at + 1 /\ command'.token = token
  BY <1>1, <1>2, <1>3 DEF Requests
<1>5. command'.at <= Len(Steps[command'.kind])
  BY <1>2, <1>4, CommandTypes DEF Last
<1> QED BY <1>3, <1>4, <1>5

(* The steps before a login has a session and a logout a token.            *)
LEMMA EarlyAdvance ==
  ASSUME LInv, command # None, GoOn(None),
         command.at = 1 \/ (command.kind = "login" /\ command.at = 2)
  PROVE  /\ command' # None => CommandInv' /\ ~HasToken'
         /\ left' = left
<1>1. CommandInv BY DEF LInv
<1>2. command.at # Len(Steps[command.kind]) BY <1>1, CommandTypes DEF Last
<1>3. /\ command' \in Requests /\ command'.at <= Len(Steps[command'.kind])
      /\ command'.kind = command.kind /\ command'.at = command.at + 1 /\ left' = left
  BY <1>1, <1>2, Advances
<1>4. ~HasToken' BY <1>1, <1>3 DEF HasToken, CommandInv, Requests
<1> QED BY <1>1, <1>3, <1>4 DEF CommandInv, HasToken, Requests

LEMMA DiscoverKeeps == ASSUME LInv, Discover PROVE LInv'
<1>1. command # None /\ UNCHANGED <<orphan, local, server>> BY DEF Discover, At
<1>2. CASE Fail BY <1>1, <1>2, OnlyCommand DEF Fail
<1>3. CASE GoOn(None)
  <2>1. CommandInv BY <1>1 DEF LInv
  <2>2. command.at = 1
    BY <2>1, StepAt DEF Discover, At
  <2>3. (command' # None => CommandInv' /\ ~HasToken') /\ left' = left
    BY <1>1, <1>3, <2>2, EarlyAdvance
  <2> QED BY <1>1, <2>3, OnlyCommand DEF Apart
<1> QED BY <1>2, <1>3 DEF Discover

LEMMA ReadTokenKeeps == ASSUME LInv, ReadToken PROVE LInv'
<1>1. command # None /\ UNCHANGED <<orphan, local, server>> BY DEF ReadToken, At
<1>2. CASE Fail BY <1>1, <1>2, OnlyCommand DEF Fail
<1>3. CASE GoOn(None)
  <2>1. CommandInv BY <1>1 DEF LInv
  <2>2. command.kind = "login" /\ command.at = 2
    BY <2>1, StepAt DEF ReadToken, At
  <2>3. (command' # None => CommandInv' /\ ~HasToken') /\ left' = left
    BY <1>1, <1>3, <2>2, EarlyAdvance
  <2> QED BY <1>1, <2>3, OnlyCommand DEF Apart
<1> QED BY <1>2, <1>3 DEF ReadToken

(* The server issues a token that nobody has yet.                          *)
LEMMA ExchangeKeeps == ASSUME LInv, Exchange PROVE LInv'
<1>1. command # None /\ UNCHANGED <<orphan, local>> BY DEF Exchange, At
<1>2. CommandInv /\ StoreInv /\ ServerInv /\ KeepsToken /\ LoggedOut BY <1>1 DEF LInv
<1>3. command.kind = "login" /\ command.at = 3
  BY <1>2, StepAt DEF Exchange, At
<1>4. CASE Fail /\ UNCHANGED server BY <1>1, <1>4, OnlyCommand DEF Fail
<1>5. ASSUME NEW t \in Tokens, owner[t] = None, active' = active \cup {t},
             owner' = [owner EXCEPT ![t] = command.repo], GoOn(t) \/ Fail
      PROVE  LInv'
  <2>1. /\ command.repo \in Repos /\ command.repo # None
        /\ t # None /\ t # HandStored
    BY <1>2, LoginAssumption DEF CommandInv, Requests
  <2>2. left' = left BY <1>3, <1>5 DEF GoOn, Fail
  <2>3. Unplaced(t)
    <3>1. t \notin left BY <1>2, <1>5 DEF ServerInv
    <3>2. \A r \in Repos : store[r] # t /\ kept[r] # t
      BY <1>2, <1>5, <2>1, LoginAssumption DEF StoreInv, Own
    <3>3. store[Host] # t BY <1>2, <2>1 DEF StoreInv
    <3> QED BY <3>1, <3>2, <3>3 DEF Unplaced, Nowhere
  <2>4. /\ owner' \in [Tokens \cup {HandStored} -> Repos \cup {None}]
        /\ owner'[t] = command.repo
        /\ \A u \in Tokens \cup {HandStored} : u # t => owner'[u] = owner[u]
    BY <1>2, <1>5, <2>1 DEF ServerInv
  <2>5. \A u : Unplaced(u) => Unplaced(u)' BY <1>1, <2>2 DEF Unplaced, Nowhere, local
  <2>6. StoreInv'
    BY <1>1, <1>2, <1>5, <2>1, <2>4, LoginAssumption DEF StoreInv, Own, local
  <2>7. ServerInv' BY <1>2, <1>5, <2>1, <2>2, <2>4 DEF ServerInv
  <2>8. \A r \in Repos : kept[r] # t BY <2>3 DEF Unplaced, Nowhere
  <2>9. KeepsToken' BY <1>1, <1>2, <1>5, <2>8 DEF KeepsToken, local
  <2>10. t \notin left BY <2>3 DEF Unplaced
  <2>11. LoggedOut' BY <1>1, <1>2, <1>5, <2>2, <2>10 DEF LoggedOut, local
  <2>12. \A u \in Tokens : owner[u] # None => owner'[u] = owner[u] BY <1>5, <2>4
  <2>13. \A u \in active' : u \in active \/ owner[u] = None BY <1>5
  <2>14. orphan # None => OrphanInv'
    BY <1>1, <2>5, <2>12, <2>13, OrphanStays DEF LInv, OrphanInv, local
  <2>15. CASE Fail BY <2>6, <2>7, <2>9, <2>11, <2>14, <2>15, <1>1 DEF LInv, Fail
  <2>16. CASE GoOn(t)
    <3>1. command.at # Len(Steps[command.kind]) BY <1>2, <1>3, CommandTypes DEF Last
    <3>2. /\ command' \in Requests /\ command'.kind = "login" /\ command'.at = 4
          /\ command'.token = t /\ command'.repo = command.repo
          /\ command'.at <= Len(Steps[command'.kind])
      BY <1>2, <1>3, <2>16, <3>1, Advances
    <3>3. CommandInv'
      BY <2>3, <2>4, <2>5, <3>2 DEF CommandInv, Own
    <3>4. orphan # None => Apart'
      BY <1>1, <1>5, <3>2, LoginAssumption DEF LInv, OrphanInv, Own, Apart, Leftovers
    <3> QED BY <2>6, <2>7, <2>9, <2>11, <2>14, <3>3, <3>4, <1>1 DEF LInv
  <2> QED BY <1>5, <2>15, <2>16
<1> QED BY <1>4, <1>5 DEF Exchange

(* Fewer sessions are accepted.                                            *)
LEMMA FewerAccepted ==
  ASSUME LInv, active' \subseteq active, UNCHANGED <<orphan, local, owner, left>>,
         command' # None => CommandInv',
         command' # None /\ orphan # None => Apart'
  PROVE  LInv'
<1>1. \A t \in active' : t \in active \/ owner[t] = None OBVIOUS
<1>2. orphan # None => OrphanInv'
  BY <1>1, OrphanStays DEF LInv, OrphanInv, local, Unplaced, Nowhere
<1> QED BY <1>2 DEF LInv, local, StoreInv, ServerInv, KeepsToken, LoggedOut, Own

LEMMA SessionEndsKeeps ==
  ASSUME LInv, NEW t \in active, SessionEnds(t)
  PROVE  LInv'
<1>1. active' \subseteq active /\ UNCHANGED <<command, orphan, local, owner, left>>
  BY DEF SessionEnds
<1>2. \A u \in active' : u \in active \/ owner[u] = None BY <1>1
<1>3. command # None => CommandInv'
  BY <1>1, <1>2, CommandStays DEF LInv, CommandInv, HasToken, local, Unplaced, Nowhere
<1> QED BY <1>1, <1>3, FewerAccepted DEF LInv, Apart, HasToken

(* The logout goes on only when the session is over.                       *)
LEMMA RevokeKeeps == ASSUME LInv, Revoke PROVE LInv'
<1>1. command # None /\ UNCHANGED <<orphan, local, owner>> /\ active' \subseteq active
  BY DEF Revoke, At
<1>2. CommandInv BY <1>1 DEF LInv
<1>3. command.kind = "logout" /\ command.at = 3
  BY <1>2, StepAt DEF Revoke, At
<1>4. CASE Fail BY <1>1, <1>4, FewerAccepted DEF Fail
<1>5. CASE active' = active \ {command.token} /\ GoOn(command.token)
  <2>1. command.token \in Tokens \cup {HandStored, None} BY <1>2 DEF CommandInv, Requests
  <2>2. command.at # Len(Steps[command.kind]) BY <1>2, <1>3, CommandTypes DEF Last
  <2>3. /\ command' \in Requests /\ command'.kind = "logout" /\ command'.at = 4
        /\ command'.token = command.token /\ command'.repo = command.repo /\ left' = left
        /\ command'.at <= Len(Steps[command'.kind])
    BY <1>2, <1>3, <1>5, <2>1, <2>2, Advances
  <2>4. CommandInv'
    BY <1>1, <1>2, <1>3, <1>5, <2>3 DEF CommandInv, Own, local
  <2>5. orphan # None => Apart'
    BY <1>1, <1>3, <2>3 DEF LInv, Apart, HasToken
  <2> QED BY <1>1, <2>3, <2>4, <2>5, FewerAccepted
<1>6. Over("error") = FALSE BY DEF Over
<1> QED BY <1>4, <1>5, <1>6 DEF Revoke, AfterRevoke

(* A Git process acts for a command or for what one left behind.           *)
LEMMA OrphanActsKeeps == ASSUME LInv, OrphanActs PROVE LInv'
<1>1. orphan # None /\ orphan' = None /\ UNCHANGED <<command, server, left>>
  BY DEF OrphanActs
<1>2. OrphanInv BY <1>1 DEF LInv
<1> DEFINE step == orphan.step  r == orphan.repo  t == orphan.token
<1>3. /\ r \in Repos
      /\ step = "approve" => Own(t, r) /\ Unplaced(t) /\ r \in pathAware
      /\ step = "reject" => Own(t, r) /\ t \notin active /\ r \in pathAware
  BY <1>2 DEF OrphanInv, Leftovers
<1>4. Effect(step, r, t) BY DEF OrphanActs
<1> HIDE DEF step, r, t
<1>5. /\ StoreInv' /\ ServerInv' /\ KeepsToken' /\ LoggedOut' /\ pathAware \subseteq pathAware'
      /\ \A u \in Tokens : Unplaced(u) /\ (step = "approve" => u # t) => Unplaced(u)'
  BY <1>1, <1>3, <1>4, EffectPlaces
<1>6. ASSUME command # None PROVE CommandInv'
  <2>1. CommandInv /\ Apart BY <1>1, <1>6 DEF LInv
  <2>2. HasToken /\ command.kind = "login" => Unplaced(command.token)'
    BY <1>1, <1>5, <2>1 DEF CommandInv, HasToken, Apart, Own, step, t
  <2> QED BY <1>1, <1>5, <2>1, <2>2, CommandStays DEF server
<1> QED BY <1>1, <1>5, <1>6 DEF LInv

(* A command whose Git process acted and that ends without a report.       *)
LEMMA GitFailsKeeps == ASSUME LInv, GitFails PROVE LInv'
<1>1. command # None /\ AtGitStep /\ UNCHANGED <<orphan, server, left>> /\ command' = None
  BY DEF GitFails, AtGitStep, At, Fail
<1>2. CASE UNCHANGED local BY <1>1, <1>2, OnlyCommand
<1>3. CASE Effect(Step, command.repo, command.token)
  <2> DEFINE step == Step  r == command.repo  t == command.token
  <2>1. CommandInv BY <1>1 DEF LInv
  <2>2. /\ r \in Repos
        /\ step = "approve" => Own(t, r) /\ Unplaced(t) /\ r \in pathAware /\ HasToken
        /\ step = "reject" => Own(t, r) /\ t \notin active /\ r \in pathAware
    BY <2>1, StepAt, CommandTypes DEF CommandInv, HasToken
  <2>3. Effect(step, r, t) BY <1>3
  <2> HIDE DEF step, r, t
  <2>4. /\ StoreInv' /\ ServerInv' /\ KeepsToken' /\ LoggedOut' /\ pathAware \subseteq pathAware'
        /\ \A u \in Tokens : Unplaced(u) /\ (step = "approve" => u # t) => Unplaced(u)'
    BY <1>1, <2>2, <2>3, EffectPlaces
  <2>5. ASSUME orphan # None PROVE OrphanInv'
    <3>1. OrphanInv /\ Apart BY <1>1, <2>5 DEF LInv
    <3>2. orphan.step = "approve" => Unplaced(orphan.token)'
      BY <1>1, <2>2, <2>4, <3>1 DEF OrphanInv, Apart, Own, t
    <3> QED BY <1>1, <2>4, <3>1, <3>2, OrphanStays DEF server
  <2> QED BY <1>1, <2>4, <2>5 DEF LInv
<1> QED BY <1>2, <1>3 DEF GitFails

LEMMA GitRefusesKeeps == ASSUME LInv, GitRefuses PROVE LInv'
BY OnlyCommand DEF GitRefuses, Fail

(* The interrupted command leaves its Git process behind.                  *)
LEMMA InterruptKeeps == ASSUME LInv, Interrupt PROVE LInv'
<1>1. /\ command # None /\ command' = None /\ UNCHANGED <<local, server, left>>
      /\ orphan' = IF AtGitStep
                   THEN [step |-> Step, repo |-> command.repo, token |-> command.token]
                   ELSE None
  BY DEF Interrupt, Fail
<1>2. CommandInv BY <1>1 DEF LInv
<1>3. ASSUME AtGitStep PROVE OrphanInv'
  <2>1. Step \in GitSteps BY <1>3 DEF AtGitStep, At, GitSteps
  <2>2. /\ Step = "approve" => Own(command.token, command.repo) /\ Unplaced(command.token)
                               /\ command.repo \in pathAware
        /\ Step = "reject" => Own(command.token, command.repo)
                              /\ command.token \notin active /\ command.repo \in pathAware
    BY <1>2, StepAt DEF CommandInv
  <2>3. /\ orphan'.step = Step /\ orphan'.repo = command.repo
        /\ orphan'.token = command.token /\ orphan' \in Leftovers
    BY <1>1, <1>2, <1>3, <2>1 DEF CommandInv, Requests, Leftovers
  <2> QED BY <1>1, <2>2, <2>3 DEF OrphanInv, Own, Unplaced, Nowhere, local, server
<1> QED BY <1>1, <1>3 DEF LInv, local, server, StoreInv, ServerInv, KeepsToken, LoggedOut, Own

(* What a step that did its work hands on.                                 *)
LEMMA GitSucceedsKeeps == ASSUME LInv, GitSucceeds PROVE LInv'
<1>1. /\ command # None /\ AtGitStep /\ Succeeds /\ GoOn(Found)
      /\ UNCHANGED <<orphan, server>>
  BY DEF GitSucceeds, AtGitStep, At
<1>2. CommandInv /\ StoreInv /\ ServerInv BY <1>1 DEF LInv
<1> DEFINE step == Step  r == command.repo  t == command.token  token == Found
           last == command.at = Len(Steps[command.kind])
<1>3. /\ r \in Repos
      /\ step \in GitSteps
      /\ step = "approve" => Own(t, r) /\ Unplaced(t) /\ r \in pathAware /\ HasToken
                             /\ command.kind = "login" /\ last
      /\ step = "reject" => Own(t, r) /\ t \notin active /\ r \in pathAware /\ HasToken
                            /\ command.kind = "logout" /\ last
      /\ step = "helper" => command.kind = "login" /\ command.at = 4
      /\ step = "persist" => command.kind = "login" /\ command.at = 5
      /\ step = "lookup" => command.kind \in {"logout", "status"} /\ command.at = 2
  <2>1. r \in Repos BY <1>2, CommandTypes
  <2>2. step \in GitSteps BY <1>1 DEF GitSteps, AtGitStep, At
  <2>3. /\ step = "approve" => command.kind = "login" /\ command.at = 6
        /\ step = "reject" => command.kind = "logout" /\ command.at = 4
        /\ step = "helper" => command.kind = "login" /\ command.at = 4
        /\ step = "persist" => command.kind = "login" /\ command.at = 5
        /\ step = "lookup" => command.kind \in {"logout", "status"} /\ command.at = 2
    BY <1>2, StepAt
  <2>4. step = "approve" => Own(t, r) /\ Unplaced(t) /\ r \in pathAware /\ HasToken /\ last
    BY <1>2, <2>3, CommandTypes DEF CommandInv, HasToken, Last
  <2>5. step = "reject" => Own(t, r) /\ t \notin active /\ r \in pathAware /\ HasToken /\ last
    BY <1>2, <2>3, CommandTypes DEF CommandInv, HasToken, Last
  <2> HIDE DEF step, last
  <2> QED BY <2>1, <2>2, <2>3, <2>4, <2>5
<1>4. Effect(step, r, t) BY DEF GitSucceeds
<1>5. token \in Tokens \cup {HandStored, None} /\ (step # "lookup" => token = t)
  <2>1. Key(r) \in Repos \cup {Host} BY <1>3 DEF Key
  <2>2. step = "lookup" => token = store[Key(r)] BY <1>1 DEF Found, At
  <2>3. step # "lookup" => token = t BY DEF Found, At
  <2> QED BY <1>2, <2>1, <2>2, <2>3 DEF StoreInv, CommandInv, Requests
<1>6. step = "lookup" => Own(token, r) /\ r \in pathAware /\ token = store[r]
  <2> SUFFICES ASSUME step = "lookup" PROVE Own(token, r) /\ r \in pathAware /\ token = store[r]
    OBVIOUS
  <2>1. store[Key(r)] # None /\ Key(r) = r /\ token = store[Key(r)]
    BY <1>1 DEF Succeeds, At, LookupFinds, PathMatches, Found
  <2>2. r # Host BY <1>3, LoginAssumption
  <2> QED BY <1>2, <1>3, <2>1, <2>2 DEF Key, StoreInv
<1>7. left' = left \/ (step = "reject" /\ left' = left \cup {t})
  <2>1. CASE ~last BY <1>1, <2>1 DEF GoOn
  <2>2. CASE last /\ command.kind = "logout"
    <3>1. command.at = 4 BY <1>2, <2>2, CommandTypes DEF Last
    <3>2. step = "reject"
      <4>1. command.kind = "logout" BY <2>2
      <4> HIDE DEF step, last, r, t
      <4>2. step # "lookup" BY <1>3, <3>1
      <4>3. step # "approve" /\ step # "helper" /\ step # "persist" BY <1>3, <4>1
      <4>4. step \in GitSteps BY <1>3
      <4> QED BY <4>2, <4>3, <4>4 DEF GitSteps
    <3> QED BY <1>1, <1>5, <2>2, <3>2 DEF GoOn
  <2>3. CASE last /\ command.kind # "logout" BY <1>1, <2>3 DEF GoOn
  <2> QED BY <2>1, <2>2, <2>3
<1> DEFINE onwards == GoOn(token) /\ ~last
<1>8. command' # None => onwards BY <1>1 DEF GoOn
<1> HIDE DEF step, r, t, token, last, onwards
<1>9. /\ StoreInv' /\ ServerInv' /\ KeepsToken' /\ LoggedOut' /\ pathAware \subseteq pathAware'
      /\ step = "persist" => r \in pathAware'
      /\ \A u \in Tokens : Unplaced(u) /\ (step = "approve" => u # t)
                             /\ (left' = left \/ u # t) => Unplaced(u)'
  BY <1>1, <1>3, <1>4, <1>7, EffectPlaces
<1>10. ASSUME orphan # None PROVE OrphanInv'
  <2>1. OrphanInv /\ Apart BY <1>1, <1>10 DEF LInv
  <2>2. orphan.step = "approve" => Unplaced(orphan.token)'
    BY <1>1, <1>3, <1>7, <1>9, <2>1 DEF OrphanInv, Apart, Own, t
  <2> QED BY <1>1, <1>9, <2>1, <2>2, OrphanStays DEF server
<1>11. ASSUME onwards PROVE CommandInv' /\ (orphan # None => Apart')
  <2>1. /\ command' \in Requests /\ command'.at <= Len(Steps[command'.kind])
        /\ command'.kind = command.kind /\ command'.repo = r
        /\ command'.at = command.at + 1 /\ command'.token = token /\ left' = left
    BY <1>2, <1>5, <1>11, Advances DEF onwards, last, r
  <2>2. UNCHANGED <<active, owner>> BY <1>1 DEF server
  <2>3. step # "approve" /\ step # "reject" BY <1>3, <1>11 DEF onwards
  <2>4. CASE step = "lookup" /\ command.kind = "logout"
    <3>1. command'.kind = "logout" /\ command'.at = 3 BY <1>3, <2>1, <2>4, CommandTypes
    <3>2. Own(command.token, command.repo)' /\ command'.repo \in pathAware'
      BY <1>6, <1>9, <2>1, <2>2, <2>4 DEF Own
    <3>3. CommandInv' BY <2>1, <3>1, <3>2 DEF CommandInv
    <3>4. orphan # None => Apart'
      BY <1>1, <1>3, <1>6, <2>1, <2>4 DEF LInv, OrphanInv, Apart, Unplaced, Nowhere
    <3> QED BY <3>3, <3>4
  <2>5. CASE step = "lookup" /\ command.kind = "status"
    BY <2>1, <2>5 DEF CommandInv, Apart, HasToken
  <2>6. CASE step \in {"helper", "persist"}
    <3>1. /\ command'.kind = "login" /\ command'.at \in {5, 6}
          /\ command'.at = 6 => step = "persist"
          /\ command.kind = "login" /\ command.at \in {4, 5}
          /\ token = t
      BY <1>3, <1>5, <2>1, <2>6
    <3>2. Own(t, r) /\ Unplaced(t) BY <1>2, <3>1, CommandTypes DEF CommandInv, t, r
    <3>3. Own(command.token, command.repo)' BY <2>1, <2>2, <3>1, <3>2 DEF Own
    <3>4. Unplaced(command.token)'
      <4>1. command'.token \in Tokens BY <2>1, <3>1, <3>2 DEF Own
      <4>2. Unplaced(command'.token) BY <2>1, <3>1, <3>2
      <4> QED BY <1>9, <2>1, <2>3, <4>1, <4>2
    <3>5. CommandInv' BY <1>9, <2>1, <3>1, <3>3, <3>4 DEF CommandInv
    <3>6. orphan # None => Apart'
      BY <1>1, <2>1, <3>1 DEF LInv, Apart, HasToken, t
    <3> QED BY <3>5, <3>6
  <2> QED BY <1>3, <2>3, <2>4, <2>5, <2>6 DEF GitSteps
<1> QED BY <1>1, <1>8, <1>9, <1>10, <1>11 DEF LInv

LEMMA LoginStarts == LoginInit => LInv
<1> SUFFICES ASSUME LoginInit PROVE LInv OBVIOUS
<1>1. /\ store \in [Repos \cup {Host} -> {HandStored, None}]
      /\ \A r \in Repos : store[r] = None
  BY DEF LoginInit
<1>2. StoreInv BY <1>1 DEF LoginInit, StoreInv
<1>3. ServerInv BY DEF LoginInit, ServerInv
<1>4. KeepsToken
  <2>1. \A r \in Repos : kept[r] = None BY DEF LoginInit
  <2>2. None \notin active BY LoginAssumption DEF LoginInit
  <2> QED BY <2>1, <2>2 DEF KeepsToken
<1>5. LoggedOut BY DEF LoginInit, LoggedOut
<1> QED BY <1>2, <1>3, <1>4, <1>5 DEF LoginInit, LInv

LEMMA LoginKeeps == ASSUME LInv, LoginNext PROVE LInv'
<1>1. ASSUME NEW r \in Repos, Leave(r) PROVE LInv'
  <2>1. UNCHANGED <<command, orphan, local, server, left>> BY <1>1 DEF Leave
  <2>2. command = None BY <1>1 DEF Leave
  <2> QED BY <2>1, <2>2, OnlyCommand
<1>2. CASE Proceed
  BY <1>2, DiscoverKeeps, ReadTokenKeeps, ExchangeKeeps, RevokeKeeps, GitSucceedsKeeps,
     GitRefusesKeeps, GitFailsKeeps DEF Proceed
<1> QED
  BY <1>1, <1>2, StartKeeps, InterruptKeeps, OrphanActsKeeps, SessionEndsKeeps DEF LoginNext

(* Logins and logouts, alone: the Git steps have the outcomes of a wait.   *)
LoginSpec == LoginInit /\ [][LoginNext]_loginVars

(* CredentialsAgree, for any repositories, tokens and number of faults:    *)
(* the credential store of Git and the sessions of the server agree,       *)
(* whichever of the two a login or a logout failed or was killed in        *)
(* between.                                                                *)
THEOREM StoreAgrees == LoginSpec => []CredentialsAgree
<1>1. LoginInit => LInv BY LoginStarts
<1>2. LInv /\ [LoginNext]_loginVars => LInv'
  <2> SUFFICES ASSUME LInv, [LoginNext]_loginVars PROVE LInv' OBVIOUS
  <2>1. CASE LoginNext BY <2>1, LoginKeeps
  <2>2. CASE UNCHANGED loginVars
    <3>1. UNCHANGED <<command, orphan, local, server, left>>
      BY <2>2 DEF loginVars, local, server
    <3>2. command # None => CommandInv'
      BY <3>1, CommandStays DEF LInv, CommandInv, HasToken, local, server, Unplaced, Nowhere
    <3> QED BY <3>1, <3>2, OnlyCommand DEF LInv, Apart, HasToken
  <2> QED BY <2>1, <2>2
<1>3. LInv => CredentialsAgree
  <2> SUFFICES ASSUME LInv PROVE CredentialsAgree OBVIOUS
  <2>1. RevokesOwn
    <3> SUFFICES ASSUME At("revoke") PROVE owner[command.token] = command.repo
      BY DEF RevokesOwn
    <3>1. CommandInv BY DEF LInv, At
    <3>2. command.kind = "logout" /\ command.at = 3
      BY <3>1, StepAt DEF At
    <3> QED BY <3>1, <3>2 DEF CommandInv, Own
  <2> QED BY <2>1 DEF LInv, CredentialsAgree
<1> QED BY <1>1, <1>2, <1>3, PTL DEF LoginSpec

----------------------------------------------------------------------------
(* The upload of a migration: its inductive invariant, by its parts.       *)
(*                                                                         *)
(* Every append that broke off was a failure or a kill.                    *)
BreaksInv == TypeOK /\ breaks <= MaxBreaks + kills

(* What an invocation is about to record, or has reported, is in the       *)
(* target or was deleted from it; so is what it restored, and what the     *)
(* checkpoint would restore.                                               *)
Known == stored \cup removed

JobInv ==
  \A r \in Runs, o \in Objects :
    job[r][o] \in {"recordPresent", "recordUploaded"} \cup Success => o \in Known

(* It was in the target during the invocation, since when it may be gone.  *)
LiveInv ==
  \A r \in Runs, o \in Objects :
    job[r][o] \in {"recordPresent", "recordUploaded"} \cup Success
      => o \in stored \cup gone[r]

FileInv ==
  /\ \A r \in Runs : restored[r] \subseteq Known
  /\ Restored \subseteq Known

(* As long as no append broke off, the checkpoint consists of whole lines, *)
(* and keeps what was restored from it and what was reported.              *)
WholeInv ==
  breaks = 0 =>
    /\ tail = Empty
    /\ \A r \in Runs : restored[r] \subseteq LinesOf(lines)
    /\ \A r \in Runs, o \in Objects : job[r][o] \in Success => o \in LinesOf(lines)

IInv == BreaksInv /\ JobInv /\ LiveInv /\ FileInv /\ WholeInv

----------------------------------------------------------------------------
(* What an append does to the lines of the checkpoint.                     *)

LEMMA Constants ==
  /\ MaxBreaks \in Nat /\ MaxKills \in Nat /\ MaxStarts \in Nat
  /\ Garbled \notin Objects /\ Torn \notin Objects /\ Empty \notin Objects
  BY MarkAssumption, CountAssumption

LEMMA Appended ==
  ASSUME TypeOK, NEW e
  PROVE  LinesOf(Append(lines, e)) = LinesOf(lines) \cup {e}
<1>1. /\ Len(lines) \in Nat /\ DOMAIN lines = 1..Len(lines)
      /\ DOMAIN Append(lines, e) = 1..(Len(lines) + 1)
      /\ Append(lines, e)[Len(lines) + 1] = e
      /\ \A k \in 1..Len(lines) : Append(lines, e)[k] = lines[k]
  BY DEF TypeOK
<1>2. ASSUME NEW x \in LinesOf(Append(lines, e)) PROVE x \in LinesOf(lines) \cup {e}
  BY <1>1 DEF LinesOf
<1>3. ASSUME NEW x \in LinesOf(lines) PROVE x \in LinesOf(Append(lines, e))
  BY <1>1 DEF LinesOf
<1>4. e \in LinesOf(Append(lines, e))
  BY <1>1 DEF LinesOf
<1> QED
  BY <1>2, <1>3, <1>4

(* A whole line keeps what the lines hold, and may hold one object more.   *)
LEMMA LineWritten ==
  ASSUME TypeOK, NEW o \in Objects, WriteLine(o)
  PROVE  /\ lines' \in Seq(Objects \cup {Garbled}) /\ tail' = Empty /\ breaks' = breaks
         /\ LinesOf(lines) \subseteq LinesOf(lines')
         /\ tail = Empty => o \in LinesOf(lines')
         /\ Restored' \subseteq Restored \cup {o}
<1> DEFINE e == IF tail = Empty THEN o ELSE Garbled
<1>1. lines' = Append(lines, e) /\ tail' = Empty /\ breaks' = breaks
  BY DEF WriteLine
<1>2. e \in Objects \cup {Garbled} /\ e \in {o, Garbled} /\ (tail = Empty => e = o)
  OBVIOUS
<1> HIDE DEF e
<1>3. LinesOf(lines') = LinesOf(lines) \cup {e}
  BY <1>1, Appended
<1>4. lines' \in Seq(Objects \cup {Garbled})
  BY <1>1, <1>2 DEF TypeOK
<1>5. Restored' \subseteq Restored \cup {o}
  BY <1>1, <1>2, <1>3, Constants DEF Restored
<1> QED
  BY <1>1, <1>2, <1>3, <1>4, <1>5

(* Some of its bytes leave the lines as they were.                         *)
LEMMA BytesWritten ==
  ASSUME TypeOK, NEW o \in Objects, WriteSomeOf(o)
  PROVE  /\ lines' = lines /\ tail' \in Objects \cup {Torn, Empty}
         /\ breaks' = breaks + 1 /\ breaks' # 0
         /\ Restored' \subseteq Restored \cup {o}
<1>1. lines' = lines /\ tail' \in {Empty, Torn, o, tail} /\ breaks' = breaks + 1
  BY DEF WriteSomeOf
<1>2. Restored' \subseteq Restored \cup {o}
  BY <1>1, Constants DEF Restored
<1> QED
  BY <1>1, <1>2 DEF TypeOK

(* Every step keeps the types, and counts the appends that broke off.      *)
LEMMA TypeStep == BreaksInv /\ [Next]_vars => BreaksInv'
<1> SUFFICES ASSUME BreaksInv, [Next]_vars PROVE BreaksInv'
  OBVIOUS
<1>1. ASSUME NEW r \in Runs, Invoke(r) PROVE BreaksInv'
  BY <1>1, Constants
  DEF BreaksInv, TypeOK, RunStates, Jobs, Busy, Outcomes, Success, Invoke,
      checkpoint, target
<1>2. ASSUME NEW r \in Runs, Load(r) PROVE BreaksInv'
  <2>1. Restored \in SUBSET Objects
    BY DEF Restored
  <2> QED
    BY <1>2, <2>1, Constants
    DEF Load, checkpoint, target, BreaksInv, TypeOK, RunStates, Jobs, Busy,
        Outcomes, Success
<1>3. ASSUME NEW r \in Runs, Refuse(r) PROVE BreaksInv'
  BY <1>3, Constants
  DEF BreaksInv, TypeOK, RunStates, Jobs, Busy, Outcomes, Success, Refuse,
      checkpoint, target
<1>4. ASSUME NEW r \in Runs, Finish(r) PROVE BreaksInv'
  BY <1>4, Constants
  DEF BreaksInv, TypeOK, RunStates, Jobs, Busy, Outcomes, Success, Finish,
      checkpoint, target
<1>5. ASSUME NEW r \in Runs, Kill(r) PROVE BreaksInv'
  <2>1. CASE UNCHANGED checkpoint
    BY <1>5, <2>1, Constants
    DEF Kill, checkpoint, target, BreaksInv, TypeOK, RunStates, Jobs, Busy,
        Outcomes, Success
  <2>2. ASSUME NEW o \in Objects, job[r][o] \in {"recordPresent", "recordUploaded"},
               WriteSomeOf(o)
        PROVE  BreaksInv'
    BY <1>5, <2>2, BytesWritten, Constants
    DEF Kill, target, BreaksInv, TypeOK, RunStates, Jobs, Busy, Outcomes,
        Success
  <2>3. ASSUME NEW o \in Objects, job[r][o] \in {"recordPresent", "recordUploaded"},
               WriteLine(o)
        PROVE  BreaksInv'
    BY <1>5, <2>3, LineWritten, Constants
    DEF Kill, target, BreaksInv, TypeOK, RunStates, Jobs, Busy, Outcomes,
        Success
  <2> QED
    BY <1>5, <2>1, <2>2, <2>3 DEF Kill
<1>6. ASSUME NEW r \in Runs, NEW o \in Objects, Take(r, o) PROVE BreaksInv'
  BY <1>6, Constants
  DEF BreaksInv, TypeOK, RunStates, Jobs, Busy, Outcomes, Success, Take,
      SetJob, checkpoint, target
<1>7. ASSUME NEW r \in Runs, NEW o \in Objects, CheckTarget(r, o) PROVE BreaksInv'
  BY <1>7, Constants
  DEF BreaksInv, TypeOK, RunStates, Jobs, Busy, Outcomes, Success,
      CheckTarget, SetJob, checkpoint, target
<1>8. ASSUME NEW r \in Runs, NEW o \in Objects, Upload(r, o) PROVE BreaksInv'
  BY <1>8, Constants
  DEF BreaksInv, TypeOK, RunStates, Jobs, Busy, Outcomes, Success, Upload,
      SetJob, checkpoint, target
<1>9. ASSUME NEW r \in Runs, NEW o \in Objects, TransferFails(r, o) PROVE BreaksInv'
  BY <1>9, Constants
  DEF BreaksInv, TypeOK, RunStates, Jobs, Busy, Outcomes, Success,
      TransferFails, SetJob, checkpoint, target
<1>10. ASSUME NEW r \in Runs, NEW o \in Objects, Record(r, o) PROVE BreaksInv'
  <2>1. TypeOK /\ WriteLine(o)
    BY <1>10 DEF Record, BreaksInv
  <2>2. lines' \in Seq(Objects \cup {Garbled}) /\ tail' = Empty /\ breaks' = breaks
    BY <2>1, LineWritten
  <2> QED
    BY <1>10, <2>2, Constants
    DEF Record, SetJob, Reported, target, BreaksInv, TypeOK, RunStates, Jobs,
        Busy, Outcomes, Success
<1>11. ASSUME NEW r \in Runs, NEW o \in Objects, RecordFails(r, o) PROVE BreaksInv'
  <2>1. TypeOK /\ (WriteSomeOf(o) \/ WriteLine(o)) /\ breaks < MaxBreaks
    BY <1>11 DEF RecordFails, BreaksInv
  <2>2. /\ lines' \in Seq(Objects \cup {Garbled}) /\ tail' \in Objects \cup {Torn, Empty}
        /\ breaks' \in {breaks, breaks + 1}
    BY <2>1, BytesWritten, LineWritten DEF TypeOK
  <2> QED
    BY <1>11, <2>1, <2>2, Constants
    DEF RecordFails, SetJob, target, BreaksInv, TypeOK, RunStates, Jobs, Busy,
        Outcomes, Success
<1>12. ASSUME NEW o \in Objects, DeleteFromTarget(o) PROVE BreaksInv'
  BY <1>12, Constants
  DEF BreaksInv, TypeOK, RunStates, Jobs, Busy, Outcomes, Success,
      DeleteFromTarget, checkpoint, target
<1>13. CASE UNCHANGED vars
  BY <1>13, Constants
  DEF BreaksInv, TypeOK, RunStates, Jobs, Busy, Outcomes, Success, vars,
      checkpoint, target
<1> QED
  BY <1>1, <1>2, <1>3, <1>4, <1>5, <1>6, <1>7, <1>8, <1>9, <1>10, <1>11,
     <1>12, <1>13
  DEF Next, Advance

(* Nothing is reported or recorded that was not in the target: a restored  *)
(* completion is checked against it when it is used.                       *)
LEMMA JobStep == TypeOK /\ JobInv /\ FileInv /\ [Next]_vars => JobInv'
<1> SUFFICES ASSUME TypeOK, JobInv, FileInv, [Next]_vars PROVE JobInv'
  OBVIOUS
<1>1. ASSUME NEW r \in Runs, Invoke(r) PROVE JobInv'
  BY <1>1
  DEF TypeOK, JobInv, Known, Success, Jobs, FileInv, Invoke, checkpoint,
      target
<1>2. ASSUME NEW r \in Runs, Load(r) PROVE JobInv'
  BY <1>2
  DEF TypeOK, JobInv, Known, Success, Jobs, FileInv, Load, checkpoint, target
<1>3. ASSUME NEW r \in Runs, Refuse(r) PROVE JobInv'
  BY <1>3
  DEF TypeOK, JobInv, Known, Success, Jobs, FileInv, Refuse, checkpoint,
      target
<1>4. ASSUME NEW r \in Runs, Finish(r) PROVE JobInv'
  BY <1>4
  DEF TypeOK, JobInv, Known, Success, Jobs, FileInv, Finish, checkpoint,
      target
<1>5. ASSUME NEW r \in Runs, Kill(r) PROVE JobInv'
  BY <1>5
  DEF TypeOK, JobInv, Known, Success, Jobs, FileInv, Kill, checkpoint, target
<1>6. ASSUME NEW r \in Runs, NEW o \in Objects, Take(r, o) PROVE JobInv'
  BY <1>6
  DEF TypeOK, JobInv, Known, Success, Jobs, FileInv, Take, SetJob, checkpoint,
      target
<1>7. ASSUME NEW r \in Runs, NEW o \in Objects, CheckTarget(r, o) PROVE JobInv'
  BY <1>7
  DEF TypeOK, JobInv, Known, Success, Jobs, FileInv, CheckTarget, SetJob,
      checkpoint, target
<1>8. ASSUME NEW r \in Runs, NEW o \in Objects, Upload(r, o) PROVE JobInv'
  BY <1>8
  DEF TypeOK, JobInv, Known, Success, Jobs, FileInv, Upload, SetJob,
      checkpoint, target
<1>9. ASSUME NEW r \in Runs, NEW o \in Objects, TransferFails(r, o) PROVE JobInv'
  BY <1>9
  DEF TypeOK, JobInv, Known, Success, Jobs, FileInv, TransferFails, SetJob,
      checkpoint, target
<1>10. ASSUME NEW r \in Runs, NEW o \in Objects, Record(r, o) PROVE JobInv'
  BY <1>10
  DEF TypeOK, JobInv, Known, Success, Jobs, FileInv, Record, SetJob, Reported,
      checkpoint, target
<1>11. ASSUME NEW r \in Runs, NEW o \in Objects, RecordFails(r, o) PROVE JobInv'
  BY <1>11
  DEF TypeOK, JobInv, Known, Success, Jobs, FileInv, RecordFails, SetJob,
      checkpoint, target
<1>12. ASSUME NEW o \in Objects, DeleteFromTarget(o) PROVE JobInv'
  BY <1>12
  DEF TypeOK, JobInv, Known, Success, Jobs, FileInv, DeleteFromTarget,
      checkpoint, target
<1>13. CASE UNCHANGED vars
  BY <1>13
  DEF TypeOK, JobInv, Known, Success, Jobs, FileInv, vars, checkpoint, target
<1> QED
  BY <1>1, <1>2, <1>3, <1>4, <1>5, <1>6, <1>7, <1>8, <1>9, <1>10, <1>11,
     <1>12, <1>13
  DEF Next, Advance

(* What is about to be recorded or reported was found or stored by this    *)
(* invocation; what is deleted since then is counted as gone.              *)
LEMMA LiveStep == TypeOK /\ LiveInv /\ [Next]_vars => LiveInv'
<1> SUFFICES ASSUME TypeOK, LiveInv, [Next]_vars PROVE LiveInv'
  OBVIOUS
<1>1. ASSUME NEW r \in Runs, Invoke(r) PROVE LiveInv'
  BY <1>1
  DEF TypeOK, LiveInv, Success, Jobs, Invoke, checkpoint,
      target
<1>2. ASSUME NEW r \in Runs, Load(r) PROVE LiveInv'
  BY <1>2
  DEF TypeOK, LiveInv, Success, Jobs, Load, checkpoint, target
<1>3. ASSUME NEW r \in Runs, Refuse(r) PROVE LiveInv'
  BY <1>3
  DEF TypeOK, LiveInv, Success, Jobs, Refuse, checkpoint,
      target
<1>4. ASSUME NEW r \in Runs, Finish(r) PROVE LiveInv'
  BY <1>4
  DEF TypeOK, LiveInv, Success, Jobs, Finish, checkpoint,
      target
<1>5. ASSUME NEW r \in Runs, Kill(r) PROVE LiveInv'
  BY <1>5
  DEF TypeOK, LiveInv, Success, Jobs, Kill, checkpoint, target
<1>6. ASSUME NEW r \in Runs, NEW o \in Objects, Take(r, o) PROVE LiveInv'
  BY <1>6
  DEF TypeOK, LiveInv, Success, Jobs, Take, SetJob, checkpoint,
      target
<1>7. ASSUME NEW r \in Runs, NEW o \in Objects, CheckTarget(r, o) PROVE LiveInv'
  BY <1>7
  DEF TypeOK, LiveInv, Success, Jobs, CheckTarget, SetJob,
      checkpoint, target
<1>8. ASSUME NEW r \in Runs, NEW o \in Objects, Upload(r, o) PROVE LiveInv'
  BY <1>8
  DEF TypeOK, LiveInv, Success, Jobs, Upload, SetJob,
      checkpoint, target
<1>9. ASSUME NEW r \in Runs, NEW o \in Objects, TransferFails(r, o) PROVE LiveInv'
  BY <1>9
  DEF TypeOK, LiveInv, Success, Jobs, TransferFails, SetJob,
      checkpoint, target
<1>10. ASSUME NEW r \in Runs, NEW o \in Objects, Record(r, o) PROVE LiveInv'
  BY <1>10
  DEF TypeOK, LiveInv, Success, Jobs, Record, SetJob, Reported,
      checkpoint, target
<1>11. ASSUME NEW r \in Runs, NEW o \in Objects, RecordFails(r, o) PROVE LiveInv'
  BY <1>11
  DEF TypeOK, LiveInv, Success, Jobs, RecordFails, SetJob,
      checkpoint, target
<1>12. ASSUME NEW o \in Objects, DeleteFromTarget(o) PROVE LiveInv'
  BY <1>12
  DEF TypeOK, LiveInv, Success, Jobs, DeleteFromTarget,
      checkpoint, target
<1>13. CASE UNCHANGED vars
  BY <1>13
  DEF TypeOK, LiveInv, Success, Jobs, vars, checkpoint, target
<1> QED
  BY <1>1, <1>2, <1>3, <1>4, <1>5, <1>6, <1>7, <1>8, <1>9, <1>10, <1>11,
     <1>12, <1>13
  DEF Next, Advance

(* The checkpoint never claims an object that was not in the target.       *)
LEMMA FileStep == TypeOK /\ JobInv /\ FileInv /\ [Next]_vars => FileInv'
<1> SUFFICES ASSUME TypeOK, JobInv, FileInv, [Next]_vars PROVE FileInv'
  OBVIOUS
<1>1. ASSUME NEW r \in Runs, Invoke(r) PROVE FileInv'
  BY <1>1
  DEF TypeOK, FileInv, Known, Restored, Invoke, checkpoint, target
<1>2. ASSUME NEW r \in Runs, Load(r) PROVE FileInv'
  BY <1>2
  DEF TypeOK, FileInv, Known, Restored, Load, checkpoint, target
<1>3. ASSUME NEW r \in Runs, Refuse(r) PROVE FileInv'
  BY <1>3
  DEF TypeOK, FileInv, Known, Restored, Refuse, checkpoint, target
<1>4. ASSUME NEW r \in Runs, Finish(r) PROVE FileInv'
  BY <1>4
  DEF TypeOK, FileInv, Known, Restored, Finish, checkpoint, target
<1>5. ASSUME NEW r \in Runs, Kill(r) PROVE FileInv'
  <2>1. \A s \in Runs : restored'[s] \subseteq restored[s]
    BY <1>5 DEF TypeOK, Kill
  <2>2. Known' = Known
    BY <1>5 DEF Kill, target, Known
  <2>3. CASE UNCHANGED checkpoint
    BY <2>1, <2>2, <2>3 DEF FileInv, Restored, checkpoint
  <2>4. ASSUME NEW o \in Objects, job[r][o] \in {"recordPresent", "recordUploaded"},
               WriteSomeOf(o) \/ WriteLine(o)
        PROVE  FileInv'
    <3>1. Restored' \subseteq Restored \cup {o}
      BY <2>4, BytesWritten, LineWritten
    <3>2. o \in Known
      BY <2>4 DEF JobInv
    <3> QED
      BY <2>1, <2>2, <3>1, <3>2 DEF FileInv
  <2> QED
    BY <1>5, <2>3, <2>4 DEF Kill
<1>6. ASSUME NEW r \in Runs, NEW o \in Objects, Take(r, o) PROVE FileInv'
  BY <1>6
  DEF TypeOK, FileInv, Known, Restored, Take, SetJob, checkpoint, target
<1>7. ASSUME NEW r \in Runs, NEW o \in Objects, CheckTarget(r, o) PROVE FileInv'
  BY <1>7
  DEF TypeOK, FileInv, Known, Restored, CheckTarget, SetJob, checkpoint,
      target
<1>8. ASSUME NEW r \in Runs, NEW o \in Objects, Upload(r, o) PROVE FileInv'
  BY <1>8
  DEF TypeOK, FileInv, Known, Restored, Upload, SetJob, checkpoint, target
<1>9. ASSUME NEW r \in Runs, NEW o \in Objects, TransferFails(r, o) PROVE FileInv'
  BY <1>9
  DEF TypeOK, FileInv, Known, Restored, TransferFails, SetJob, checkpoint,
      target
<1>10. ASSUME NEW r \in Runs, NEW o \in Objects, Record(r, o) PROVE FileInv'
  <2>1. Restored' \subseteq Restored \cup {o}
    BY <1>10, LineWritten DEF Record
  <2>2. o \in Known
    BY <1>10 DEF Record, JobInv
  <2>3. restored' = restored /\ Known' = Known
    BY <1>10 DEF Record, target, Known
  <2> QED
    BY <2>1, <2>2, <2>3 DEF FileInv
<1>11. ASSUME NEW r \in Runs, NEW o \in Objects, RecordFails(r, o) PROVE FileInv'
  <2>1. Restored' \subseteq Restored \cup {o}
    BY <1>11, BytesWritten, LineWritten DEF RecordFails
  <2>2. o \in Known
    BY <1>11 DEF RecordFails, JobInv
  <2>3. restored' = restored /\ Known' = Known
    BY <1>11 DEF RecordFails, target, Known
  <2> QED
    BY <2>1, <2>2, <2>3 DEF FileInv
<1>12. ASSUME NEW o \in Objects, DeleteFromTarget(o) PROVE FileInv'
  BY <1>12
  DEF TypeOK, FileInv, Known, Restored, DeleteFromTarget, checkpoint, target
<1>13. CASE UNCHANGED vars
  BY <1>13
  DEF TypeOK, FileInv, Known, Restored, vars, checkpoint, target
<1> QED
  BY <1>1, <1>2, <1>3, <1>4, <1>5, <1>6, <1>7, <1>8, <1>9, <1>10, <1>11,
     <1>12, <1>13
  DEF Next, Advance

(* An append is one whole line, and comes before the report.               *)
LEMMA WholeStep == TypeOK /\ WholeInv /\ [Next]_vars => WholeInv'
<1> SUFFICES ASSUME TypeOK, WholeInv, [Next]_vars PROVE WholeInv'
  OBVIOUS
<1>1. ASSUME NEW r \in Runs, Invoke(r) PROVE WholeInv'
  BY <1>1
  DEF TypeOK, WholeInv, Success, Invoke, checkpoint, target
<1>2. ASSUME NEW r \in Runs, Load(r) PROVE WholeInv'
  <2>1. breaks = 0 => Restored \subseteq LinesOf(lines)
    BY Constants DEF WholeInv, Restored
  <2> QED
    BY <1>2, <2>1 DEF TypeOK, WholeInv, Load, checkpoint
<1>3. ASSUME NEW r \in Runs, Refuse(r) PROVE WholeInv'
  BY <1>3
  DEF TypeOK, WholeInv, Success, Refuse, checkpoint, target
<1>4. ASSUME NEW r \in Runs, Finish(r) PROVE WholeInv'
  BY <1>4
  DEF TypeOK, WholeInv, Success, Finish, checkpoint, target
<1>5. ASSUME NEW r \in Runs, Kill(r) PROVE WholeInv'
  <2>1. \A s \in Runs : restored'[s] \subseteq restored[s]
    BY <1>5 DEF TypeOK, Kill
  <2>2. \A s \in Runs, x \in Objects : job'[s][x] \in Success => job[s][x] \in Success
    BY <1>5 DEF TypeOK, Kill, Success
  <2>3. CASE UNCHANGED checkpoint
    BY <2>1, <2>2, <2>3 DEF WholeInv, checkpoint
  <2>4. ASSUME NEW o \in Objects, WriteSomeOf(o) PROVE WholeInv'
    BY <2>4, BytesWritten DEF WholeInv
  <2>5. ASSUME NEW o \in Objects, WriteLine(o) PROVE WholeInv'
    <3>1. tail' = Empty /\ breaks' = breaks /\ LinesOf(lines) \subseteq LinesOf(lines')
      BY <2>5, LineWritten
    <3> QED
      BY <2>1, <2>2, <3>1 DEF WholeInv
  <2> QED
    BY <1>5, <2>3, <2>4, <2>5 DEF Kill
<1>6. ASSUME NEW r \in Runs, NEW o \in Objects, Take(r, o) PROVE WholeInv'
  BY <1>6
  DEF TypeOK, WholeInv, Success, Take, SetJob, checkpoint, target
<1>7. ASSUME NEW r \in Runs, NEW o \in Objects, CheckTarget(r, o) PROVE WholeInv'
  BY <1>7
  DEF TypeOK, WholeInv, Success, CheckTarget, SetJob, checkpoint, target
<1>8. ASSUME NEW r \in Runs, NEW o \in Objects, Upload(r, o) PROVE WholeInv'
  BY <1>8
  DEF TypeOK, WholeInv, Success, Upload, SetJob, checkpoint, target
<1>9. ASSUME NEW r \in Runs, NEW o \in Objects, TransferFails(r, o) PROVE WholeInv'
  BY <1>9
  DEF TypeOK, WholeInv, Success, TransferFails, SetJob, checkpoint, target
<1>10. ASSUME NEW r \in Runs, NEW o \in Objects, Record(r, o) PROVE WholeInv'
  <2>1. /\ tail' = Empty /\ breaks' = breaks /\ LinesOf(lines) \subseteq LinesOf(lines')
        /\ tail = Empty => o \in LinesOf(lines')
    BY <1>10, LineWritten DEF Record
  <2>2. restored' = restored
    BY <1>10 DEF Record
  <2>3. \A s \in Runs, x \in Objects :
          job'[s][x] \in Success => x = o \/ job[s][x] \in Success
    BY <1>10 DEF TypeOK, Record, SetJob
  <2> QED
    BY <2>1, <2>2, <2>3 DEF WholeInv
<1>11. ASSUME NEW r \in Runs, NEW o \in Objects, RecordFails(r, o) PROVE WholeInv'
  <2>1. CASE WriteSomeOf(o)
    BY <2>1, BytesWritten DEF WholeInv
  <2>2. CASE WriteLine(o)
    <3>1. tail' = Empty /\ breaks' = breaks /\ LinesOf(lines) \subseteq LinesOf(lines')
      BY <2>2, LineWritten
    <3>2. restored' = restored
      BY <1>11 DEF RecordFails
    <3>3. \A s \in Runs, x \in Objects : job'[s][x] \in Success => job[s][x] \in Success
      BY <1>11 DEF TypeOK, RecordFails, SetJob, Success
    <3> QED
      BY <3>1, <3>2, <3>3 DEF WholeInv
  <2> QED
    BY <1>11, <2>1, <2>2 DEF RecordFails
<1>12. ASSUME NEW o \in Objects, DeleteFromTarget(o) PROVE WholeInv'
  BY <1>12
  DEF TypeOK, WholeInv, Success, DeleteFromTarget, checkpoint, target
<1>13. CASE UNCHANGED vars
  BY <1>13
  DEF TypeOK, WholeInv, Success, vars, checkpoint, target
<1> QED
  BY <1>1, <1>2, <1>3, <1>4, <1>5, <1>6, <1>7, <1>8, <1>9, <1>10, <1>11,
     <1>12, <1>13
  DEF Next, Advance

----------------------------------------------------------------------------
(* The theorems.                                                           *)

LEMMA NothingYet == Init => IInv
<1> SUFFICES ASSUME Init PROVE IInv
  OBVIOUS
<1>1. BreaksInv
  BY Constants DEF Init, BreaksInv, TypeOK, RunStates, Jobs
<1>2. LinesOf(lines) = {}
  BY DEF Init, LinesOf
<1>3. JobInv /\ LiveInv /\ FileInv /\ WholeInv
  BY <1>2, Constants DEF Init, JobInv, LiveInv, FileInv, WholeInv, Restored, Success
<1> QED
  BY <1>1, <1>3 DEF IInv

LEMMA Invariance == Spec => []IInv
<1>1. IInv /\ [Next]_vars => IInv'
  BY TypeStep, JobStep, LiveStep, FileStep, WholeStep DEF IInv, BreaksInv
<1> QED
  BY <1>1, NothingYet, PTL DEF Spec

(* The state of the invocations and of the checkpoint keeps its shape, and *)
(* only failures and kills break an append off (WriteSomeOf).              *)
THEOREM MigrationTyped == Spec => []TypeOK
<1>1. IInv => TypeOK
  BY DEF IInv, BreaksInv
<1> QED
  BY <1>1, Invariance, PTL

(* Whatever is killed, broken off or run twice, no invocation reports and  *)
(* no checkpoint claims an object that was never in the target; and while  *)
(* appends are whole, what was reported is restored                        *)
(* (checkpoint_migration_upload_outcome, parse_migration_upload_checkpoint).*)
THEOREM ReportsTruthful == Spec => []CheckpointTruthful
<1>1. IInv => CheckpointTruthful
  BY Constants
  DEF IInv, JobInv, FileInv, WholeInv, Known, Restored, CheckpointTruthful,
      NothingInvented, ReportedIsRecorded
<1> QED
  BY <1>1, Invariance, PTL

(* What an invocation reports as present, uploaded or resumed was in the   *)
(* target while it ran, whoever else records, deletes or is killed: the    *)
(* checkpoint saves an upload, and is not believed                         *)
(* (upload_migration_objects_to_storage_with_options).                     *)
THEOREM SuccessesLive == Spec => []SuccessWasLive
<1>1. IInv => SuccessWasLive
  BY DEF IInv, LiveInv, SuccessWasLive
<1> QED
  BY <1>1, Invariance, PTL

=============================================================================

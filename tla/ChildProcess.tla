---------------------------- MODULE ChildProcess ----------------------------
(***************************************************************************)
(* How a command waits for a process it started (wait_for_child).  A       *)
(* thread per piped output reads until the end of the pipe and sends what  *)
(* it read to the waiting thread, which polls the process, its deadline    *)
(* and the events.  The process may start a helper that inherits the       *)
(* pipes, outlives it, and may even leave the process group that the       *)
(* waiting thread can stop.                                                *)
(***************************************************************************)
EXTENDS Naturals

CONSTANTS
  None,
  Limit,       \* the limit of a captured output, in units
  MaxOutput    \* a process writes at most this much to a pipe (bound)

ASSUME OutputAssumption == Limit \in Nat /\ MaxOutput \in Nat

VARIABLE child   \* the process waited for and its waiting thread, or None

Streams == {"stdout", "stderr"}

(* ChildProcessOptions, as each caller sets them, and the streams it pipes. *)
Option(piped, timeout, capture, inherited_pipe_is_error) ==
  [piped |-> piped, timeout |-> timeout, capture |-> capture,
   inherited_pipe_is_error |-> inherited_pipe_is_error]

CredentialOption(piped) == Option(piped, TRUE, "truncate", FALSE)
FetchOption == Option(Streams, TRUE, "hard", TRUE)
CheckAttrOption == Option({"stdout"}, FALSE, "unlimited", FALSE)
MigrationOption == Option(Streams, FALSE, "hard", TRUE)

Options ==
  {CredentialOption(piped) : piped \in {Streams, {"stdout"}, {"stderr"}}}
    \cup {FetchOption, CheckAttrOption, MigrationOption}

Started(option) ==
  [option |-> option,
   proc   |-> "running",    \* the direct child: running, exited or reaped
   exit   |-> None,         \* its status
   helper |-> "none",       \* a descendant: in the group, escaped or gone
   holds  |-> {},           \* the pipes the helper has open
   slow   |-> FALSE,        \* the machine or the child lets deadlines pass
   wrote  |-> [s \in Streams |-> 0],
   read   |-> [s \in Streams |-> 0],
   sent   |-> {},           \* the readers that have sent their event
   events |-> {},           \* the events not received yet
   got    |-> Streams \ option.piped,  \* the outputs the waiting thread has
   status |-> None,         \* the status it has
   late   |-> FALSE,        \* its deadline has passed
   grace  |-> FALSE,        \* OUTPUT_DRAIN_GRACE has passed since the exit
   why    |-> None,         \* why the process tree was stopped
   error  |-> FALSE,        \* an event collected after that was an error
   pc     |-> "accept"]

ChildInit == child \in {Started(option) : option \in Options}

Waiting(phase) == child # None /\ child.pc = phase
Returned == child # None /\ child.pc \notin {"accept", "collect"}

----------------------------------------------------------------------------
(* The process and its helper.                                             *)

Writers(c, s) == c.proc = "running" \/ s \in c.holds

Write(s) ==
  /\ child # None /\ s \in child.option.piped /\ Writers(child, s)
  /\ child.wrote[s] < MaxOutput
  /\ child' = [child EXCEPT !.wrote[s] = @ + 1]

StartHelper(place) ==
  /\ child # None /\ child.proc = "running" /\ child.helper = "none"
  /\ \E pipes \in {{}, child.option.piped} :
       child' = [child EXCEPT !.helper = place, !.holds = pipes]

HelperExits ==
  /\ child # None /\ child.helper \in {"group", "escaped"}
  /\ child' = [child EXCEPT !.helper = "gone", !.holds = {}]

ChildExits(status) ==
  /\ child # None /\ child.proc = "running"
  /\ child' = [child EXCEPT !.proc = "exited", !.exit = status]

TurnSlow == child # None /\ ~child.slow /\ child' = [child EXCEPT !.slow = TRUE]

----------------------------------------------------------------------------
(* The reader threads.                                                     *)

Exceeds(c, s) == c.option.capture = "hard" /\ c.read[s] > Limit
Kept(c, s) == IF c.option.capture = "unlimited" \/ c.read[s] < Limit
              THEN c.read[s] ELSE Limit

Send(c, s) == [c EXCEPT !.sent = @ \cup {s}, !.events = @ \cup {s}]

ReadPipe(s) ==
  /\ child # None /\ s \in child.option.piped \ child.sent
  /\ child.read[s] < child.wrote[s]
  /\ LET c == [child EXCEPT !.read[s] = child.wrote[s]]
     IN  child' = IF Exceeds(c, s) THEN Send(c, s) ELSE c

EndOfPipe(s) ==
  /\ child # None /\ s \in child.option.piped \ child.sent
  /\ child.read[s] = child.wrote[s] /\ ~Writers(child, s)
  /\ child' = Send(child, s)

----------------------------------------------------------------------------
(* The waiting thread.                                                     *)

DeadlinePasses ==
  /\ child # None /\ child.option.timeout /\ child.slow /\ ~child.late
  /\ child' = [child EXCEPT !.late = TRUE]

Stuck(c) == c.slow \/ c.holds # {}

GracePasses ==
  /\ child # None /\ child.status # None /\ Stuck(child) /\ ~child.grace
  /\ child' = [child EXCEPT !.grace = TRUE]

(* stop_process_tree signals the process group.                            *)
stop_process_tree(c) ==
  IF c.helper = "group" THEN [c EXCEPT !.helper = "gone", !.holds = {}] ELSE c

(* terminate_process_tree also kills and reaps the direct child.           *)
terminate_process_tree(c) == [stop_process_tree(c) EXCEPT !.proc = "reaped"]

Collecting(c, why) == [c EXCEPT !.pc = "collect", !.why = why]

(* An event that came in: output, or a limit that was exceeded.            *)
AcceptEvent(s) ==
  /\ Waiting("accept") /\ s \in child.events
  /\ LET c == [child EXCEPT !.events = @ \ {s}, !.got = @ \cup {s}]
     IN  child' = IF Exceeds(child, s)
                  THEN Collecting(terminate_process_tree(c), "limit") ELSE c

process_tree_has_descendants(c) == c.helper = "group"

(* Only completed readers are joined, so that joining takes no time.       *)
ReadersJoinedAll(c) == c.option.piped \subseteq c.sent   \* mutant
ReadersJoined(c) == c.option.piped \cap c.got \subseteq c.sent

CompleteOnExit(c) == TRUE   \* mutant: the exit of the child is enough
Complete(c) == c.got = Streams

(* With no event left, the child and the clocks are looked at.             *)
Poll ==
  /\ Waiting("accept") /\ child.events = {}
  /\ LET c == IF child.proc = "exited"
              THEN [child EXCEPT !.proc = "reaped", !.status = child.exit]
              ELSE child
     IN  child' = CASE c.status # None /\ Complete(c) -> [c EXCEPT !.pc = "ok"]
                    [] c.status = None /\ c.late ->
                         Collecting(terminate_process_tree(c), "timeout")
                    [] c.status # None
                       /\ (process_tree_has_descendants(c) \/ c.grace) ->
                         Collecting(stop_process_tree(c), "inherited")
                    [] OTHER -> c

(* collect_pipe_events: what still comes in before OUTPUT_DRAIN_AFTER_STOP. *)
CollectEvent(s) ==
  /\ Waiting("collect") /\ s \in child.events /\ child.got # Streams
  /\ child' = [child EXCEPT !.events = @ \ {s}, !.got = @ \cup {s},
                            !.error = @ \/ Exceeds(child, s)]

Outcome(c) ==
  CASE c.why # "inherited" -> c.why
    [] c.error -> "limit"
    [] c.got # Streams \/ c.option.inherited_pipe_is_error -> "inherited"
    [] OTHER -> "accept"

CollectEnds ==
  /\ Waiting("collect")
  /\ child.got = Streams \/ Stuck(child)
  /\ ReadersJoined(child)
  /\ child' = [child EXCEPT !.pc = Outcome(child)]

----------------------------------------------------------------------------
Reader(s) == ReadPipe(s) \/ EndOfPipe(s)
WaitingThread ==
  \/ Poll \/ CollectEnds
  \/ \E s \in Streams : AcceptEvent(s) \/ CollectEvent(s)

ChildNext ==
  \/ \E s \in Streams : Write(s) \/ Reader(s)
  \/ \E place \in {"group", "escaped"} : StartHelper(place)
  \/ \E status \in {"success", "failure"} : ChildExits(status)
  \/ HelperExits \/ TurnSlow \/ DeadlinePasses \/ GracePasses
  \/ WaitingThread

(* The client's threads run and its clocks advance.  A child that is not   *)
(* slow exits before its deadline; nothing is assumed of a helper.         *)
ChildFairness ==
  /\ WF_child(WaitingThread) /\ WF_child(DeadlinePasses) /\ WF_child(GracePasses)
  /\ \A s \in Streams : WF_child(Reader(s))
  /\ WF_child(\E status \in {"success", "failure"} :
                ChildExits(status) /\ ~child.slow)

----------------------------------------------------------------------------
(* A command that was waited for to its end has given all its output, up   *)
(* to the limit: the child was reaped, nobody can write to a pipe any more *)
(* and nothing that was written is missing.                                *)
OutputWhole ==
  Waiting("ok") =>
    /\ child.proc = "reaped" /\ child.status = child.exit
    /\ \A s \in child.option.piped :
         /\ ~Writers(child, s)
         /\ Kept(child, s) = IF child.option.capture = "truncate"
                                /\ child.wrote[s] > Limit
                             THEN Limit ELSE child.wrote[s]

(* A command given up, for whatever reason, leaves no process of its group *)
(* behind: neither the child nor a helper it started goes on, writing to a *)
(* repository or a credential store after the error was reported.          *)
NothingLeft ==
  Returned /\ child.pc # "ok" =>
    child.proc = "reaped" /\ child.helper # "group"

(* When wait_for_child returns, the command is over: it succeeded with all *)
(* its output, or it failed and nothing of it goes on.                     *)
CommandOver == OutputWhole /\ NothingLeft

(* With a timeout the wait ends, whatever hangs, exits late or keeps the   *)
(* pipes open, inside or outside the process group.                        *)
Returns == (child # None /\ child.option.timeout) ~> (child = None \/ Returned)
=============================================================================

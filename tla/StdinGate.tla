------------------------------- MODULE StdinGate -------------------------------
(***************************************************************************)
(* Who reads the keyboard: cli.StdinBroker, the REPL (cli.main), the       *)
(* acknowledgement task of a sprint (_acknowledge_on_input) and the wait   *)
(* of human_gate_node.                                                     *)
(*                                                                         *)
(* One daemon thread pumps stdin into a queue.  The REPL takes from it     *)
(* between sprints, the acknowledgement task during one, where each line   *)
(* sets the event a human gate waits on.  The supervisor's loop runs       *)
(* sprints without the REPL, and so does a one-shot run.  A coroutine runs *)
(* undisturbed from one await to the next, so each such stretch is one     *)
(* action; the operator, the thread and the timer interleave with them.    *)
(*                                                                         *)
(* Of a sprint only its gates are left (module HiveSprint has the rest),   *)
(* of a line only what the REPL makes of it.                               *)
(***************************************************************************)
EXTENDS Naturals, Sequences

CONSTANTS
  MaxLines,    (* bound: lines the operator types            *)
  MaxSprints,  (* bound: sprints a run of the program starts *)
  MaxGates     (* bound: human gates in one sprint           *)

ASSUME GateAssumption ==
  MaxLines \in Nat /\ MaxSprints \in Nat /\ MaxGates \in Nat

Lines == {"blank", "objective", "exit"}
EOF == "EOF"

VARIABLES
  stdin,       (* what the operator has typed and the thread not yet read *)
  closed,      (* the operator's end of stdin is closed                   *)
  queue,       (* StdinBroker._queue                                      *)
  pump,        (* the thread: "reading" or "returned"                     *)
  driver,      (* who starts the sprints                                  *)
  main,        (* where the coroutine that runs the sprints is            *)
  ack,         (* the acknowledgement task                                *)
  gate_event,  (* human_gate_event of the running sprint                  *)
  sprints,     (* sprints started                                         *)
  gates,       (* gates the running sprint has been through               *)
  (* history, read by properties only *)
  typed,       (* every line typed                                        *)
  read,        (* every line a consumer took                              *)
  taken,       (* what the acknowledgement task took in this sprint       *)
  acked        (* the gates of this sprint that were acknowledged         *)

terminal == <<stdin, closed, typed>>
broker == <<queue, pump, read>>
gate == <<gate_event, gates, acked>>
vars == <<terminal, broker, gate, driver, main, ack, sprints, taken>>

Init ==
  /\ stdin = <<>> /\ closed = FALSE /\ typed = <<>>
  /\ queue = <<>> /\ pump = "reading" /\ read = <<>>
  /\ driver \in {"repl", "oneshot", "loop"}
  /\ main = "prompt"
  /\ ack = "none" /\ taken = 0
  /\ gate_event = FALSE /\ gates = 0 /\ acked = 0
  /\ sprints = 0

-----------------------------------------------------------------------------
(* The operator, and the pipe that stands in for one. *)

Type ==
  /\ ~closed /\ Len(typed) < MaxLines
  /\ \E line \in Lines :
       stdin' = Append(stdin, line) /\ typed' = Append(typed, line)
  /\ UNCHANGED <<closed, broker, gate, driver, main, ack, sprints, taken>>

Close ==
  /\ ~closed
  /\ closed' = TRUE
  /\ UNCHANGED <<stdin, typed, broker, gate, driver, main, ack, sprints, taken>>

-----------------------------------------------------------------------------
(***************************************************************************)
(* _pump, and put_nowait on the loop's side of call_soon_threadsafe.       *)
(***************************************************************************)
Pump ==
  /\ pump = "reading"
  /\ \/ /\ stdin # <<>>
        /\ queue' = Append(queue, Head(stdin))
        /\ stdin' = Tail(stdin)
        /\ UNCHANGED pump
     \/ /\ stdin = <<>> /\ closed
        /\ queue' = Append(queue, EOF)
        /\ pump' = "returned"
        /\ UNCHANGED stdin
  /\ UNCHANGED <<closed, typed, read, gate, driver, main, ack, sprints, taken>>

(* Mutant: EOF goes to the consumer that reads it first. *)
ReadLineSwallows(item) ==
  /\ queue # <<>>
  /\ item = Head(queue)
  /\ queue' = Tail(queue)
  /\ read' = IF item = EOF THEN read ELSE Append(read, item)
  /\ UNCHANGED pump

(* Mutant: the consumer is handed the marker itself. *)
ReadLineLeaksMarker(item) ==
  /\ queue # <<>>
  /\ item = Head(queue)
  /\ queue' = IF item = EOF THEN Append(Tail(queue), EOF) ELSE Tail(queue)
  /\ read' = Append(read, item)
  /\ UNCHANGED pump

(***************************************************************************)
(* readline: EOF goes back to the queue for the other consumer.            *)
(***************************************************************************)
ReadLine(item) ==
  /\ queue # <<>>
  /\ item = Head(queue)
  /\ \/ item = EOF /\ queue' = Append(Tail(queue), EOF) /\ UNCHANGED read
     \/ item # EOF /\ queue' = Tail(queue) /\ read' = Append(read, item)
  /\ UNCHANGED pump

(* Mutant: the sprint gets the event of the one before. *)
StartSprintKeepsEvent ==
  /\ sprints < MaxSprints
  /\ sprints' = sprints + 1
  /\ main' = "sprint"
  /\ ack' = "reading" /\ taken' = 0
  /\ gates' = 0 /\ acked' = 0 /\ UNCHANGED gate_event

(***************************************************************************)
(* A sprint has an event of its own, and a task that sets it.              *)
(***************************************************************************)
StartSprint ==
  /\ sprints < MaxSprints
  /\ sprints' = sprints + 1
  /\ main' = "sprint"
  /\ ack' = "reading" /\ taken' = 0
  /\ gate_event' = FALSE /\ gates' = 0 /\ acked' = 0

NoSprint == UNCHANGED <<gate, ack, sprints, taken>>

(* Mutant: the end of input is an empty line. *)
PromptIgnoresEOF ==
  /\ driver = "repl" /\ main = "prompt"
  /\ \E item \in Lines \cup {EOF} :
       /\ ReadLine(item)
       /\ \/ item = "objective" /\ StartSprint
          \/ item = "exit" /\ main' = "over" /\ NoSprint
          \/ item \in {"blank", "objective", EOF} /\ UNCHANGED main /\ NoSprint
  /\ UNCHANGED <<terminal, driver>>

(***************************************************************************)
(* The prompt.  An objective whose contract does not parse is reported,    *)
(* and the prompt comes back.                                              *)
(***************************************************************************)
Prompt ==
  /\ driver = "repl" /\ main = "prompt"
  /\ \E item \in Lines \cup {EOF} :
       /\ ReadLine(item)
       /\ \/ item = "objective" /\ StartSprint
          \/ item \in {"exit", EOF} /\ main' = "over" /\ NoSprint
          \/ item \in {"blank", "objective"} /\ UNCHANGED main /\ NoSprint
  /\ UNCHANGED <<terminal, driver>>

(***************************************************************************)
(* The drivers that do not read: one sprint from an objective file, or     *)
(* the supervisor's sprints until its backlog is done with.                *)
(***************************************************************************)
Unattended ==
  /\ driver \in {"oneshot", "loop"} /\ main = "prompt"
  /\ \/ (driver = "loop" \/ sprints = 0) /\ StartSprint
     \/ main' = "over" /\ NoSprint
  /\ UNCHANGED <<terminal, broker, driver>>

(***************************************************************************)
(* _acknowledge_on_input reads one line, or EOF, and sets the event.       *)
(***************************************************************************)
Acknowledge ==
  /\ ack = "reading"
  /\ \E item \in Lines \cup {EOF} :
       /\ ReadLine(item)
       /\ ack' = IF item = EOF THEN "returned" ELSE "reading"
  /\ gate_event' = TRUE
  /\ taken' = taken + 1
  /\ UNCHANGED <<terminal, driver, main, gates, acked, sprints>>

(* Mutant: an acknowledgement is never used up. *)
KeepEvent == acked' = acked + 1 /\ UNCHANGED gate_event

(***************************************************************************)
(* The event is cleared for the next gate of the sprint.                   *)
(***************************************************************************)
UseEvent == acked' = acked + 1 /\ gate_event' = FALSE

(***************************************************************************)
(* A gate that finds the event set does not wait.                          *)
(***************************************************************************)
GateOpens ==
  /\ main = "sprint" /\ gates < MaxGates
  /\ gates' = gates + 1
  /\ \/ gate_event /\ UseEvent /\ UNCHANGED main
     \/ ~gate_event /\ main' = "gate" /\ UNCHANGED <<gate_event, acked>>
  /\ UNCHANGED <<terminal, broker, driver, ack, sprints, taken>>

GateAcknowledged ==
  /\ main = "gate" /\ gate_event
  /\ UseEvent
  /\ main' = "sprint"
  /\ UNCHANGED <<terminal, broker, driver, gates, ack, sprints, taken>>

(* Mutant: the wait has no timeout. *)
GateWaitsForEver ==
  /\ main = "gate" /\ gate_event
  /\ main' = "sprint"
  /\ UNCHANGED <<terminal, broker, gate, driver, ack, sprints, taken>>

(***************************************************************************)
(* The timer may run out in the turn of the loop that sets the event: the  *)
(* gate has timed out, and the event stays set.                            *)
(***************************************************************************)
GateTimesOut ==
  /\ main = "gate"
  /\ main' = "sprint"
  /\ UNCHANGED <<terminal, broker, gate, driver, ack, sprints, taken>>

(* Mutant: nobody cancels the task. *)
SprintLeavesTask ==
  /\ main = "sprint"
  /\ main' = "finally"
  /\ UNCHANGED <<terminal, broker, gate, driver, ack, sprints, taken>>

(***************************************************************************)
(* run_sprint's finally: the task is cancelled, and then waited for.  What *)
(* the thread delivers in between stays in the queue: get() takes its item *)
(* only when the task runs again, and a cancelled task runs to die, though *)
(* an item has woken it.  A task that has read the end of input is done.   *)
(***************************************************************************)
SprintCancels ==
  /\ main = "sprint"
  /\ main' = "finally"
  /\ ack' = IF ack = "reading" THEN "cancelled" ELSE ack
  /\ UNCHANGED <<terminal, broker, gate, driver, sprints, taken>>

AckDies ==
  /\ ack = "cancelled"
  /\ ack' = "returned"
  /\ UNCHANGED <<terminal, broker, gate, driver, main, sprints, taken>>

(* Mutant: the task is cancelled, and not waited for. *)
SprintEndsUnawaited ==
  /\ main = "finally"
  /\ ack' = IF ack = "returned" THEN "none" ELSE ack
  /\ main' \in {"prompt"} \cup {m \in {"over"} : driver = "repl"}
  /\ UNCHANGED <<terminal, broker, gate, driver, sprints, taken>>

(***************************************************************************)
(* The wait is over.  The REPL shuts down after a sprint that raised, the  *)
(* supervisor goes on.                                                     *)
(***************************************************************************)
SprintEnds ==
  /\ main = "finally" /\ ack = "returned"
  /\ ack' = "none"
  /\ main' \in {"prompt"} \cup {m \in {"over"} : driver = "repl"}
  /\ UNCHANGED <<terminal, broker, gate, driver, sprints, taken>>

Over == main = "over" /\ UNCHANGED vars

Main ==
  \/ Prompt \/ Unattended \/ GateOpens \/ GateAcknowledged \/ GateTimesOut
  \/ SprintCancels \/ SprintEnds

AckTask == Acknowledge \/ AckDies

Next == Type \/ Close \/ Pump \/ AckTask \/ Main \/ Over

Spec == Init /\ [][Next]_vars

(***************************************************************************)
(* The thread reads what there is, the event loop runs each coroutine that *)
(* is ready, and the timer of a gate runs out.  Nothing makes the operator *)
(* type, or leave.                                                         *)
(***************************************************************************)
FairSpec == Spec /\ WF_vars(Pump) /\ WF_vars(AckTask) /\ WF_vars(Main)

-----------------------------------------------------------------------------
(* Every variable keeps its type; no consumer is handed the EOF marker. *)
TypeOK ==
  /\ stdin \in Seq(Lines) /\ typed \in Seq(Lines) /\ read \in Seq(Lines)
  /\ closed \in BOOLEAN
  /\ queue \in Seq(Lines \cup {EOF})
  /\ pump \in {"reading", "returned"}
  /\ driver \in {"repl", "oneshot", "loop"}
  /\ main \in {"prompt", "sprint", "gate", "finally", "over"}
  /\ ack \in {"none", "reading", "cancelled", "returned"}
  /\ gate_event \in BOOLEAN
  /\ sprints \in Nat /\ gates \in Nat /\ taken \in Nat /\ acked \in Nat

(***************************************************************************)
(* The two consumers together get every line once and in the order it was  *)
(* typed, and the end of input stays behind the last of them for whoever   *)
(* asks, however often it has been read.                                   *)
(***************************************************************************)
NoLineLost ==
  \/ pump = "reading" /\ typed = read \o queue \o stdin
  \/ /\ pump = "returned" /\ closed
     /\ stdin = <<>> /\ typed \o <<EOF>> = read \o queue

(***************************************************************************)
(* A line, or the end of input, acknowledges one gate at most, and of the  *)
(* sprint it was taken in: neither a second gate nor the next sprint is    *)
(* waved through on it.                                                    *)
(***************************************************************************)
AcksAreEarned == acked + (IF gate_event THEN 1 ELSE 0) <= taken

(***************************************************************************)
(* The prompt never competes for a line with the task of a sprint that is  *)
(* over: an objective typed at it starts a sprint.  Nor does one that is   *)
(* cancelled linger while the next sprint starts a task of its own.        *)
(***************************************************************************)
PromptOwnsInput ==
  /\ ack # "none" => main \in {"sprint", "gate", "finally"}
  /\ ack = "reading" => main \in {"sprint", "gate"}

(***************************************************************************)
(* Nobody at the keyboard: a gate ends all the same.                       *)
(***************************************************************************)
GateEnds == main = "gate" ~> main # "gate"

(***************************************************************************)
(* The end of input ends the REPL, also when it comes during a sprint and  *)
(* the acknowledgement task is the first to read it.                       *)
(***************************************************************************)
ShutsDown == closed /\ driver = "repl" ~> main = "over"

(***************************************************************************)
(* cli.py, where the acknowledgement task reads the end of input: "Auto-   *)
(* acknowledge every future gate".  A gate opened after that does not wait *)
(* for a human, nor for its timeout.                                       *)
(***************************************************************************)
HeadlessNeverWaits == ~(main = "gate" /\ ack = "returned" /\ ~gate_event)
=============================================================================

------------------------------ MODULE HiveSprint ------------------------------
(***************************************************************************)
(* One sprint of the hive: the LangGraph state machine that               *)
(* orchestrator.py wires and cli.run_sprint drives.                        *)
(*                                                                         *)
(* The graph runs one node at a time.  A node reads the whole state and    *)
(* returns the fields it changes, so a node is one action, and `pc` names  *)
(* the node that runs next.  The model calls that feed the nodes (the      *)
(* plan, the tickets, the code, the verdicts) and the sandbox run of       *)
(* generated code are the environment: every answer they can give is a     *)
(* disjunct or an \E.                                                      *)
(*                                                                         *)
(* What is abstracted.  A ticket is its file and whether its text is       *)
(* blank: _collapse_by_file leaves one ticket per file.  An error is the   *)
(* node that raised it and a fingerprint, the text _error_hash is taken    *)
(* of.  Generated code is what the reviewer can tell of it.  Prompts,      *)
(* messages, verdict texts and metrics are left out.                       *)
(***************************************************************************)
EXTENDS Naturals, Sequences, FiniteSets

CONSTANTS
  Files,          (* workspace paths a ticket may name                        *)
  MainFile,       (* outputs/main.py, the active file before there is a queue *)
  Prints,         (* fingerprints of normalised error texts                   *)
  NoError,        (* editor_error = None                                      *)
  MaxTickets,     (* the longest queue the ticket writer returns              *)
  TaskTexts,      (* ticket texts: "" is the blank one, "text" any other      *)
  CodeKinds,      (* what the editor may write                                *)
  TaskKinds,      (* what the router may classify a task as                   *)
  Floors,         (* tier_floor the sprint may be started with                *)
  Transient,      (* TRUE: a review of working code may fail all the same     *)
  MuteExceptions, (* TRUE: the editor may be handed an exception without text *)
  MaxRetries,     (* config.MAX_RETRIES                                       *)
  EscalateAfter,  (* config.ESCALATE_AFTER_FAILURES                           *)
  ForceTier,      (* config.FORCE_TIER                                        *)
  RecursionLimits (* config.RECURSION_LIMIT, of which a process reads one     *)

Tiers == {"fast", "strong"}
Reporters == {"ticket_writer", "editor", "reviewer", "semantic"}
Error == [by : Reporters, print : Prints]
Ticket == [file : Files, text : TaskTexts]

(***************************************************************************)
(* MAX_RETRIES = 0 would send a ticket to the gate on its first error, as  *)
(* 1 does; the module is about retry ladders of at least one attempt.      *)
(***************************************************************************)
ASSUME SprintAssumption ==
  /\ NoError \notin Error
  /\ MainFile \in Files
  /\ Prints # {}
  /\ MaxTickets \in Nat \ {0}
  /\ TaskTexts \subseteq {"", "text"}
  /\ CodeKinds \subseteq {"works", "crashes", "syntax"}
  /\ TaskKinds \subseteq [ui : BOOLEAN, hard : BOOLEAN]
  /\ Floors \subseteq {"None", "strong"}
  /\ Transient \in BOOLEAN
  /\ MuteExceptions \in BOOLEAN
  /\ MaxRetries \in Nat \ {0}
  /\ EscalateAfter \in Nat
  /\ ForceTier \in {"", "fast", "strong"}
  /\ RecursionLimits \subseteq Nat

VARIABLES
  (* HiveState, the fields the control flow reads *)
  current_task,        (* "None", "" or "text"                               *)
  active_file,
  task_queue,          (* tickets behind the current one                     *)
  project_files,       (* the code generated per file                        *)
  editor_error,
  editor_retries,
  loop_health,         (* attempt_count, repeat_error_hash, escalated        *)
  contract_satisfied,  (* "None", "True" or "False"                          *)
  task_kind,           (* is_ui_task and task_complexity = "hard"            *)
  model_tier,
  tier_floor,
  contracts,           (* the files a human wrote an acceptance contract for *)
  recursion_limit,     (* of the process the sprint runs in                  *)
  sprint_escalated,
  (* the driver: LangGraph's loop and run_sprint *)
  pc,
  steps,               (* supersteps taken                                   *)
  budget_exhausted,
  final,               (* what run_sprint keeps of the deltas: failed,       *)
                       (* escalated, sticky                                  *)
  loop_md,             (* the status LOOP.md is headed with                  *)
  status,              (* the status the journal records                     *)
  (* history, read by properties only *)
  planned,             (* the queue as the ticket writer returned it         *)
  retired,             (* files whose ticket the semantic reviewer retired   *)
  gate_log,            (* one record per visit of the human gate             *)
  tries,               (* generations asked for, per file                    *)
  reviewed             (* the last review of a file's present code           *)

task == <<current_task, active_file, task_queue>>
ladder == <<editor_error, editor_retries, loop_health>>
routing == <<task_kind, model_tier>>
inputs == <<tier_floor, contracts, recursion_limit>>
reports == <<budget_exhausted, loop_md, status>>
history == <<planned, retired, gate_log, tries, reviewed>>
vars == <<task, ladder, routing, inputs, reports, history, project_files,
          contract_satisfied, sprint_escalated, pc, steps, final>>

Nodes == {"sprint_planner", "ticket_writer", "agent_router_node",
          "async_editor_node", "reviewer_node", "semantic_reviewer_node",
          "human_gate_node", "retrospector_node"}

(***************************************************************************)
(* A task in Python's sense of true: None and the empty string are not.    *)
(***************************************************************************)
HasTask(text) == text = "text"
Raised(by, p) == [by |-> by, print |-> p]
HasCode == project_files[active_file] # "none"
HasContract == active_file \in contracts

DefaultLoopHealth ==
  [attempt_count |-> 0, repeat_error_hash |-> NoError, escalated |-> FALSE]

Init ==
  /\ current_task = "None"
  /\ active_file = MainFile
  /\ task_queue = <<>>
  /\ project_files = [f \in Files |-> "none"]
  /\ editor_error = NoError
  /\ editor_retries = 0
  /\ loop_health = DefaultLoopHealth
  /\ contract_satisfied = "None"
  /\ task_kind = [ui |-> FALSE, hard |-> FALSE]
  /\ model_tier = "None"
  /\ tier_floor \in Floors
  /\ contracts \in SUBSET Files
  /\ recursion_limit \in RecursionLimits
  /\ sprint_escalated = FALSE
  /\ pc = "sprint_planner"
  /\ steps = 0
  /\ budget_exhausted = FALSE
  /\ final = [failed |-> FALSE, escalated |-> FALSE, sticky |-> FALSE]
  /\ loop_md = "none"
  /\ status = "none"
  /\ planned = <<>>
  /\ retired = {}
  /\ gate_log = {}
  /\ tries = [f \in Files |-> 0]
  /\ reviewed = [f \in Files |-> "none"]

-----------------------------------------------------------------------------
(***************************************************************************)
(* LangGraph runs the node `pc` names, one superstep, and the edge out of  *)
(* it says what runs next.  A run that has taken recursion_limit of them   *)
(* takes no more.                                                          *)
(***************************************************************************)
Enter(node) == pc = node /\ steps < recursion_limit
LeaveTo(next) == steps' = steps + 1 /\ pc' = next
Superstep(node, next) == Enter(node) /\ LeaveTo(next)

(* Mutant: an error is kept until another one takes its place. *)
SeesErrorsOnly(fields) ==
  final' = [failed    |-> \/ "editor_error" \in fields /\ editor_error' # NoError
                          \/ final.failed,
            escalated |-> IF "loop_health" \in fields
                          THEN loop_health'.escalated ELSE final.escalated,
            sticky    |-> \/ final.sticky
                          \/ "sprint_escalated" \in fields /\ sprint_escalated']

(* Mutant: a delta without the flag takes it back. *)
SeesLatest(fields) ==
  final' = [failed    |-> IF "editor_error" \in fields
                          THEN editor_error' # NoError ELSE final.failed,
            escalated |-> IF "loop_health" \in fields
                          THEN loop_health'.escalated ELSE final.escalated,
            sticky    |-> "sprint_escalated" \in fields /\ sprint_escalated']

(***************************************************************************)
(* run_sprint does not read the graph's state: it watches the deltas go    *)
(* by.  Of a node that returned `fields` it keeps the error and the health *)
(* if they are among them, and the flag for good once it was true.         *)
(***************************************************************************)
Sees(fields) ==
  final' = [failed    |-> IF "editor_error" \in fields
                          THEN editor_error' # NoError ELSE final.failed,
            escalated |-> IF "loop_health" \in fields
                          THEN loop_health'.escalated ELSE final.escalated,
            sticky    |-> \/ final.sticky
                          \/ "sprint_escalated" \in fields /\ sprint_escalated']

(* Mutant: the cap lets one retry more through. *)
LogicOffByOne(escalated, error, retries, text) ==
  IF escalated \/ (error # NoError /\ retries > MaxRetries)
  THEN "human_gate_node"
  ELSE IF error # NoError
  THEN IF HasTask(text) THEN "async_editor_node" ELSE "human_gate_node"
  ELSE IF HasTask(text) THEN "agent_router_node" ELSE "retrospector_node"

(* Mutant: an error goes back to the editor, task or no task. *)
LogicRetriesNoTask(escalated, error, retries, text) ==
  IF escalated \/ (error # NoError /\ retries >= MaxRetries)
  THEN "human_gate_node"
  ELSE IF error # NoError THEN "async_editor_node"
  ELSE IF HasTask(text) THEN "agent_router_node" ELSE "retrospector_node"

ReviewerLogic(escalated, error, retries, text) ==
  IF escalated \/ (error # NoError /\ retries >= MaxRetries)
  THEN "human_gate_node"
  ELSE IF error # NoError
  THEN IF HasTask(text) THEN "async_editor_node" ELSE "human_gate_node"
  ELSE IF HasTask(text) THEN "agent_router_node" ELSE "retrospector_node"

GateLogic(text) ==
  IF HasTask(text) THEN "agent_router_node" ELSE "retrospector_node"

(* Mutant: one failure more before the strong model. *)
SelectTierLate(hard, retries, floor) ==
  IF ForceTier # "" THEN ForceTier
  ELSE IF floor = "strong" \/ hard \/ retries > EscalateAfter
  THEN "strong"
  ELSE "fast"

SelectTier(hard, retries, floor) ==
  IF ForceTier # "" THEN ForceTier
  ELSE IF floor = "strong" \/ hard \/ retries >= EscalateAfter
  THEN "strong"
  ELSE "fast"

(* Mutant: each attempt chooses its tier afresh. *)
RatchetSlips(previous, tier) == tier

(***************************************************************************)
(* The tier never falls back within a task.                                *)
(***************************************************************************)
Ratchet(previous, tier) == IF previous = "strong" THEN "strong" ELSE tier

-----------------------------------------------------------------------------
SprintPlanner ==
  /\ Superstep("sprint_planner", "ticket_writer")
  /\ UNCHANGED <<task, ladder, routing, inputs, reports, history,
                 project_files, contract_satisfied, sprint_escalated>>
  /\ Sees({})

(***************************************************************************)
(* What the ticket writer can make of a model's answer: a queue with one   *)
(* ticket per file.  <<>> is an answer no ticket survived: JSON that does  *)
(* not parse, on the strong model too, or no path inside the workspace.    *)
(***************************************************************************)
Queues ==
  {q \in UNION {[1..n -> Ticket] : n \in 0..MaxTickets} :
     \A i, j \in DOMAIN q : q[i].file = q[j].file => i = j}

TicketWriterQueues ==
  /\ Superstep("ticket_writer", "agent_router_node")
  /\ \E q \in Queues \ {<<>>} :
       /\ planned' = q
       /\ current_task' = q[1].text
       /\ active_file' = q[1].file
       /\ task_queue' = Tail(q)
  /\ editor_retries' = 0
  /\ UNCHANGED <<editor_error, loop_health, routing, inputs, reports, retired,
                 gate_log, tries, reviewed, project_files, contract_satisfied,
                 sprint_escalated>>
  /\ Sees({})

TicketWriterFails ==
  /\ Superstep("ticket_writer", "agent_router_node")
  /\ \E p \in Prints : editor_error' = Raised("ticket_writer", p)
  /\ editor_retries' = 1
  /\ UNCHANGED <<task, loop_health, routing, inputs, reports, history,
                 project_files, contract_satisfied, sprint_escalated>>
  /\ Sees({"editor_error"})

(* Mutant: the fingerprint of the last ticket's error is carried over. *)
RouterKeepsHealth ==
  editor_retries' = 0 /\ contract_satisfied' = "None" /\ UNCHANGED loop_health

RouterResets ==
  /\ editor_retries' = 0
  /\ loop_health' = DefaultLoopHealth
  /\ contract_satisfied' = "None"

AgentRouter ==
  /\ Superstep("agent_router_node", "async_editor_node")
  /\ \E k \in TaskKinds :
       /\ task_kind' = k
       /\ model_tier' = SelectTier(k.hard, 0, tier_floor)
  /\ RouterResets
  /\ UNCHANGED <<task, editor_error, inputs, reports, history, project_files,
                 sprint_escalated>>
  /\ Sees({"loop_health"})

-----------------------------------------------------------------------------
(***************************************************************************)
(* async_editor_node.  It returns {} without a task, and without calling   *)
(* a model when the error it is handed is the one it was handed last time. *)
(***************************************************************************)
RepeatsLastError ==
  /\ editor_error # NoError
  /\ loop_health.repeat_error_hash = editor_error
  /\ loop_health.attempt_count >= 1

EditorCallsModel ==
  /\ pc = "async_editor_node"
  /\ HasTask(current_task)
  /\ ~RepeatsLastError

EditorIdles ==
  /\ Superstep("async_editor_node", "reviewer_node")
  /\ ~HasTask(current_task)
  /\ UNCHANGED <<task, ladder, routing, inputs, reports, history,
                 project_files, contract_satisfied, sprint_escalated>>
  /\ Sees({})

EditorEscalates ==
  /\ Superstep("async_editor_node", "reviewer_node")
  /\ HasTask(current_task)
  /\ RepeatsLastError
  /\ loop_health' = [loop_health EXCEPT !.escalated = TRUE]
  /\ editor_retries' = editor_retries + 1
  /\ UNCHANGED <<task, editor_error, routing, inputs, reports, history,
                 project_files, contract_satisfied, sprint_escalated>>
  /\ Sees({"editor_error", "loop_health"})

(***************************************************************************)
(* What both ways of asking a model for code have in common: the incoming  *)
(* error becomes the fingerprint to compare the next one with, and the     *)
(* tier is chosen from the failures so far.                                *)
(***************************************************************************)
AskForCode ==
  /\ Superstep("async_editor_node", "reviewer_node")
  /\ EditorCallsModel
  /\ loop_health' =
       [loop_health EXCEPT
          !.attempt_count = @ + 1,
          !.repeat_error_hash = IF editor_error # NoError
                                THEN editor_error ELSE @]
  /\ model_tier' =
       Ratchet(model_tier, SelectTier(task_kind.hard, editor_retries, "None"))
  /\ tries' = [tries EXCEPT ![active_file] = @ + 1]
  /\ UNCHANGED <<task, task_kind, inputs, reports, planned, retired, gate_log,
                 contract_satisfied, sprint_escalated>>

EditorWrites ==
  /\ AskForCode
  /\ \E code \in CodeKinds :
       project_files' = [project_files EXCEPT ![active_file] = code]
  /\ reviewed' = [reviewed EXCEPT ![active_file] = "none"]
  /\ editor_error' = NoError
  /\ UNCHANGED editor_retries
  /\ Sees({"editor_error", "loop_health"})

(* Mutant: a failed call is not a failed attempt. *)
EditorFailsUncounted ==
  /\ AskForCode
  /\ \/ \E p \in Prints : editor_error' = Raised("editor", p)
     \/ MuteExceptions /\ editor_error' = NoError
  /\ UNCHANGED <<editor_retries, project_files, reviewed>>
  /\ Sees({"editor_error", "loop_health"})

(***************************************************************************)
(* No code in the answer, or an exception out of the call.  The file keeps *)
(* the code of an earlier attempt, if it has any.  The text of an          *)
(* exception may be empty, and every reader of editor_error takes the      *)
(* empty text for no error.                                                *)
(***************************************************************************)
EditorFails ==
  /\ AskForCode
  /\ \/ \E p \in Prints : editor_error' = Raised("editor", p)
     \/ MuteExceptions /\ editor_error' = NoError
  /\ editor_retries' = editor_retries + 1
  /\ UNCHANGED <<project_files, reviewed>>
  /\ Sees({"editor_error", "loop_health"})

-----------------------------------------------------------------------------
(***************************************************************************)
(* reviewer_node.  It runs after every visit of the editor, whatever the   *)
(* editor did: the code it reviews may be an earlier attempt's.  A file    *)
(* with a contract is judged by the contract, a UI task without one is     *)
(* only compiled, anything else is run.                                    *)
(***************************************************************************)
PassesReview(code, ui, contract) ==
  \/ code = "works"
  \/ code = "crashes" /\ ui /\ ~contract

ContractOutcome(passed) ==
  IF ~HasContract THEN "None" ELSE IF passed THEN "True" ELSE "False"

ReviewerIdles ==
  /\ Superstep("reviewer_node", "semantic_reviewer_node")
  /\ ~HasCode
  /\ UNCHANGED <<task, ladder, routing, inputs, reports, history,
                 project_files, contract_satisfied, sprint_escalated>>
  /\ Sees({})

ReviewerPasses ==
  /\ Superstep("reviewer_node", "semantic_reviewer_node")
  /\ PassesReview(project_files[active_file], task_kind.ui, HasContract)
  /\ editor_error' = NoError
  /\ contract_satisfied' = ContractOutcome(TRUE)
  /\ reviewed' = [reviewed EXCEPT ![active_file] = "pass"]
  /\ UNCHANGED <<task, editor_retries, loop_health, routing, inputs, reports,
                 planned, retired, gate_log, tries, project_files,
                 sprint_escalated>>
  /\ Sees({"editor_error", "loop_health"})

(***************************************************************************)
(* A write that fails, a compile error, a traceback, a timeout, a contract *)
(* that does not hold.  A failure before the contract has run, in the      *)
(* write or in the compiler, leaves contract_satisfied at None.            *)
(***************************************************************************)
ReviewerFails ==
  /\ Superstep("reviewer_node", "semantic_reviewer_node")
  /\ HasCode
  /\ \/ Transient
     \/ ~PassesReview(project_files[active_file], task_kind.ui, HasContract)
  /\ \E p \in Prints : editor_error' = Raised("reviewer", p)
  /\ editor_retries' = editor_retries + 1
  /\ contract_satisfied' \in {"None", ContractOutcome(FALSE)}
  /\ reviewed' = [reviewed EXCEPT ![active_file] = "fail"]
  /\ UNCHANGED <<task, loop_health, routing, inputs, reports, planned, retired,
                 gate_log, tries, project_files, sprint_escalated>>
  /\ Sees({"editor_error", "loop_health"})

-----------------------------------------------------------------------------
(***************************************************************************)
(* semantic_reviewer_node, and the conditional edge behind it, which reads *)
(* the state the node leaves.                                              *)
(***************************************************************************)
(* Mutant: the semantic review does not look whether the code ran. *)
SemanticIgnoresErrors == ~HasCode

SemanticStandsDown == editor_error # NoError \/ ~HasCode

SemanticCallsModel ==
  /\ pc = "semantic_reviewer_node"
  /\ ~SemanticStandsDown
  /\ contract_satisfied # "True"
  /\ ~loop_health.escalated

LeaveReview ==
  LeaveTo(ReviewerLogic(loop_health.escalated, editor_error', editor_retries',
                        current_task'))

(* Mutant: what is queued behind a ticket is thrown away with it. *)
DropQueue ==
  current_task' = "None" /\ task_queue' = <<>> /\ UNCHANGED active_file

(***************************************************************************)
(* The next ticket of the queue becomes the current task, if there is one. *)
(***************************************************************************)
PopTask ==
  \/ /\ task_queue # <<>>
     /\ current_task' = task_queue[1].text
     /\ active_file' = task_queue[1].file
     /\ task_queue' = Tail(task_queue)
  \/ /\ task_queue = <<>>
     /\ current_task' = "None"
     /\ UNCHANGED <<active_file, task_queue>>

SemanticSkips ==
  /\ Enter("semantic_reviewer_node")
  /\ \/ SemanticStandsDown
     \/ contract_satisfied # "True" /\ loop_health.escalated
  /\ UNCHANGED <<task, ladder, routing, inputs, reports, history,
                 project_files, contract_satisfied, sprint_escalated>>
  /\ LeaveReview
  /\ Sees({})

(***************************************************************************)
(* The contract held, the model said PASS, or the call failed.             *)
(***************************************************************************)
SemanticRetires ==
  /\ Enter("semantic_reviewer_node")
  /\ ~SemanticStandsDown
  /\ contract_satisfied = "True" \/ SemanticCallsModel
  /\ PopTask
  /\ editor_error' = NoError
  /\ editor_retries' = 0
  /\ retired' = retired \cup {active_file}
  /\ UNCHANGED <<loop_health, routing, inputs, reports, planned, gate_log,
                 tries, reviewed, project_files, contract_satisfied,
                 sprint_escalated>>
  /\ LeaveReview
  /\ Sees({"editor_error"})

SemanticRejects ==
  /\ Enter("semantic_reviewer_node")
  /\ SemanticCallsModel
  /\ \E p \in Prints : editor_error' = Raised("semantic", p)
  /\ editor_retries' = editor_retries + 1
  /\ UNCHANGED <<task, loop_health, routing, inputs, reports, history,
                 project_files, contract_satisfied, sprint_escalated>>
  /\ LeaveReview
  /\ Sees({"editor_error"})

-----------------------------------------------------------------------------
(***************************************************************************)
(* human_gate_node logs the escalation, waits for the operator or the      *)
(* timeout (module StdinGate has the wait), skips the task and takes the   *)
(* next.  The counter is only reset when there is a next one.              *)
(***************************************************************************)
HumanGate ==
  /\ Enter("human_gate_node")
  /\ gate_log' = gate_log \cup
       {[file |-> active_file, text |-> current_task, error |-> editor_error,
         tier |-> model_tier]}
  /\ PopTask
  /\ editor_error' = NoError
  /\ editor_retries' = IF task_queue = <<>> THEN editor_retries ELSE 0
  /\ loop_health' = [loop_health EXCEPT !.escalated = TRUE]
  /\ sprint_escalated' = TRUE
  /\ UNCHANGED <<routing, inputs, reports, planned, retired, tries, reviewed,
                 project_files, contract_satisfied>>
  /\ LeaveTo(GateLogic(current_task'))
  /\ Sees({"editor_error", "loop_health", "sprint_escalated"})

Heading(escalated, failed) ==
  IF escalated THEN "ESCALATED" ELSE IF failed THEN "FAILED" ELSE "CLEAN"

(***************************************************************************)
(* LOOP.md is headed with what the state says: the sticky flag or the      *)
(* present one, and the error.                                             *)
(***************************************************************************)
Escalated == sprint_escalated \/ loop_health.escalated
LoopMdStatus == Heading(Escalated, editor_error # NoError)

Retrospector ==
  /\ Superstep("retrospector_node", "END")
  /\ loop_md' = LoopMdStatus
  /\ current_task' = "None"
  /\ task_queue' = <<>>
  /\ UNCHANGED <<active_file, ladder, routing, inputs, budget_exhausted,
                 status, history, project_files, contract_satisfied,
                 sprint_escalated>>
  /\ Sees({})

-----------------------------------------------------------------------------
(***************************************************************************)
(* What ends the stream early.  The governor refuses a call with a         *)
(* BaseException: no node catches it, the node's delta is lost and         *)
(* run_sprint goes on to report, with the refusal for an error.  Any other *)
(* exception that leaves a node, and LangGraph's own at the recursion      *)
(* limit, leave run_sprint without a report.                               *)
(***************************************************************************)
CallsModel ==
  \/ pc \in {"sprint_planner", "ticket_writer"}
  \/ EditorCallsModel
  \/ SemanticCallsModel

BudgetStops ==
  /\ CallsModel
  /\ steps < recursion_limit
  /\ budget_exhausted' = TRUE
  /\ final' = [final EXCEPT !.failed = TRUE]
  /\ pc' = "END"
  /\ UNCHANGED <<task, ladder, routing, inputs, loop_md, status, history,
                 project_files, contract_satisfied, sprint_escalated, steps>>

(***************************************************************************)
(* The planner and the ticket writer catch nothing their model raises.     *)
(* The reviewer does not catch what starting a process raises.  Every node *)
(* but the router writes to the rejection ledger, and run_sprint reads it, *)
(* outside any try.  A node that returns {} does none of this.             *)
(***************************************************************************)
MayRaise ==
  \/ pc \in {"sprint_planner", "ticket_writer", "human_gate_node",
            "retrospector_node"}
  \/ pc = "async_editor_node" /\ HasTask(current_task)
  \/ pc = "reviewer_node" /\ HasCode
  \/ SemanticCallsModel

Crashes ==
  /\ pc = "END" \/ (MayRaise /\ steps < recursion_limit)
  /\ pc' = "crashed"
  /\ UNCHANGED <<task, ladder, routing, inputs, reports, history, final,
                 project_files, contract_satisfied, sprint_escalated, steps>>

RecursionError ==
  /\ pc \in Nodes
  /\ steps = recursion_limit
  /\ pc' = "recursion_error"
  /\ UNCHANGED <<task, ladder, routing, inputs, reports, history, final,
                 project_files, contract_satisfied, sprint_escalated, steps>>

(* Mutant: only the last task's escalation counts. *)
JournalOfLastTask == Heading(final.escalated, final.failed)

(***************************************************************************)
(* The tail of run_sprint.                                                 *)
(***************************************************************************)
JournalStatus == Heading(final.sticky \/ final.escalated, final.failed)

RunSprintReports ==
  /\ pc = "END"
  /\ pc' = "done"
  /\ status' = JournalStatus
  /\ UNCHANGED <<task, ladder, routing, inputs, budget_exhausted, loop_md,
                 history, final, project_files, contract_satisfied,
                 sprint_escalated, steps>>

(***************************************************************************)
(* A sprint that has reported, or died, is over.                           *)
(***************************************************************************)
Over == pc \in {"done", "crashed", "recursion_error"} /\ UNCHANGED vars

Editor == EditorIdles \/ EditorEscalates \/ EditorWrites \/ EditorFails
Reviewer == ReviewerIdles \/ ReviewerPasses \/ ReviewerFails
SemanticReviewer == SemanticSkips \/ SemanticRetires \/ SemanticRejects

Next ==
  \/ SprintPlanner
  \/ TicketWriterQueues
  \/ TicketWriterFails
  \/ AgentRouter
  \/ Editor
  \/ Reviewer
  \/ SemanticReviewer
  \/ HumanGate
  \/ Retrospector
  \/ BudgetStops
  \/ Crashes
  \/ RecursionError
  \/ RunSprintReports
  \/ Over

Spec == Init /\ [][Next]_vars

(***************************************************************************)
(* One asyncio task drives the graph, and every wait in a node has a       *)
(* timeout of its own: a step that can be taken is taken.                  *)
(***************************************************************************)
FairSpec == Spec /\ WF_vars(Next)

-----------------------------------------------------------------------------
StateTypeOK ==
  /\ current_task \in {"None"} \cup TaskTexts
  /\ active_file \in Files
  /\ task_queue \in Seq(Ticket)
  /\ project_files \in [Files -> CodeKinds \cup {"none"}]
  /\ editor_error \in Error \cup {NoError}
  /\ editor_retries \in 0..(MaxRetries + 1)
  /\ loop_health \in [attempt_count : Nat,
                      repeat_error_hash : Error \cup {NoError},
                      escalated : BOOLEAN]
  /\ contract_satisfied \in {"None", "True", "False"}
  /\ task_kind \in [ui : BOOLEAN, hard : BOOLEAN]
  /\ model_tier \in Tiers \cup {"None"}
  /\ tier_floor \in {"None", "strong"}
  /\ contracts \subseteq Files
  /\ recursion_limit \in Nat
  /\ sprint_escalated \in BOOLEAN
  /\ pc \in Nodes \cup {"END", "done", "crashed", "recursion_error"}
  /\ steps \in Nat
  /\ budget_exhausted \in BOOLEAN
  /\ loop_md \in {"none", "CLEAN", "ESCALATED", "FAILED"}
  /\ status \in {"none", "CLEAN", "ESCALATED", "FAILED"}
  /\ planned \in Seq(Ticket)
  /\ retired \subseteq Files
  /\ gate_log \subseteq [file : Files, text : {"None"} \cup TaskTexts,
                         error : Error \cup {NoError}, tier : Tiers \cup {"None"}]
  /\ tries \in [Files -> Nat]
  /\ reviewed \in [Files -> {"none", "pass", "fail"}]

FinalTypeOK ==
  final \in [failed : BOOLEAN, escalated : BOOLEAN, sticky : BOOLEAN]

(* Every variable keeps its type; the retry counter stays within one of
   its cap. *)
TypeOK == StateTypeOK /\ FinalTypeOK

(***************************************************************************)
(* A sprint ends within a number of supersteps its queue fixes: three for  *)
(* the planner, the ticket writer and the retrospector, and per ticket the *)
(* router, MaxRetries rounds of editor and reviewers, and the gate.  A     *)
(* recursion limit of that size is never hit.  The loops the comments of   *)
(* orchestrator.py, async_editor_node and reviewer_node tell of (10,007    *)
(* no-op steps, 992 identical rejections) are the ways this once broke.    *)
(* An exception without text breaks it still: see NoSilentLoop.            *)
(***************************************************************************)
StepsPerTicket == 3 * MaxRetries + 2
MaxSteps == 3 + MaxTickets * StepsPerTicket

StepBound ==
  ~MuteExceptions =>
    /\ steps <= MaxSteps
    /\ MaxSteps <= recursion_limit => pc # "recursion_error"

(***************************************************************************)
(* A model is asked to write one file at most MaxRetries times in a        *)
(* sprint, however the attempts fail: in the call, in the sandbox, or in   *)
(* the semantic review of code an earlier attempt left behind.             *)
(***************************************************************************)
GenerationsBounded ==
  ~MuteExceptions => \A f \in Files : tries[f] <= MaxRetries

(***************************************************************************)
(* A retired ticket's file holds the code the reviewer last passed: no     *)
(* verdict of the semantic reviewer, and no failure of its call, retires a *)
(* ticket whose present code has not run.                                  *)
(***************************************************************************)
RetiredCodeRan == \A f \in retired : reviewed[f] = "pass"

(***************************************************************************)
(* A visit of the human gate is in the journal: nothing the sprint does    *)
(* after it, tasks that pass or a budget that runs out, makes the report   *)
(* anything but ESCALATED.                                                 *)
(***************************************************************************)
EscalationReported ==
  gate_log # {} /\ status # "none" => status = "ESCALATED"

(***************************************************************************)
(* LOOP.md, which the retrospector writes from the state, and the journal, *)
(* which run_sprint writes from the deltas it saw, give one status: no     *)
(* node changes the error, the health or the flag without returning it,    *)
(* and run_sprint drops and keeps what the state drops and keeps.          *)
(***************************************************************************)
ReportsAgree == loop_md # "none" /\ status # "none" => loop_md = status

(***************************************************************************)
(* With the default of one failure before the strong tier, a human is not  *)
(* asked about a ticket before the strong model had a try at it.           *)
(***************************************************************************)
StrongTriedBeforeHuman ==
  ForceTier = "" /\ EscalateAfter <= 1 /\ MaxRetries >= 2 =>
    \A g \in gate_log : tries[g.file] > 0 => g.tier = "strong"

(***************************************************************************)
(* A sprint that discovery starts with a floor never asks the fast model   *)
(* for code, although the editor chooses its tier without the floor.       *)
(***************************************************************************)
FloorHolds ==
  tier_floor = "strong" /\ ForceTier = "" => model_tier \in {"None", "strong"}

(***************************************************************************)
(* The repeat-error breaker trips on a ticket's own failures only: by the  *)
(* time it does, that ticket has been tried twice.                         *)
(***************************************************************************)
RepeatIsTheTicketsOwn ==
  pc = "reviewer_node" /\ loop_health.escalated => tries[active_file] >= 2

(***************************************************************************)
(* Every sprint comes to an end with a report, unless something it does    *)
(* raises: a recursion limit the queue fits in is not what ends it.        *)
(***************************************************************************)
SprintEnds == MaxSteps <= recursion_limit => <>(pc \in {"done", "crashed"})

-----------------------------------------------------------------------------
(***************************************************************************)
(* The sprint implements the ledger: every node is one of the ledger's     *)
(* steps, or none.                                                         *)
(***************************************************************************)
OpenTickets ==
  IF current_task = "None" THEN <<>>
  ELSE <<[file |-> active_file, text |-> current_task]>> \o task_queue

Report ==
  IF pc \in {"crashed", "recursion_error"} THEN "lost"
  ELSE IF status = "none" THEN "running" ELSE status

Ledger == INSTANCE SprintLedger WITH
  tickets <- planned,
  open <- OpenTickets,
  passed <- retired,
  skipped <- {g.file : g \in {g \in gate_log : g.text # "None"}},
  alarm <- sprint_escalated,
  report <- Report

(***************************************************************************)
(* Tickets leave in order and once, and the report says what became of     *)
(* them: see SprintLedger.                                                 *)
(***************************************************************************)
LedgerSpec == Ledger!Spec

(***************************************************************************)
(* A CLEAN report of a plan without blank tickets means that there were    *)
(* tickets and each was retired on code that passed its review.            *)
(***************************************************************************)
CleanMeansPassed ==
  /\ Ledger!CleanMeansPassed
  /\ status = "CLEAN" => \A f \in retired : reviewed[f] = "pass"

-----------------------------------------------------------------------------
(* What the documentation says of a sprint and the code does not do. *)

(***************************************************************************)
(* human_gate_node.py: "An escalation is a statement about ONE task -      *)
(* this one beat the retry ladder".  A ticket that is skipped was tried.   *)
(***************************************************************************)
SkippedWasTried ==
  \A g \in gate_log : g.text # "None" => tries[g.file] > 0

(***************************************************************************)
(* async_editor_node.py, of counting an exception as a retry: "Without     *)
(* this increment a persistent generation exception loops silently to      *)
(* RECURSION_LIMIT".  With it, a sprint does not.                          *)
(***************************************************************************)
NoSilentLoop == MaxSteps <= recursion_limit => pc # "recursion_error"

(***************************************************************************)
(* discovery.py: "A sprint is journalled FAILED when it never got a fair   *)
(* attempt at all: the ticket writer emitted nothing writable (...)", and  *)
(* test_discovery.py has such a record.  A sprint whose ticket writer gave *)
(* up is reported as FAILED.                                               *)
(***************************************************************************)
UnplannedIsFailed == planned = <<>> /\ status # "none" => status = "FAILED"
=============================================================================

--------------------------- MODULE HiveSprintProofs ---------------------------
(***************************************************************************)
(* Theorems of HiveSprint, for every set of files and tickets, every retry *)
(* budget and every recursion limit.                                       *)
(***************************************************************************)
EXTENDS HiveSprint, SequenceTheorems, TLAPS

(***************************************************************************)
(* The numbers among the constants.                                        *)
(***************************************************************************)
LEMMA Bounds ==
  /\ MaxTickets \in Nat /\ MaxTickets >= 1
  /\ MaxRetries \in Nat /\ MaxRetries >= 1
  /\ RecursionLimits \subseteq Nat
<1>1. /\ MaxTickets \in Nat \ {0}
      /\ MaxRetries \in Nat \ {0}
      /\ RecursionLimits \subseteq Nat
  BY Zenon, SprintAssumption DEF SprintAssumption
<1> QED
  BY <1>1

(***************************************************************************)
(* The shape of a queue the ticket writer returns.                         *)
(***************************************************************************)
LEMMA QueueShape ==
  ASSUME NEW q \in Queues
  PROVE  q \in Seq(Ticket) /\ Len(q) <= MaxTickets
<1>1. PICK n \in 0..MaxTickets : q \in [1..n -> Ticket]
  BY DEF Queues
<1>2. n \in Nat /\ n <= MaxTickets
  BY <1>1, Bounds
<1>3. q \in Seq(Ticket)
  BY <1>1, <1>2, SeqDef
<1>4. Len(q) = n
  BY <1>1, <1>2, <1>3, LenProperties
<1> QED
  BY <1>2, <1>3, <1>4

(***************************************************************************)
(* Taking the next task of a queue leaves tasks and queues.                *)
(***************************************************************************)
LEMMA PopTyped ==
  ASSUME task_queue \in Seq(Ticket), active_file \in Files, PopTask
  PROVE  /\ current_task' \in {"None"} \cup TaskTexts
         /\ active_file' \in Files
         /\ task_queue' \in Seq(Ticket)
         /\ task_queue # <<>> => Len(task_queue') = Len(task_queue) - 1
         /\ task_queue = <<>> => task_queue' = <<>> /\ current_task' = "None"
<1>1. CASE task_queue = <<>>
  BY <1>1 DEF PopTask
<1>2. CASE task_queue # <<>>
  <2>1. task_queue[1] \in Ticket /\ Tail(task_queue) \in Seq(Ticket)
          /\ Len(Tail(task_queue)) = Len(task_queue) - 1
    BY <1>2
  <2> QED
    BY <1>2, <2>1 DEF PopTask, Ticket
<1> QED
  BY <1>1, <1>2

-----------------------------------------------------------------------------
(***************************************************************************)
(* What the retry counter can be where it is counted up.  The cap of       *)
(* ReviewerLogic keeps it below MaxRetries on the way back to the editor;  *)
(* the editor may then raise it once, and one of the reviewers once more,  *)
(* never both: the semantic reviewer stands down on an error.              *)
(***************************************************************************)
RetryRange ==
  /\ pc = "async_editor_node" =>
       IF HasTask(current_task) THEN editor_retries < MaxRetries
       ELSE editor_retries = 0
  /\ pc = "reviewer_node" => editor_retries <= MaxRetries
  /\ pc = "semantic_reviewer_node" /\ editor_error = NoError =>
       editor_retries <= MaxRetries

TypeInv == StateTypeOK /\ RetryRange

LEMMA TypeInit == Init => TypeInv
<1> SUFFICES ASSUME Init PROVE TypeInv
  OBVIOUS
<1>1. MainFile \in Files /\ Floors \subseteq {"None", "strong"}
  BY SprintAssumption DEF SprintAssumption
<1>2. loop_health \in [attempt_count : Nat,
                       repeat_error_hash : Error \cup {NoError},
                       escalated : BOOLEAN]
  BY DEF Init, DefaultLoopHealth
<1>3. task_queue \in Seq(Ticket) /\ planned \in Seq(Ticket)
  BY DEF Init
<1>4. editor_retries \in 0..(MaxRetries + 1) /\ recursion_limit \in Nat
  BY Bounds DEF Init
<1> QED
  BY <1>1, <1>2, <1>3, <1>4
     DEF Init, TypeInv, StateTypeOK, RetryRange, Nodes, Tiers

LEMMA RaisedTyped ==
  \A by \in Reporters, p \in Prints :
    Raised(by, p) \in Error /\ Raised(by, p) # NoError
<1>1. NoError \notin Error
  BY Zenon, SprintAssumption DEF SprintAssumption
<1> QED
  BY <1>1 DEF Raised, Error

LEMMA TypePlanning ==
  ASSUME TypeInv, SprintPlanner \/ TicketWriterQueues \/ TicketWriterFails
  PROVE  TypeInv'
<1> USE Bounds DEF TypeInv, StateTypeOK, RetryRange, Nodes, Superstep, Enter, LeaveTo,
                   task, ladder, routing, inputs, reports, history
<1>1. CASE SprintPlanner
  BY <1>1 DEF SprintPlanner
<1>2. CASE TicketWriterFails
  <2>1. editor_error' \in Error
    BY <1>2, RaisedTyped DEF TicketWriterFails, Reporters
  <2> QED
    BY <1>2, <2>1 DEF TicketWriterFails
<1>3. CASE TicketWriterQueues
  <2>1. PICK q \in Queues \ {<<>>} :
          planned' = q /\ current_task' = q[1].text /\ active_file' = q[1].file
            /\ task_queue' = Tail(q)
    BY <1>3 DEF TicketWriterQueues
  <2>2. q \in Seq(Ticket) /\ q # <<>>
    BY <2>1, QueueShape
  <2>3. q[1] \in Ticket /\ Tail(q) \in Seq(Ticket)
    BY <2>2
  <2>4. /\ planned' \in Seq(Ticket)
        /\ task_queue' \in Seq(Ticket)
        /\ current_task' \in {"None"} \cup TaskTexts
        /\ active_file' \in Files
    BY <2>1, <2>2, <2>3 DEF Ticket
  <2> QED
    BY <1>3, <2>4 DEF TicketWriterQueues
<1> QED
  BY <1>1, <1>2, <1>3

LEMMA TypeRouter ==
  ASSUME TypeInv, AgentRouter
  PROVE  TypeInv'
<1>1. PICK k \in TaskKinds :
        task_kind' = k /\ model_tier' = SelectTier(k.hard, 0, tier_floor)
  BY DEF AgentRouter
<1>2. TaskKinds \subseteq [ui : BOOLEAN, hard : BOOLEAN]
        /\ ForceTier \in {"", "fast", "strong"}
  BY Zenon, SprintAssumption DEF SprintAssumption
<1>3. task_kind' \in [ui : BOOLEAN, hard : BOOLEAN] /\ model_tier' \in Tiers
  BY <1>1, <1>2 DEF SelectTier, Tiers
<1>4. loop_health' \in [attempt_count : Nat,
                        repeat_error_hash : Error \cup {NoError},
                        escalated : BOOLEAN]
  BY DEF AgentRouter, RouterResets, DefaultLoopHealth
<1> QED
  BY <1>3, <1>4, Bounds
     DEF AgentRouter, RouterResets, TypeInv, StateTypeOK, RetryRange, Nodes,
         Superstep, Enter, LeaveTo, task, inputs, reports, history

(***************************************************************************)
(* What asking for code leaves typed, however the call goes.               *)
(***************************************************************************)
LEMMA TypeAskForCode ==
  ASSUME TypeInv, AskForCode
  PROVE  /\ loop_health' \in [attempt_count : Nat,
                              repeat_error_hash : Error \cup {NoError},
                              escalated : BOOLEAN]
         /\ model_tier' \in Tiers
         /\ tries' \in [Files -> Nat]
<1> USE DEF AskForCode, TypeInv, StateTypeOK
<1>1. ForceTier \in {"", "fast", "strong"}
  BY Zenon, SprintAssumption DEF SprintAssumption
<1>2. model_tier' \in Tiers
  BY <1>1 DEF Ratchet, SelectTier, Tiers
<1>3. tries' \in [Files -> Nat]
  OBVIOUS
<1>4. loop_health' \in [attempt_count : Nat,
                        repeat_error_hash : Error \cup {NoError},
                        escalated : BOOLEAN]
  <2>1. /\ loop_health.attempt_count + 1 \in Nat
        /\ loop_health.repeat_error_hash \in Error \cup {NoError}
        /\ loop_health.escalated \in BOOLEAN
    OBVIOUS
  <2>2. loop_health' =
          [attempt_count |-> loop_health.attempt_count + 1,
           repeat_error_hash |-> IF editor_error # NoError THEN editor_error
                                 ELSE loop_health.repeat_error_hash,
           escalated |-> loop_health.escalated]
    OBVIOUS
  <2> QED
    BY <2>1, <2>2
<1> QED
  BY <1>2, <1>3, <1>4

LEMMA TypeEditor ==
  ASSUME TypeInv, Editor
  PROVE  TypeInv'
<1> USE Bounds DEF TypeInv, StateTypeOK, RetryRange, Nodes, Superstep, Enter, LeaveTo,
                   task, ladder, routing, inputs, reports, history
<1>1. CASE EditorIdles
  BY <1>1 DEF EditorIdles
<1>2. CASE EditorEscalates
  <2>1. loop_health' \in [attempt_count : Nat,
                          repeat_error_hash : Error \cup {NoError},
                          escalated : BOOLEAN]
    BY <1>2 DEF EditorEscalates
  <2>2. editor_retries' \in 0..(MaxRetries + 1) /\ editor_retries' <= MaxRetries
    BY <1>2 DEF EditorEscalates
  <2> QED
    BY <1>2, <2>1, <2>2, SMTT(30) DEF EditorEscalates
<1>3. CASE EditorWrites
  <2>1. project_files' \in [Files -> CodeKinds \cup {"none"}]
          /\ reviewed' \in [Files -> {"none", "pass", "fail"}]
    BY <1>3 DEF EditorWrites
  <2>2. editor_error' \in Error \cup {NoError}
          /\ editor_retries' \in 0..(MaxRetries + 1)
          /\ (pc' = "reviewer_node" => editor_retries' <= MaxRetries)
          /\ (editor_error' = NoError => editor_retries' <= MaxRetries)
    BY <1>3 DEF EditorWrites, AskForCode, EditorCallsModel
  <2> QED
    BY <1>3, <2>1, <2>2, TypeAskForCode, SMTT(30)
       DEF EditorWrites, AskForCode, EditorCallsModel
<1>4. CASE EditorFails
  <2>1. editor_error' \in Error \cup {NoError}
    BY <1>4, RaisedTyped DEF EditorFails, Reporters
  <2>2. editor_retries' \in 0..(MaxRetries + 1) /\ editor_retries' <= MaxRetries
    BY <1>4 DEF EditorFails, AskForCode, EditorCallsModel
  <2> QED
    BY <1>4, <2>1, <2>2, TypeAskForCode, SMTT(60)
       DEF EditorFails, AskForCode, EditorCallsModel
<1> QED
  BY <1>1, <1>2, <1>3, <1>4 DEF Editor

LEMMA TypeReviewer ==
  ASSUME TypeInv, Reviewer
  PROVE  TypeInv'
<1> USE Bounds DEF TypeInv, StateTypeOK, RetryRange, Nodes, Superstep, Enter, LeaveTo,
                   task, ladder, routing, inputs, reports, history
<1>1. CASE ReviewerIdles
  BY <1>1 DEF ReviewerIdles
<1>2. CASE ReviewerPasses
  <2>1. reviewed' \in [Files -> {"none", "pass", "fail"}]
          /\ contract_satisfied' \in {"None", "True", "False"}
    BY <1>2 DEF ReviewerPasses, ContractOutcome
  <2>2. /\ Superstep("reviewer_node", "semantic_reviewer_node")
        /\ editor_error' = NoError
        /\ UNCHANGED <<task, editor_retries, loop_health, routing, inputs,
                       reports, planned, retired, gate_log, tries,
                       project_files, sprint_escalated>>
    BY <1>2 DEF ReviewerPasses
  <2> QED
    BY <2>1, <2>2
<1>3. CASE ReviewerFails
  <2>1. editor_error' \in Error /\ editor_error' # NoError
    BY <1>3, RaisedTyped DEF ReviewerFails, Reporters
  <2>2. reviewed' \in [Files -> {"none", "pass", "fail"}]
          /\ contract_satisfied' \in {"None", "True", "False"}
    BY <1>3 DEF ReviewerFails, ContractOutcome
  <2> QED
    BY <1>3, <2>1, <2>2 DEF ReviewerFails
<1> QED
  BY <1>1, <1>2, <1>3 DEF Reviewer

LEMMA TypeSemanticReviewer ==
  ASSUME TypeInv, SemanticReviewer
  PROVE  TypeInv'
<1> USE Bounds DEF TypeInv, StateTypeOK, RetryRange, Nodes, Enter, LeaveTo,
                   LeaveReview, ReviewerLogic,
                   task, ladder, routing, inputs, reports, history
<1>1. CASE SemanticSkips
  BY <1>1 DEF SemanticSkips
<1>2. CASE SemanticRetires
  BY <1>2, PopTyped DEF SemanticRetires
<1>3. CASE SemanticRejects
  <2>1. editor_error' \in Error
    BY <1>3, RaisedTyped DEF SemanticRejects, Reporters
  <2> QED
    BY <1>3, <2>1 DEF SemanticRejects, SemanticCallsModel, SemanticStandsDown
<1> QED
  BY <1>1, <1>2, <1>3 DEF SemanticReviewer

LEMMA TypeGate ==
  ASSUME TypeInv, HumanGate
  PROVE  TypeInv'
<1> USE Bounds DEF TypeInv, StateTypeOK, RetryRange, Nodes, Enter, LeaveTo
<1>1. loop_health' \in [attempt_count : Nat,
                        repeat_error_hash : Error \cup {NoError},
                        escalated : BOOLEAN]
  BY DEF HumanGate
<1>2. gate_log' \subseteq [file : Files, text : {"None"} \cup TaskTexts,
                           error : Error \cup {NoError},
                           tier : Tiers \cup {"None"}]
  BY DEF HumanGate
<1>3. /\ current_task' \in {"None"} \cup TaskTexts
      /\ active_file' \in Files
      /\ task_queue' \in Seq(Ticket)
  BY PopTyped DEF HumanGate
<1>4. editor_retries' \in 0..(MaxRetries + 1)
  BY DEF HumanGate
<1>5. pc' \in {"agent_router_node", "retrospector_node"}
  BY DEF HumanGate, GateLogic
<1> QED
  BY <1>1, <1>2, <1>3, <1>4, <1>5, SMTT(30)
     DEF HumanGate, routing, inputs, reports

LEMMA TypeEnd ==
  ASSUME TypeInv,
         Retrospector \/ BudgetStops \/ Crashes \/ RecursionError
           \/ RunSprintReports \/ UNCHANGED vars
  PROVE  TypeInv'
<1> USE Bounds DEF TypeInv, StateTypeOK, RetryRange, Nodes, Superstep, Enter, LeaveTo,
                   task, ladder, routing, inputs, reports, history
<1>1. CASE Retrospector
  BY <1>1 DEF Retrospector, LoopMdStatus, Heading
<1>2. CASE BudgetStops
  BY <1>2 DEF BudgetStops
<1>3. CASE Crashes
  BY <1>3 DEF Crashes
<1>4. CASE RecursionError
  BY <1>4 DEF RecursionError
<1>5. CASE RunSprintReports
  BY <1>5 DEF RunSprintReports, JournalStatus, Heading
<1>6. CASE UNCHANGED vars
  BY <1>6 DEF vars
<1> QED
  BY <1>1, <1>2, <1>3, <1>4, <1>5, <1>6

LEMMA TypeStep ==
  ASSUME TypeInv, [Next]_vars
  PROVE  TypeInv'
<1> QED
  BY TypePlanning, TypeRouter, TypeEditor, TypeReviewer, TypeSemanticReviewer,
     TypeGate, TypeEnd DEF Next, Over

LEMMA StateTypeCorrect == Spec => []StateTypeOK
<1>1. Init => TypeInv
  BY TypeInit
<1>2. TypeInv /\ [Next]_vars => TypeInv'
  BY TypeStep
<1>3. TypeInv => StateTypeOK
  BY DEF TypeInv
<1> QED
  BY <1>1, <1>2, <1>3, PTL DEF Spec

-----------------------------------------------------------------------------
(***************************************************************************)
(* What run_sprint keeps of the deltas is what the state holds: a node     *)
(* returns whatever of the error, the health and the flag it changes.  The *)
(* one thing the state does not hold is the governor's refusal.            *)
(***************************************************************************)
SeenInv ==
  /\ FinalTypeOK
  /\ final.escalated = loop_health.escalated
  /\ final.sticky = sprint_escalated
  /\ final.failed <=> budget_exhausted \/ editor_error # NoError
  /\ budget_exhausted => pc \notin Nodes

LEMMA SeenInit == Init => SeenInv
<1> SUFFICES ASSUME Init PROVE SeenInv
  OBVIOUS
<1>1. final = [failed |-> FALSE, escalated |-> FALSE, sticky |-> FALSE]
  BY DEF Init
<1>2. loop_health.escalated = FALSE
  BY DEF Init, DefaultLoopHealth
<1>3. editor_error = NoError /\ sprint_escalated = FALSE /\ budget_exhausted = FALSE
  BY DEF Init
<1> QED
  BY <1>1, <1>2, <1>3 DEF SeenInv, FinalTypeOK

(***************************************************************************)
(* A node whose delta has every field it changes.                          *)
(***************************************************************************)
LEMMA SeesState ==
  ASSUME SeenInv, StateTypeOK, StateTypeOK', NEW fields, Sees(fields),
         pc \in Nodes, UNCHANGED budget_exhausted,
         "editor_error" \in fields \/ UNCHANGED editor_error,
         "loop_health" \in fields \/ UNCHANGED loop_health,
         IF "sprint_escalated" \in fields THEN sprint_escalated'
         ELSE UNCHANGED sprint_escalated
  PROVE  SeenInv'
<1>1. /\ loop_health.escalated \in BOOLEAN /\ loop_health'.escalated \in BOOLEAN
      /\ sprint_escalated \in BOOLEAN /\ sprint_escalated' \in BOOLEAN
      /\ final \in [failed : BOOLEAN, escalated : BOOLEAN, sticky : BOOLEAN]
  BY DEF StateTypeOK, SeenInv, FinalTypeOK
<1>2. final'.escalated = loop_health'.escalated
  BY <1>1 DEF Sees, SeenInv
<1>3. final'.sticky = sprint_escalated'
  BY <1>1 DEF Sees, SeenInv
<1>4. ~budget_exhausted'
  BY DEF SeenInv
<1>5. final'.failed <=> editor_error' # NoError
  BY <1>1, <1>4 DEF Sees, SeenInv
<1>6. final' \in [failed : BOOLEAN, escalated : BOOLEAN, sticky : BOOLEAN]
  BY <1>1 DEF Sees
<1> QED
  BY <1>2, <1>3, <1>4, <1>5, <1>6 DEF SeenInv, FinalTypeOK

LEMMA SeenStep ==
  ASSUME SeenInv, StateTypeOK, StateTypeOK', [Next]_vars
  PROVE  SeenInv'
<1> USE DEF Superstep, Enter, task, ladder, reports, Nodes
<1>1. CASE SprintPlanner
  BY <1>1, SeesState DEF SprintPlanner
<1>2. CASE TicketWriterQueues
  BY <1>2, SeesState DEF TicketWriterQueues
<1>3. CASE TicketWriterFails
  BY <1>3, SeesState DEF TicketWriterFails
<1>4. CASE AgentRouter
  BY <1>4, SeesState DEF AgentRouter
<1>5. CASE Editor
  <2>1. CASE EditorIdles
    BY <2>1, SeesState DEF EditorIdles
  <2>2. CASE EditorEscalates
    BY <2>2, SeesState DEF EditorEscalates
  <2>3. CASE EditorWrites
    BY <2>3, SeesState DEF EditorWrites, AskForCode
  <2>4. CASE EditorFails
    BY <2>4, SeesState DEF EditorFails, AskForCode
  <2> QED
    BY <1>5, <2>1, <2>2, <2>3, <2>4 DEF Editor
<1>6. CASE Reviewer
  <2>1. CASE ReviewerIdles
    BY <2>1, SeesState DEF ReviewerIdles
  <2>2. CASE ReviewerPasses
    BY <2>2, SeesState DEF ReviewerPasses
  <2>3. CASE ReviewerFails
    BY <2>3, SeesState DEF ReviewerFails
  <2> QED
    BY <1>6, <2>1, <2>2, <2>3 DEF Reviewer
<1>7. CASE SemanticReviewer
  <2>1. CASE SemanticSkips
    BY <2>1, SeesState DEF SemanticSkips
  <2>2. CASE SemanticRetires
    BY <2>2, SeesState DEF SemanticRetires
  <2>3. CASE SemanticRejects
    BY <2>3, SeesState DEF SemanticRejects
  <2> QED
    BY <1>7, <2>1, <2>2, <2>3 DEF SemanticReviewer
<1>8. CASE HumanGate
  BY <1>8, SeesState DEF HumanGate
<1>9. CASE Retrospector
  BY <1>9, SeesState DEF Retrospector
<1>10. CASE BudgetStops
  BY <1>10 DEF BudgetStops, SeenInv, FinalTypeOK
<1>11. CASE Crashes \/ RecursionError \/ RunSprintReports
  BY <1>11 DEF Crashes, RecursionError, RunSprintReports, SeenInv, FinalTypeOK
<1>12. CASE UNCHANGED vars
  BY <1>12 DEF vars, SeenInv, FinalTypeOK
<1> QED
  BY <1>1, <1>2, <1>3, <1>4, <1>5, <1>6, <1>7, <1>8, <1>9, <1>10, <1>11, <1>12
     DEF Next, Over

LEMMA SeenAlways == Spec => []SeenInv
<1>1. Init => SeenInv
  BY SeenInit
<1>2. SeenInv /\ StateTypeOK /\ StateTypeOK' /\ [Next]_vars => SeenInv'
  BY SeenStep
<1> QED
  BY <1>1, <1>2, StateTypeCorrect, PTL DEF Spec

(***************************************************************************)
(* Every value stays of its type; the retry counter never passes           *)
(* MaxRetries + 1.                                                         *)
(***************************************************************************)
THEOREM TypeCorrect == Spec => []TypeOK
<1>1. StateTypeOK /\ SeenInv => TypeOK
  BY DEF SeenInv, TypeOK
<1> QED
  BY <1>1, StateTypeCorrect, SeenAlways, PTL

(***************************************************************************)
(* The status run_sprint journals, told from the state.                    *)
(***************************************************************************)
StateStatus ==
  Heading(Escalated, budget_exhausted \/ editor_error # NoError)

LEMMA JournalIsState == SeenInv => JournalStatus = StateStatus
  BY DEF SeenInv, FinalTypeOK, JournalStatus, StateStatus, Escalated, Heading

-----------------------------------------------------------------------------
(***************************************************************************)
(* Termination.  From every node the rest of the sprint is within what     *)
(* MaxSteps leaves: the queue at StepsPerTicket each, three supersteps for *)
(* each attempt the present ticket has left, and the way to the end.  A    *)
(* superstep never uses more than it is allowed.                           *)
(***************************************************************************)
QueueCost(n) == n * StepsPerTicket
Affords(n) == steps + n <= MaxSteps

(* Attempts still open once the present one is over, at most. *)
RoundsLeft(text, error, retries) ==
  IF ~HasTask(text) THEN 0
  ELSE IF error = NoError
  THEN IF retries + 1 < MaxRetries THEN MaxRetries - retries - 1 ELSE 0
  ELSE IF retries < MaxRetries THEN MaxRetries - retries ELSE 0

Attempts == RoundsLeft(current_task, editor_error, editor_retries)
Queued == QueueCost(Len(task_queue))

(***************************************************************************)
(* The reviewers never find a task without an error and without code: what *)
(* the editor does with a task leaves one or the other, as long as an      *)
(* exception has a text.                                                   *)
(***************************************************************************)
CodeOrError ==
  pc \in {"reviewer_node", "semantic_reviewer_node"} /\ HasTask(current_task) =>
    HasCode \/ editor_error # NoError

FuelInv ==
  /\ ~MuteExceptions
  /\ TypeInv
  /\ CodeOrError
  /\ steps <= MaxSteps
  /\ pc = "sprint_planner" =>
       task_queue = <<>> /\ Affords(QueueCost(MaxTickets) + 3)
  /\ pc = "ticket_writer" =>
       task_queue = <<>> /\ Affords(QueueCost(MaxTickets) + 2)
  /\ pc = "agent_router_node" => Affords(Queued + StepsPerTicket + 1)
  /\ pc = "async_editor_node" /\ HasTask(current_task) =>
       Affords(Queued + 2 + 3 * (MaxRetries - editor_retries))
  /\ pc = "async_editor_node" /\ ~HasTask(current_task) => Affords(Queued + 5)
  /\ pc = "reviewer_node" => Affords(Queued + 4 + 3 * Attempts)
  /\ pc = "semantic_reviewer_node" => Affords(Queued + 3 + 3 * Attempts)
  /\ pc = "human_gate_node" => Affords(Queued + 2)
  /\ pc = "retrospector_node" => Affords(1)
  /\ pc = "recursion_error" => recursion_limit < MaxSteps

LEMMA Costs ==
  /\ StepsPerTicket = 3 * MaxRetries + 2 /\ StepsPerTicket \in Nat
  /\ \A n \in Nat : QueueCost(n) \in Nat
  /\ MaxSteps = 3 + QueueCost(MaxTickets) /\ MaxSteps \in Nat
<1>1. StepsPerTicket = 3 * MaxRetries + 2 /\ StepsPerTicket \in Nat
  BY Bounds DEF StepsPerTicket
<1>2. ASSUME NEW n \in Nat PROVE QueueCost(n) \in Nat
  BY <1>1 DEF QueueCost
<1>3. MaxSteps = 3 + QueueCost(MaxTickets) /\ MaxSteps \in Nat
  BY <1>2, Bounds DEF MaxSteps, QueueCost
<1> QED
  BY <1>1, <1>2, <1>3

LEMMA CostOfNext ==
  ASSUME NEW n \in Nat, n # 0
  PROVE  QueueCost(n) = QueueCost(n - 1) + StepsPerTicket
  BY Costs DEF QueueCost

LEMMA CostGrows ==
  ASSUME NEW m \in Nat, NEW n \in Nat, m <= n
  PROVE  QueueCost(m) <= QueueCost(n)
<1>1. (n - m) * StepsPerTicket >= 0
  BY Costs
<1>2. (n - m) * StepsPerTicket = n * StepsPerTicket - m * StepsPerTicket
  BY Costs
<1> QED
  BY <1>1, <1>2, Costs DEF QueueCost

(***************************************************************************)
(* What the bounds are made of are numbers.                                *)
(***************************************************************************)
LEMMA Slack == \A s, k, p, m \in Nat : s + (k + p + 1) <= m => s <= m
  OBVIOUS

LEMMA OneMore ==
  \A s, k, r, m \in Nat : s + (k + 2 + 3 * r) <= m => s + 1 <= m
  OBVIOUS

LEMMA Remaining ==
  ASSUME NEW now \in Nat, NEW max \in Nat, now < max
  PROVE  max - now \in Nat
  OBVIOUS

LEMMA FuelTyped ==
  ASSUME TypeInv
  PROVE  /\ Queued \in Nat /\ Attempts \in Nat /\ steps \in Nat
         /\ MaxSteps \in Nat /\ StepsPerTicket \in Nat
         /\ editor_retries \in Nat /\ MaxRetries \in Nat
         /\ QueueCost(MaxTickets) \in Nat
<1>1. Len(task_queue) \in Nat
  BY DEF TypeInv, StateTypeOK
<1>2. Attempts \in Nat
  BY Bounds DEF Attempts, RoundsLeft, TypeInv, StateTypeOK
<1> QED
  BY <1>1, <1>2, Bounds, Costs DEF Queued, TypeInv, StateTypeOK

LEMMA FuelPlanning ==
  ASSUME FuelInv, SprintPlanner \/ TicketWriterQueues \/ TicketWriterFails
  PROVE  FuelInv'
<1>1. TypeInv'
  BY TypePlanning DEF FuelInv
<1> USE FuelTyped DEF FuelInv, CodeOrError, Superstep, Enter, LeaveTo, Affords
<1>2. CASE SprintPlanner
  BY <1>1, <1>2 DEF SprintPlanner, task
<1>3. CASE TicketWriterFails
  <2>1. task_queue' = <<>> /\ Queued' = QueueCost(0)
    BY <1>3 DEF TicketWriterFails, task, Queued
  <2>2. QueueCost(0) + StepsPerTicket <= QueueCost(MaxTickets)
    <3>1. QueueCost(0) = 0 /\ QueueCost(1) = StepsPerTicket
      BY Costs DEF QueueCost
    <3>2. QueueCost(1) <= QueueCost(MaxTickets)
      BY CostGrows, Bounds
    <3> QED
      BY <3>1, <3>2, Costs
  <2>3. QueueCost(0) \in Nat
    BY Costs
  <2> QED
    BY <1>1, <1>3, <2>1, <2>2, <2>3, SMTT(30) DEF TicketWriterFails
<1>4. CASE TicketWriterQueues
  <2>1. PICK q \in Queues \ {<<>>} : task_queue' = Tail(q)
    BY <1>4 DEF TicketWriterQueues
  <2>2. q \in Seq(Ticket) /\ q # <<>> /\ Len(q) <= MaxTickets
    BY <2>1, QueueShape
  <2>3. Len(q) \in Nat /\ Len(q) # 0 /\ Len(task_queue') = Len(q) - 1
    BY <2>1, <2>2
  <2>4. Queued' + StepsPerTicket = QueueCost(Len(q))
    BY <2>3, CostOfNext DEF Queued
  <2>5. QueueCost(Len(q)) <= QueueCost(MaxTickets)
    BY <2>2, <2>3, CostGrows, Bounds
  <2>6. Len(task_queue') \in Nat
    BY <2>3
  <2>7. Queued' \in Nat
    BY <2>6, Costs DEF Queued
  <2>8. Queued' + StepsPerTicket <= QueueCost(MaxTickets)
    BY <2>4, <2>5
  <2>9. steps' = steps + 1 /\ pc' = "agent_router_node" /\ pc = "ticket_writer"
    BY <1>4 DEF TicketWriterQueues
  <2>10. steps + (QueueCost(MaxTickets) + 2) <= MaxSteps
    BY <2>9
  <2>11. steps' + (Queued' + StepsPerTicket + 1) <= MaxSteps
    <3>1. /\ steps \in Nat /\ MaxSteps \in Nat /\ StepsPerTicket \in Nat
          /\ QueueCost(MaxTickets) \in Nat
      BY FuelTyped
    <3>2. \A s, k, p, c, m \in Nat :
            k + p <= c /\ s + (c + 2) <= m => s + 1 + (k + p + 1) <= m
      OBVIOUS
    <3>3. steps + 1 + (Queued' + StepsPerTicket + 1) <= MaxSteps
      BY ONLY Zenon, <2>7, <2>8, <2>10, <3>1, <3>2
    <3> QED
      BY ONLY Zenon, <3>3, <2>9
  <2>12. steps' <= MaxSteps
    <3>1. steps \in Nat
      BY FuelTyped
    <3>2. steps' \in Nat
      BY ONLY <2>9, <3>1
    <3>3. StepsPerTicket \in Nat /\ MaxSteps \in Nat
      BY ONLY Costs
    <3> QED
      BY ONLY ZenonT(60), Slack, <2>7, <2>11, <3>2, <3>3
  <2> QED
    BY <1>1, <2>9, <2>11, <2>12
<1> QED
  BY <1>2, <1>3, <1>4

LEMMA FuelRouter ==
  ASSUME FuelInv, AgentRouter
  PROVE  FuelInv'
<1>1. TypeInv'
  BY TypeRouter DEF FuelInv
<1>2. editor_retries' = 0 /\ UNCHANGED <<current_task, task_queue>>
  BY DEF AgentRouter, RouterResets, task
<1>3. Queued' = Queued
  BY <1>2 DEF Queued
<1> QED
  BY <1>1, <1>2, <1>3, FuelTyped, Costs, Bounds
     DEF FuelInv, CodeOrError, AgentRouter, Superstep, Enter, LeaveTo, Affords

LEMMA FuelEditor ==
  ASSUME FuelInv, Editor
  PROVE  FuelInv'
<1>1. TypeInv'
  BY TypeEditor DEF FuelInv
<1>2. /\ pc = "async_editor_node" /\ pc' = "reviewer_node" /\ steps' = steps + 1
      /\ UNCHANGED <<current_task, task_queue>>
  BY DEF Editor, EditorIdles, EditorEscalates, EditorWrites, EditorFails,
         AskForCode, Superstep, Enter, LeaveTo, task
<1>3. \/ ~HasTask(current_task)
      \/ editor_error' = NoError /\ editor_retries' = editor_retries
      \/ editor_error' # NoError /\ editor_retries' = editor_retries + 1
  BY RaisedTyped
     DEF Editor, EditorIdles, EditorEscalates, EditorWrites, EditorFails,
         RepeatsLastError, Reporters, FuelInv
<1>4. HasTask(current_task) => editor_retries < MaxRetries
  BY <1>2 DEF FuelInv, TypeInv, RetryRange
<1>5. IF HasTask(current_task) THEN Attempts' = MaxRetries - editor_retries - 1
      ELSE Attempts' = 0
  BY <1>2, <1>3, <1>4, FuelTyped DEF Attempts, RoundsLeft, FuelInv
<1>6. Queued' = Queued
  BY <1>2 DEF Queued
<1>7. CodeOrError'
  <2>1. CASE EditorWrites
    <3>1. PICK code \in CodeKinds :
            project_files' = [project_files EXCEPT ![active_file] = code]
      BY <2>1 DEF EditorWrites
    <3>2. code # "none"
      BY SprintAssumption DEF SprintAssumption
    <3>3. active_file' = active_file
      BY <2>1 DEF EditorWrites, AskForCode, task
    <3> QED
      BY <3>1, <3>2, <3>3 DEF CodeOrError, HasCode, FuelInv, TypeInv, StateTypeOK
  <2>2. CASE EditorFails
    BY <2>2, RaisedTyped DEF EditorFails, Reporters, CodeOrError, FuelInv
  <2>3. CASE EditorEscalates
    BY <2>3 DEF EditorEscalates, RepeatsLastError, CodeOrError
  <2>4. CASE EditorIdles
    BY <2>4 DEF EditorIdles, CodeOrError, task
  <2> QED
    BY <2>1, <2>2, <2>3, <2>4 DEF Editor
<1> QED
  BY <1>1, <1>2, <1>4, <1>5, <1>6, <1>7, FuelTyped DEF FuelInv, Affords

LEMMA FuelReviewer ==
  ASSUME FuelInv, Reviewer
  PROVE  FuelInv'
<1>1. TypeInv'
  BY TypeReviewer DEF FuelInv
<1>2. /\ pc = "reviewer_node" /\ pc' = "semantic_reviewer_node"
      /\ steps' = steps + 1
      /\ UNCHANGED <<current_task, task_queue>>
  BY DEF Reviewer, ReviewerIdles, ReviewerPasses, ReviewerFails,
         Superstep, Enter, LeaveTo, task
<1>3. \/ UNCHANGED <<editor_error, editor_retries>>
      \/ editor_error' = NoError /\ editor_retries' = editor_retries
      \/ editor_error' # NoError /\ editor_retries' = editor_retries + 1
  BY RaisedTyped
     DEF Reviewer, ReviewerIdles, ReviewerPasses, ReviewerFails, ladder, Reporters
<1>4. Attempts' \in Nat /\ Attempts' <= Attempts
  BY <1>2, <1>3, FuelTyped DEF Attempts, RoundsLeft, FuelInv
<1>5. Queued' = Queued
  BY <1>2 DEF Queued
<1>6. CodeOrError'
  <2>1. CASE ReviewerIdles
    BY <2>1 DEF ReviewerIdles, Superstep, Enter, LeaveTo, FuelInv, CodeOrError,
                HasCode, task, ladder
  <2>2. CASE ReviewerPasses
    <3>1. HasCode /\ UNCHANGED <<project_files, active_file>>
      BY <2>2 DEF ReviewerPasses, PassesReview, HasCode, task
    <3> QED
      BY <3>1 DEF CodeOrError, HasCode
  <2>3. CASE ReviewerFails
    BY <2>3, RaisedTyped DEF ReviewerFails, Reporters, CodeOrError
  <2> QED
    BY <2>1, <2>2, <2>3 DEF Reviewer
<1> QED
  BY <1>1, <1>2, <1>4, <1>5, <1>6, FuelTyped DEF FuelInv, Affords

(***************************************************************************)
(* Where taking the next task leaves the queue: a visit of the router is   *)
(* paid for by the ticket that left.                                       *)
(***************************************************************************)
LEMMA FuelPop ==
  ASSUME StateTypeOK, PopTask
  PROVE  /\ Queued \in Nat /\ Queued' \in Nat
         /\ HasTask(current_task') => Queued' + StepsPerTicket = Queued
         /\ Queued' <= Queued
<1>1. CASE task_queue = <<>>
  BY <1>1, PopTyped, Costs DEF StateTypeOK, Queued, HasTask
<1>2. CASE task_queue # <<>>
  <2>1. /\ Len(task_queue) \in Nat /\ Len(task_queue) # 0
        /\ Len(task_queue') \in Nat /\ Len(task_queue') = Len(task_queue) - 1
    BY <1>2, PopTyped DEF StateTypeOK
  <2>2. Queued' + StepsPerTicket = Queued
    BY <2>1, CostOfNext DEF Queued
  <2>3. Queued \in Nat /\ Queued' \in Nat /\ StepsPerTicket \in Nat
    BY <2>1, Costs DEF Queued
  <2>4. \A a, b, c \in Nat : a + b = c => a <= c
    OBVIOUS
  <2>5. Queued' <= Queued
    BY ONLY <2>2, <2>3, <2>4
  <2> QED
    BY <2>2, <2>3, <2>5
<1> QED
  BY <1>1, <1>2

LEMMA FuelSemanticReviewer ==
  ASSUME FuelInv, SemanticReviewer
  PROVE  FuelInv'
<1>1. TypeInv'
  BY TypeSemanticReviewer DEF FuelInv
<1>2. pc = "semantic_reviewer_node" /\ steps' = steps + 1 /\ LeaveReview
        /\ StateTypeOK /\ loop_health' = loop_health
  BY DEF SemanticReviewer, SemanticSkips, SemanticRetires, SemanticRejects,
         FuelInv, TypeInv, LeaveReview, LeaveTo, Enter, ladder
<1>3. CASE SemanticRetires
  <2>1. editor_error' = NoError /\ PopTask
    BY <1>3 DEF SemanticRetires
  <2>2. pc' = IF loop_health.escalated THEN "human_gate_node"
              ELSE IF HasTask(current_task') THEN "agent_router_node"
              ELSE "retrospector_node"
    BY <1>2, <2>1 DEF LeaveReview, LeaveTo, ReviewerLogic
  <2> QED
    BY <1>1, <1>2, <2>1, <2>2, FuelPop, FuelTyped DEF FuelInv, CodeOrError, Affords
<1>4. CASE SemanticSkips \/ SemanticRejects
  <2>1. UNCHANGED <<current_task, task_queue>>
    BY <1>4 DEF SemanticSkips, SemanticRejects, task
  <2>2. \/ UNCHANGED <<editor_error, editor_retries>>
        \/ /\ editor_error = NoError /\ editor_error' # NoError
           /\ editor_retries' = editor_retries + 1
    BY <1>4, RaisedTyped
       DEF SemanticSkips, SemanticRejects, SemanticCallsModel,
           SemanticStandsDown, ladder, Reporters
  <2>3. Attempts' \in Nat /\ Attempts' <= Attempts /\ Queued' = Queued
    BY <2>1, <2>2, FuelTyped DEF Attempts, RoundsLeft, Queued, FuelInv
  <2>4. pc' = "async_editor_node" =>
          HasTask(current_task') /\ MaxRetries - editor_retries' = Attempts'
    BY <1>2, <2>1, <2>2, FuelTyped
       DEF LeaveReview, LeaveTo, ReviewerLogic, Attempts, RoundsLeft, FuelInv
  <2>5. pc' # "agent_router_node"
    <3>1. SUFFICES ASSUME pc' = "agent_router_node" PROVE FALSE
      OBVIOUS
    <3>2. ~loop_health.escalated /\ editor_error' = NoError /\ HasTask(current_task)
      BY <1>2, <2>1, <3>1 DEF LeaveReview, LeaveTo, ReviewerLogic
    <3>3. SemanticSkips /\ editor_error = NoError
      BY <1>4, <2>2, <3>2, RaisedTyped DEF SemanticRejects, Reporters
    <3>4. ~HasCode
      BY <3>2, <3>3 DEF SemanticSkips, SemanticStandsDown
    <3> QED
      BY <1>2, <3>2, <3>3, <3>4 DEF FuelInv, CodeOrError
  <2>6. pc' \in {"async_editor_node", "agent_router_node", "human_gate_node",
                 "retrospector_node"}
    BY <1>2 DEF LeaveReview, LeaveTo, ReviewerLogic
  <2>7. editor_retries' \in Nat
    BY <1>1, Bounds DEF TypeInv, StateTypeOK
  <2>8. steps + (Queued + 3 + 3 * Attempts) <= MaxSteps
    BY <1>2 DEF FuelInv, Affords
  <2>9. steps' <= MaxSteps /\ Affords(2)' /\ Affords(1)'
    BY <1>2, <2>8, FuelTyped DEF FuelInv, Affords
  <2>10. /\ pc' = "async_editor_node" =>
              Affords(Queued + 2 + 3 * (MaxRetries - editor_retries))'
         /\ pc' = "human_gate_node" => Affords(Queued + 2)'
    BY <1>2, <2>3, <2>4, <2>7, <2>8, FuelTyped DEF FuelInv, Affords
  <2> QED
    BY <1>1, <1>2, <2>1, <2>3, <2>4, <2>5, <2>6, <2>9, <2>10
       DEF FuelInv, CodeOrError
<1> QED
  BY <1>3, <1>4 DEF SemanticReviewer

LEMMA FuelGate ==
  ASSUME FuelInv, HumanGate
  PROVE  FuelInv'
<1>1. TypeInv'
  BY TypeGate DEF FuelInv
<1>2. /\ PopTask /\ StateTypeOK /\ pc = "human_gate_node" /\ steps' = steps + 1
      /\ pc' = IF HasTask(current_task') THEN "agent_router_node"
               ELSE "retrospector_node"
  BY DEF HumanGate, FuelInv, TypeInv, Enter, LeaveTo, GateLogic
<1> QED
  BY <1>1, <1>2, FuelPop, FuelTyped DEF FuelInv, CodeOrError, Affords

LEMMA FuelEnd ==
  ASSUME FuelInv,
         Retrospector \/ BudgetStops \/ Crashes \/ RecursionError
           \/ RunSprintReports \/ UNCHANGED vars
  PROVE  FuelInv'
<1>1. TypeInv'
  BY TypeEnd DEF FuelInv
<1> USE FuelTyped DEF FuelInv, CodeOrError, Affords, Superstep, Enter, LeaveTo
<1>2. CASE Retrospector
  BY <1>1, <1>2 DEF Retrospector
<1>3. CASE BudgetStops
  BY <1>1, <1>3 DEF BudgetStops
<1>4. CASE Crashes
  BY <1>1, <1>4 DEF Crashes
<1>5. CASE RecursionError
  <2>1. /\ pc' = "recursion_error" /\ UNCHANGED <<steps, recursion_limit>>
        /\ steps = recursion_limit /\ steps \in Nat /\ MaxSteps \in Nat
    BY <1>5 DEF RecursionError, inputs
  <2>2. steps + 1 <= MaxSteps
    <3>1. CASE pc = "async_editor_node" /\ HasTask(current_task)
      <4>1. editor_retries < MaxRetries
        BY <3>1 DEF TypeInv, RetryRange
      <4>2. steps + (Queued + 2 + 3 * (MaxRetries - editor_retries)) <= MaxSteps
        BY <3>1
      <4>3. /\ steps \in Nat /\ Queued \in Nat /\ MaxSteps \in Nat
            /\ MaxRetries \in Nat /\ editor_retries \in Nat
        BY FuelTyped
      <4>4. MaxRetries - editor_retries \in Nat
        BY ONLY Zenon, Remaining, <4>1, <4>3
      <4> QED
        BY ONLY ZenonT(60), OneMore, <4>2, <4>3, <4>4
    <3>2. CASE pc \in {"reviewer_node", "semantic_reviewer_node"}
      BY <3>2
    <3>3. CASE pc = "async_editor_node" /\ ~HasTask(current_task)
      BY <3>3
    <3>4. CASE pc \in {"sprint_planner", "ticket_writer"}
      BY <3>4
    <3>5. CASE pc = "agent_router_node"
      BY <3>5
    <3>6. CASE pc \in {"human_gate_node", "retrospector_node"}
      BY <3>6
    <3>7. pc \in Nodes
      BY <1>5 DEF RecursionError
    <3> QED
      BY ONLY <3>1, <3>2, <3>3, <3>4, <3>5, <3>6, <3>7 DEF Nodes
  <2> QED
    BY <1>1, <2>1, <2>2
<1>6. CASE RunSprintReports
  BY <1>1, <1>6 DEF RunSprintReports
<1>7. CASE UNCHANGED vars
  BY <1>1, <1>7 DEF vars, task, ladder, inputs, Queued, Attempts, HasCode
<1> QED
  BY <1>2, <1>3, <1>4, <1>5, <1>6, <1>7

LEMMA FuelStep ==
  ASSUME FuelInv, [Next]_vars
  PROVE  FuelInv'
<1> QED
  BY FuelPlanning, FuelRouter, FuelEditor, FuelReviewer, FuelSemanticReviewer,
     FuelGate, FuelEnd DEF Next, Over

LEMMA FuelInit == ~MuteExceptions /\ Init => FuelInv
<1> SUFFICES ASSUME ~MuteExceptions, Init PROVE FuelInv
  OBVIOUS
<1>1. TypeInv
  BY TypeInit
<1>2. pc = "sprint_planner" /\ task_queue = <<>> /\ steps = 0
  BY DEF Init
<1> QED
  BY <1>1, <1>2, FuelTyped, Costs DEF FuelInv, CodeOrError, Affords

(***************************************************************************)
(* A sprint takes at most MaxSteps supersteps, whatever the models, the    *)
(* sandbox and the operator answer, and a recursion limit of that size is  *)
(* never hit: reviewer_logic and the retry counters of orchestrator.py,    *)
(* async_editor_node, reviewer_node and semantic_reviewer_node leave no    *)
(* loop that goes on for ever.                                             *)
(***************************************************************************)
THEOREM SprintsAreBounded == Spec => []StepBound
<1>1. CASE MuteExceptions
  <2>1. StepBound
    BY <1>1 DEF StepBound
  <2> QED
    BY <2>1, PTL
<1>2. CASE ~MuteExceptions
  <2>1. Init => FuelInv
    BY <1>2, FuelInit
  <2>2. FuelInv /\ [Next]_vars => FuelInv'
    BY FuelStep
  <2>3. FuelInv => StepBound
    BY FuelTyped, Bounds DEF FuelInv, StepBound, TypeInv, StateTypeOK
  <2> QED
    BY <2>1, <2>2, <2>3, PTL DEF Spec
<1> QED
  BY <1>1, <1>2

-----------------------------------------------------------------------------
(***************************************************************************)
(* Reports.  Both are the heading of the state they were written in; no    *)
(* node runs after them that could change it.  The sprint wraps up without *)
(* an error unless a human was asked, and the sticky flag remembers that.  *)
(***************************************************************************)
Ended == pc \in {"END", "done"}
StreamOver == Ended \/ pc = "crashed"

ReportInv ==
  /\ StateTypeOK /\ SeenInv
  /\ gate_log # {} => sprint_escalated
  /\ budget_exhausted => StreamOver
  /\ loop_md # "none" => StreamOver /\ ~budget_exhausted /\ loop_md = LoopMdStatus
  /\ status # "none" => pc = "done" /\ status = StateStatus
  /\ (pc = "retrospector_node" \/ (Ended /\ ~budget_exhausted)) =>
       Escalated \/ editor_error = NoError

LEMMA ReportInit == StateTypeOK /\ SeenInv /\ Init => ReportInv
  BY DEF Init, ReportInv, Ended, StreamOver

LEMMA ReportStep ==
  ASSUME ReportInv, StateTypeOK', SeenInv', [Next]_vars
  PROVE  ReportInv'
<1> USE DEF ReportInv, Ended, StreamOver, Superstep, Enter, LeaveTo, task, ladder, reports,
            history
<1>1. CASE SprintPlanner
  BY <1>1 DEF SprintPlanner
<1>2. CASE TicketWriterQueues
  BY <1>2 DEF TicketWriterQueues
<1>3. CASE TicketWriterFails
  BY <1>3 DEF TicketWriterFails
<1>4. CASE AgentRouter
  BY <1>4 DEF AgentRouter
<1>5. CASE Editor
  BY <1>5 DEF Editor, EditorIdles, EditorEscalates, EditorWrites, EditorFails,
              AskForCode
<1>6. CASE Reviewer
  <2>1. /\ pc = "reviewer_node" /\ pc' = "semantic_reviewer_node"
        /\ UNCHANGED <<reports, gate_log, sprint_escalated>>
    BY <1>6 DEF Reviewer, ReviewerIdles, ReviewerPasses, ReviewerFails
  <2> QED
    BY <2>1
<1>7. CASE SemanticReviewer
  <2>1. /\ pc = "semantic_reviewer_node"
        /\ UNCHANGED <<reports, gate_log, sprint_escalated, loop_health>>
        /\ LeaveReview
    BY <1>7 DEF SemanticReviewer, SemanticSkips, SemanticRetires, SemanticRejects
  <2>2. /\ pc' \notin {"END", "done"}
        /\ pc' = "retrospector_node" => editor_error' = NoError
    BY <2>1 DEF LeaveReview, ReviewerLogic
  <2> QED
    BY <2>1, <2>2
<1>8. CASE HumanGate
  BY <1>8 DEF HumanGate, GateLogic, Escalated
<1>9. CASE Retrospector
  <2>1. ~budget_exhausted /\ loop_md = "none" /\ status = "none"
    BY <1>9 DEF Retrospector
  <2>2. LoopMdStatus' = LoopMdStatus /\ Escalated' = Escalated
    BY <1>9 DEF Retrospector, LoopMdStatus, Escalated
  <2> QED
    BY <1>9, <2>1, <2>2 DEF Retrospector
<1>10. CASE BudgetStops
  <2>1. pc \in Nodes
    BY <1>10 DEF BudgetStops, CallsModel, EditorCallsModel, SemanticCallsModel,
                 Nodes
  <2> QED
    BY <1>10, <2>1 DEF BudgetStops, Nodes
<1>11. CASE Crashes \/ RecursionError
  <2>1. /\ pc' \in {"crashed", "recursion_error"} /\ pc \notin {"done", "crashed"}
        /\ pc = "END" => pc' = "crashed"
        /\ UNCHANGED <<reports, history, sprint_escalated>>
    BY <1>11 DEF Crashes, RecursionError, MayRaise, SemanticCallsModel, Nodes
  <2>2. LoopMdStatus' = LoopMdStatus
    BY <1>11 DEF Crashes, RecursionError, LoopMdStatus, Escalated
  <2> QED
    BY <2>1, <2>2
<1>12. CASE RunSprintReports
  <2>1. /\ StateStatus' = StateStatus /\ LoopMdStatus' = LoopMdStatus
        /\ Escalated' = Escalated
    BY <1>12 DEF RunSprintReports, StateStatus, LoopMdStatus, Escalated
  <2>2. status' = StateStatus'
    BY <1>12, <2>1, JournalIsState DEF RunSprintReports
  <2> QED
    BY <1>12, <2>1, <2>2 DEF RunSprintReports
<1>13. CASE UNCHANGED vars
  BY <1>13 DEF vars, StateStatus, LoopMdStatus, Escalated
<1> QED
  BY <1>1, <1>2, <1>3, <1>4, <1>5, <1>6, <1>7, <1>8, <1>9, <1>10, <1>11, <1>12,
     <1>13 DEF Next, Over

LEMMA ReportAlways == Spec => []ReportInv
<1>1. StateTypeOK /\ SeenInv /\ Init => ReportInv
  BY ReportInit
<1>2. ReportInv /\ StateTypeOK' /\ SeenInv' /\ [Next]_vars => ReportInv'
  BY ReportStep
<1> QED
  BY <1>1, <1>2, StateTypeCorrect, SeenAlways, PTL DEF Spec

(***************************************************************************)
(* A sprint that has been to the human gate is journalled ESCALATED.       *)
(***************************************************************************)
THEOREM EscalationsAreReported == Spec => []EscalationReported
<1>1. ReportInv => EscalationReported
  BY DEF ReportInv, EscalationReported, StateStatus, Heading, Escalated
<1> QED
  BY <1>1, ReportAlways, PTL

(***************************************************************************)
(* LOOP.md and the journal never disagree about a sprint.                  *)
(***************************************************************************)
THEOREM TheReportsAgree == Spec => []ReportsAgree
<1>1. ReportInv => ReportsAgree
  BY DEF ReportInv, ReportsAgree, StateStatus, LoopMdStatus, Heading
<1> QED
  BY <1>1, ReportAlways, PTL

-----------------------------------------------------------------------------
(***************************************************************************)
(* The floor.  The router chooses with it, and the ratchet keeps what the  *)
(* router chose.                                                           *)
(***************************************************************************)
FloorInv ==
  tier_floor = "strong" /\ ForceTier = "" =>
    /\ model_tier \in {"None", "strong"}
    /\ pc \in {"async_editor_node", "reviewer_node", "semantic_reviewer_node"} =>
         model_tier = "strong"

LEMMA FloorStep ==
  ASSUME FloorInv, [Next]_vars
  PROVE  FloorInv'
<1> USE DEF FloorInv, Superstep, Enter, LeaveTo, routing, inputs
<1>1. CASE SprintPlanner \/ TicketWriterQueues \/ TicketWriterFails
  BY <1>1 DEF SprintPlanner, TicketWriterQueues, TicketWriterFails
<1>2. CASE AgentRouter
  BY <1>2 DEF AgentRouter, SelectTier
<1>3. CASE Editor
  BY <1>3 DEF Editor, EditorIdles, EditorEscalates, EditorWrites, EditorFails,
              AskForCode, Ratchet
<1>4. CASE Reviewer
  BY <1>4 DEF Reviewer, ReviewerIdles, ReviewerPasses, ReviewerFails
<1>5. CASE HumanGate
  BY <1>5 DEF HumanGate, GateLogic
<1>6. CASE Retrospector \/ BudgetStops \/ Crashes \/ RecursionError
             \/ RunSprintReports
  BY <1>6 DEF Retrospector, BudgetStops, Crashes, RecursionError,
              RunSprintReports
<1>7. CASE UNCHANGED vars
  BY <1>7 DEF vars
<1>8. CASE SemanticReviewer
  BY <1>8 DEF SemanticReviewer, SemanticSkips, SemanticRetires, SemanticRejects,
              LeaveReview, ReviewerLogic
<1> QED
  BY <1>1, <1>2, <1>3, <1>4, <1>5, <1>6, <1>7, <1>8 DEF Next, Over

(***************************************************************************)
(* A sprint started with the floor never asks the fast model for code.     *)
(***************************************************************************)
THEOREM TheFloorHolds == Spec => []FloorHolds
<1>1. Init => FloorInv
  BY DEF Init, FloorInv
<1>2. FloorInv /\ [Next]_vars => FloorInv'
  BY FloorStep
<1>3. FloorInv => FloorHolds
  BY DEF FloorInv, FloorHolds
<1> QED
  BY <1>1, <1>2, <1>3, PTL DEF Spec

-----------------------------------------------------------------------------
(***************************************************************************)
(* Tickets.  What is still queued is of other files than the current       *)
(* ticket, and nothing has been done to those files.                       *)
(***************************************************************************)
Planning == {"sprint_planner", "ticket_writer"}
Trying == {"async_editor_node", "reviewer_node", "semantic_reviewer_node"}
Ladder == {"agent_router_node"} \cup Trying

Gated(f) == \E g \in gate_log : g.file = f

Untouched(f) ==
  tries[f] = 0 /\ project_files[f] = "none" /\ f \notin retired /\ ~Gated(f)

QueueIsNext ==
  /\ current_task = "None" => task_queue = <<>>
  /\ \A i, j \in DOMAIN task_queue : task_queue[i].file = task_queue[j].file => i = j
  /\ \A i \in DOMAIN task_queue :
       task_queue[i].file # active_file /\ Untouched(task_queue[i].file)

(* The ticket a node of the ladder is at has not left it yet. *)
CurrentIsOpen ==
  /\ pc \in Planning =>
       current_task = "None" /\ task_queue = <<>> /\ \A f \in Files : Untouched(f)
  /\ pc \in Ladder =>
       IF HasTask(current_task) THEN active_file \notin retired /\ ~Gated(active_file)
       ELSE ~HasCode /\ tries[active_file] = 0
  /\ pc = "agent_router_node" => ~HasCode

(* What the semantic reviewer may retire has run. *)
PassedHasRun ==
  /\ pc = "semantic_reviewer_node" /\ ~SemanticStandsDown =>
       reviewed[active_file] = "pass"
  /\ RetiredCodeRan

TicketInv == QueueIsNext /\ CurrentIsOpen /\ PassedHasRun

LEMMA QueueStays ==
  ASSUME StateTypeOK, QueueIsNext, UNCHANGED task,
         \A f \in Files : f # active_file /\ Untouched(f) => Untouched(f)'
  PROVE  QueueIsNext'
<1>1. \A i \in DOMAIN task_queue : task_queue[i].file \in Files
  <2> SUFFICES ASSUME NEW i \in DOMAIN task_queue
               PROVE  task_queue[i].file \in Files
    OBVIOUS
  <2>1. task_queue[i] \in Ticket
    BY DEF StateTypeOK
  <2> QED
    BY <2>1 DEF Ticket
<1> QED
  BY <1>1 DEF QueueIsNext, task

(***************************************************************************)
(* The next ticket of the queue is of a file nothing has been done to.     *)
(***************************************************************************)
LEMMA PopOpens ==
  ASSUME StateTypeOK, QueueIsNext, PopTask, UNCHANGED <<project_files, tries>>,
         \A f \in Files : f # active_file =>
           (f \in retired' <=> f \in retired) /\ (Gated(f)' <=> Gated(f))
  PROVE  /\ QueueIsNext'
         /\ task_queue = <<>> => current_task' = "None" /\ active_file' = active_file
         /\ task_queue # <<>> => active_file' # active_file
                                 /\ active_file' \in Files
                                 /\ Untouched(active_file)'
<1> DEFINE q == task_queue
<1>1. q \in Seq(Ticket)
  BY DEF StateTypeOK
<1>2. \A f \in Files : f # active_file /\ Untouched(f) => Untouched(f)'
  BY DEF Untouched
<1>3. CASE q = <<>>
  BY <1>3 DEF PopTask, QueueIsNext
<1>4. CASE q # <<>>
  <2>1. /\ current_task' = q[1].text /\ active_file' = q[1].file
        /\ task_queue' = Tail(q)
    BY <1>4 DEF PopTask
  <2>2. \A i \in DOMAIN q : q[i] \in Ticket
    BY <1>1
  <2>3. \A i \in DOMAIN q : q[i].file \in Files /\ q[i].text \in TaskTexts
    BY <2>2 DEF Ticket
  <2>4. 1 \in DOMAIN q
    BY <1>1, <1>4
  <2>5. \A i \in DOMAIN Tail(q) : /\ i + 1 \in DOMAIN q /\ Tail(q)[i] = q[i + 1]
                                  /\ i \in Nat /\ i + 1 # 1
    BY <1>1, <1>4
  <2>6. \A i \in DOMAIN q, f \in Files :
          f = q[i].file => f # active_file /\ Untouched(f)'
    BY <1>2, <2>3 DEF QueueIsNext
  <2>7. current_task' # "None"
    BY <2>1, <2>3, <2>4, SprintAssumption DEF SprintAssumption
  <2>8. \A i \in DOMAIN Tail(q), f \in Files :
          f = Tail(q)[i].file => f # q[1].file /\ Untouched(f)'
    BY <2>4, <2>5, <2>6 DEF QueueIsNext
  <2>9. \A i, j \in DOMAIN Tail(q) : Tail(q)[i].file = Tail(q)[j].file => i = j
    BY <2>5 DEF QueueIsNext
  <2>10. QueueIsNext'
    <3>1. \A i \in DOMAIN Tail(q) : Tail(q)[i].file \in Files
      BY <2>3, <2>5
    <3> QED
      BY <2>1, <2>7, <2>8, <2>9, <3>1 DEF QueueIsNext, Untouched, Gated
  <2>11. active_file' \in Files /\ active_file' # active_file
           /\ Untouched(active_file)'
    BY <2>1, <2>3, <2>4, <2>6 DEF Untouched, Gated
  <2> QED
    BY <1>4, <2>10, <2>11
<1> QED
  BY <1>3, <1>4

LEMMA TicketInit == Init => TicketInv
<1> SUFFICES ASSUME Init PROVE TicketInv
  OBVIOUS
<1>1. \A f \in Files : Untouched(f)
  BY DEF Init, Untouched, Gated
<1> QED
  BY <1>1 DEF Init, TicketInv, QueueIsNext, CurrentIsOpen, PassedHasRun, Planning,
              Ladder, Trying, RetiredCodeRan

(***************************************************************************)
(* A step that does nothing to the tickets and leaves a node of the ladder *)
(* for another, or for the gate, or for the end.                           *)
(***************************************************************************)
LEMMA TicketsStay ==
  ASSUME StateTypeOK, TicketInv,
         UNCHANGED <<task, project_files, tries, retired, gate_log, reviewed>>,
         pc' \in Planning => pc \in Planning,
         pc' \in Ladder => pc \in Ladder \cup Planning,
         pc' = "agent_router_node" => pc = "ticket_writer" \/ ~HasCode,
         pc' = "semantic_reviewer_node" => SemanticStandsDown'
  PROVE  TicketInv'
<1>1. active_file \in Files
  BY DEF StateTypeOK
<1>2. QueueIsNext'
  BY QueueStays DEF TicketInv, Untouched, Gated
<1>3. pc \in Planning =>
        ~HasTask(current_task) /\ ~HasCode /\ tries[active_file] = 0
  BY <1>1 DEF TicketInv, CurrentIsOpen, Untouched, HasTask, HasCode
<1>4. CurrentIsOpen'
  BY <1>3 DEF TicketInv, CurrentIsOpen, HasCode, Untouched, Gated, task, Planning
<1>5. PassedHasRun'
  BY DEF TicketInv, PassedHasRun, RetiredCodeRan
<1> QED
  BY <1>2, <1>4, <1>5 DEF TicketInv

LEMMA TicketPlanning ==
  ASSUME StateTypeOK, TicketInv, SprintPlanner \/ TicketWriterQueues \/ TicketWriterFails
  PROVE  TicketInv'
<1> USE DEF Superstep, Enter, LeaveTo, task, history
<1>1. CASE SprintPlanner \/ TicketWriterFails
  BY <1>1, TicketsStay
     DEF SprintPlanner, TicketWriterFails, Planning, Ladder, Trying
<1>2. CASE TicketWriterQueues
  <2>1. PICK q \in Queues \ {<<>>} :
          /\ current_task' = q[1].text /\ active_file' = q[1].file
          /\ task_queue' = Tail(q)
    BY <1>2 DEF TicketWriterQueues
  <2>2. q \in Seq(Ticket) /\ q # <<>>
    BY <2>1, QueueShape
  <2>3. \A i, j \in DOMAIN q : q[i].file = q[j].file => i = j
    BY <2>1 DEF Queues
  <2>4. \A i \in DOMAIN q : q[i].file \in Files /\ q[i].text \in TaskTexts
    <3>1. \A i \in DOMAIN q : q[i] \in Ticket
      BY <2>2
    <3> QED
      BY <3>1 DEF Ticket
  <2>5. 1 \in DOMAIN q
    BY <2>2
  <2>6. \A i \in DOMAIN Tail(q) : /\ i + 1 \in DOMAIN q /\ Tail(q)[i] = q[i + 1]
                                  /\ i \in Nat /\ i + 1 # 1
    BY <2>2
  <2>7. /\ pc = "ticket_writer" /\ pc' = "agent_router_node"
        /\ UNCHANGED <<project_files, tries, retired, gate_log, reviewed>>
    BY <1>2 DEF TicketWriterQueues
  <2>8. \A f \in Files : Untouched(f)'
    BY <2>7 DEF TicketInv, CurrentIsOpen, Planning, Untouched, Gated
  <2>9. q[1].text # "None"
    BY <2>4, <2>5, SprintAssumption DEF SprintAssumption
  <2>10. QueueIsNext'
    <3>1. \A i \in DOMAIN Tail(q) : Tail(q)[i].file \in Files
      BY <2>4, <2>6
    <3>2. \A i \in DOMAIN Tail(q) : Tail(q)[i].file # q[1].file
      BY <2>3, <2>5, <2>6
    <3>3. \A i, j \in DOMAIN Tail(q) : Tail(q)[i].file = Tail(q)[j].file => i = j
      BY <2>3, <2>6
    <3> QED
      BY <2>1, <2>8, <2>9, <3>1, <3>2, <3>3 DEF QueueIsNext, Untouched, Gated
  <2>11. CurrentIsOpen'
    <3>1. active_file' \in Files
      BY <2>1, <2>4, <2>5
    <3> QED
      BY <2>7, <2>8, <3>1 DEF CurrentIsOpen, Untouched, Gated, HasCode, Planning
  <2>12. PassedHasRun'
    BY <2>7 DEF TicketInv, PassedHasRun, RetiredCodeRan
  <2> QED
    BY <2>10, <2>11, <2>12 DEF TicketInv
<1> QED
  BY <1>1, <1>2

LEMMA TicketEditor ==
  ASSUME StateTypeOK, TicketInv, Editor
  PROVE  TicketInv'
<1> USE DEF Superstep, Enter, LeaveTo, task, history
<1>1. pc = "async_editor_node" /\ pc' = "reviewer_node"
  BY DEF Editor, EditorIdles, EditorEscalates, EditorWrites, EditorFails, AskForCode
<1>2. CASE EditorIdles \/ EditorEscalates
  BY <1>1, <1>2, TicketsStay
     DEF EditorIdles, EditorEscalates, Planning, Ladder, Trying
<1>3. CASE EditorWrites \/ EditorFails
  <2>1. /\ HasTask(current_task) /\ UNCHANGED <<task, retired, gate_log>>
        /\ \A f \in Files : f # active_file =>
             /\ tries'[f] = tries[f] /\ project_files'[f] = project_files[f]
             /\ reviewed'[f] = reviewed[f]
    BY <1>3 DEF EditorWrites, EditorFails, AskForCode, EditorCallsModel, StateTypeOK
  <2>2. active_file \notin retired /\ ~Gated(active_file) /\ retired \subseteq Files
    BY <1>1, <2>1 DEF TicketInv, CurrentIsOpen, Ladder, Trying, StateTypeOK
  <2>3. QueueIsNext'
    BY <2>1, QueueStays DEF TicketInv, Untouched, Gated
  <2>4. CurrentIsOpen'
    BY <1>1, <2>1, <2>2 DEF CurrentIsOpen, Planning, Gated
  <2>5. PassedHasRun'
    BY <1>1, <2>1, <2>2 DEF TicketInv, PassedHasRun, RetiredCodeRan
  <2> QED
    BY <2>3, <2>4, <2>5 DEF TicketInv
<1> QED
  BY <1>2, <1>3 DEF Editor

LEMMA TicketReviewer ==
  ASSUME StateTypeOK, TicketInv, Reviewer
  PROVE  TicketInv'
<1> USE DEF Superstep, Enter, LeaveTo, task, history
<1>1. CASE ReviewerIdles
  BY <1>1, TicketsStay
     DEF ReviewerIdles, Planning, Ladder, Trying, SemanticStandsDown, HasCode
<1>2. CASE ReviewerPasses \/ ReviewerFails
  <2>1. /\ pc = "reviewer_node" /\ pc' = "semantic_reviewer_node"
        /\ UNCHANGED <<task, retired, gate_log, project_files, tries>>
        /\ \A f \in Files : f # active_file => reviewed'[f] = reviewed[f]
    BY <1>2 DEF ReviewerPasses, ReviewerFails, StateTypeOK
  <2>2. \/ reviewed'[active_file] = "pass"
        \/ HasCode /\ SemanticStandsDown'
    BY <1>2, RaisedTyped
       DEF ReviewerPasses, ReviewerFails, SemanticStandsDown, Reporters, StateTypeOK
  <2>3. HasCode => active_file \notin retired
    BY <2>1 DEF TicketInv, CurrentIsOpen, Ladder, Trying
  <2>4. QueueIsNext'
    BY <2>1, QueueStays DEF TicketInv, Untouched, Gated
  <2>5. CurrentIsOpen'
    BY <2>1 DEF TicketInv, CurrentIsOpen, Planning, Ladder, Trying, Gated, HasCode
  <2>6. PassedHasRun'
    BY <2>1, <2>2, <2>3 DEF TicketInv, PassedHasRun, RetiredCodeRan, StateTypeOK
  <2> QED
    BY <2>4, <2>5, <2>6 DEF TicketInv
<1> QED
  BY <1>1, <1>2 DEF Reviewer

LEMMA TicketSemanticReviewer ==
  ASSUME StateTypeOK, TicketInv, SemanticReviewer
  PROVE  TicketInv'
<1> USE DEF Enter, LeaveTo, LeaveReview, task, history
<1>1. CASE SemanticSkips
  <2>1. /\ pc = "semantic_reviewer_node" /\ pc' \in
             {"human_gate_node", "async_editor_node", "agent_router_node",
              "retrospector_node"}
        /\ UNCHANGED <<task, history, project_files, editor_error>>
        /\ pc' = "agent_router_node" => editor_error = NoError /\ ~loop_health.escalated
    BY <1>1 DEF SemanticSkips, ReviewerLogic, ladder
  <2>2. pc' = "agent_router_node" => ~HasCode
    BY <1>1, <2>1 DEF SemanticSkips, SemanticStandsDown
  <2> QED
    BY <2>1, <2>2, TicketsStay DEF Planning, Ladder, Trying
<1>2. CASE SemanticRejects
  <2>1. editor_error' # NoError
    BY <1>2, RaisedTyped DEF SemanticRejects, Reporters
  <2>2. /\ pc = "semantic_reviewer_node"
        /\ pc' \in {"human_gate_node", "async_editor_node"}
        /\ UNCHANGED <<task, history, project_files>>
    BY <1>2, <2>1 DEF SemanticRejects, ReviewerLogic
  <2> QED
    BY <2>2, TicketsStay DEF Planning, Ladder, Trying
<1>3. CASE SemanticRetires
  <2>1. /\ pc = "semantic_reviewer_node" /\ ~SemanticStandsDown /\ PopTask
        /\ editor_error' = NoError /\ retired' = retired \cup {active_file}
        /\ UNCHANGED <<gate_log, tries, reviewed, project_files>>
        /\ pc' \in {"human_gate_node", "agent_router_node", "retrospector_node"}
        /\ pc' = "agent_router_node" => HasTask(current_task')
    BY <1>3 DEF SemanticRetires, ReviewerLogic
  <2>2. /\ QueueIsNext'
        /\ task_queue = <<>> => current_task' = "None"
        /\ task_queue # <<>> => active_file' \in Files /\ Untouched(active_file)'
    BY <2>1, PopOpens DEF TicketInv, Gated
  <2>3. CurrentIsOpen'
    BY <2>1, <2>2
       DEF CurrentIsOpen, Planning, Ladder, Trying, HasTask, Untouched, HasCode, Gated
  <2>4. PassedHasRun'
    BY <2>1 DEF TicketInv, PassedHasRun, RetiredCodeRan
  <2> QED
    BY <2>2, <2>3, <2>4 DEF TicketInv
<1> QED
  BY <1>1, <1>2, <1>3 DEF SemanticReviewer

LEMMA TicketGate ==
  ASSUME StateTypeOK, TicketInv, HumanGate
  PROVE  TicketInv'
<1>1. /\ PopTask /\ UNCHANGED <<retired, tries, reviewed, project_files>>
      /\ pc' \in {"agent_router_node", "retrospector_node"}
      /\ pc' = "agent_router_node" => HasTask(current_task')
  BY DEF HumanGate, GateLogic, LeaveTo
<1>2. \A f \in Files : f # active_file => (Gated(f)' <=> Gated(f))
  BY DEF HumanGate, Gated
<1>3. /\ QueueIsNext'
      /\ task_queue = <<>> => current_task' = "None"
      /\ task_queue # <<>> => active_file' \in Files /\ Untouched(active_file)'
  BY <1>1, <1>2, PopOpens DEF TicketInv
<1>4. CurrentIsOpen'
  BY <1>1, <1>3
     DEF CurrentIsOpen, Planning, Ladder, Trying, HasTask, Untouched, HasCode, Gated
<1>5. PassedHasRun'
  BY <1>1 DEF TicketInv, PassedHasRun, RetiredCodeRan
<1> QED
  BY <1>3, <1>4, <1>5 DEF TicketInv

LEMMA TicketEnd ==
  ASSUME StateTypeOK, TicketInv,
         AgentRouter \/ Retrospector \/ BudgetStops \/ Crashes
           \/ RecursionError \/ RunSprintReports \/ UNCHANGED vars
  PROVE  TicketInv'
<1> USE DEF Superstep, Enter, LeaveTo, task, history
<1>1. CASE AgentRouter
  BY <1>1, TicketsStay DEF AgentRouter, Planning, Ladder, Trying
<1>2. CASE Retrospector
  BY <1>2 DEF Retrospector, TicketInv, QueueIsNext, CurrentIsOpen, PassedHasRun,
              RetiredCodeRan, Planning, Ladder, Trying
<1>3. CASE BudgetStops \/ Crashes \/ RecursionError \/ RunSprintReports
  BY <1>3, TicketsStay
     DEF BudgetStops, Crashes, RecursionError, RunSprintReports, Planning,
         Ladder, Trying
<1>4. CASE UNCHANGED vars
  BY <1>4 DEF vars, ladder, TicketInv, QueueIsNext, CurrentIsOpen, PassedHasRun,
              RetiredCodeRan, Untouched, Gated, HasCode, SemanticStandsDown
<1> QED
  BY <1>1, <1>2, <1>3, <1>4

LEMMA TicketStep ==
  ASSUME StateTypeOK, TicketInv, [Next]_vars
  PROVE  TicketInv'
<1> QED
  BY TicketPlanning, TicketEditor, TicketReviewer, TicketSemanticReviewer,
     TicketGate, TicketEnd DEF Next, Over

LEMMA TicketAlways == Spec => []TicketInv
<1>1. Init => TicketInv
  BY TicketInit
<1>2. StateTypeOK /\ TicketInv /\ [Next]_vars => TicketInv'
  BY TicketStep
<1> QED
  BY <1>1, <1>2, StateTypeCorrect, PTL DEF Spec

(***************************************************************************)
(* No verdict of the semantic reviewer, and no failure of its call,        *)
(* retires a ticket whose present code has not passed the reviewer.        *)
(***************************************************************************)
THEOREM RetiredCodeHasRun == Spec => []RetiredCodeRan
<1>1. TicketInv => RetiredCodeRan
  BY DEF TicketInv, PassedHasRun
<1> QED
  BY <1>1, TicketAlways, PTL

-----------------------------------------------------------------------------
(***************************************************************************)
(* The ladder of one ticket.  The error it is about, the fingerprint and   *)
(* the breaker are its own; what the editor asked for once has failed at   *)
(* most once; and from the second time on it is the strong model's turn.   *)
(***************************************************************************)
Asked == loop_health.attempt_count
LastError == loop_health.repeat_error_hash

ErrorIsOwn ==
  /\ pc \in Planning \/ (pc = "agent_router_node" /\ HasTask(current_task)) =>
       editor_error = NoError
  /\ pc \in Trying /\ HasTask(current_task) => Asked <= tries[active_file]
  /\ pc \in Trying /\ LastError # NoError => Asked >= 2
  /\ pc \in Planning \cup {"async_editor_node"} => ~loop_health.escalated
  /\ pc \in {"reviewer_node", "semantic_reviewer_node"} /\ loop_health.escalated =>
       HasTask(current_task) /\ Asked >= 2

(* After one answer there is one failure at most. *)
FailuresOfOne ==
  HasTask(current_task) =>
    /\ pc = "async_editor_node" =>
         IF Asked = 0 THEN editor_error = NoError /\ editor_retries = 0 /\ ~HasCode
         ELSE editor_retries >= 1 /\ (Asked = 1 => editor_retries = 1)
    /\ pc = "reviewer_node" =>
         /\ Asked >= 1
         /\ editor_error # NoError => editor_retries >= 1
         /\ Asked = 1 => editor_retries = 0 \/ (editor_retries = 1 /\ ~HasCode)
    /\ pc = "semantic_reviewer_node" =>
         /\ Asked >= 1
         /\ editor_error # NoError => editor_retries >= 1
         /\ Asked = 1 =>
              editor_retries = 0 \/ (editor_retries = 1 /\ SemanticStandsDown)

StrongAfterOne == ForceTier = "" /\ EscalateAfter <= 1

SecondIsStrong ==
  StrongAfterOne =>
    /\ pc \in Trying /\ Asked >= 2 => model_tier = "strong"
    /\ MaxRetries >= 2 =>
         /\ pc = "human_gate_node" /\ tries[active_file] > 0 => model_tier = "strong"
         /\ \A g \in gate_log : tries[g.file] > 0 => g.tier = "strong"

LadderInv == ErrorIsOwn /\ FailuresOfOne /\ SecondIsStrong

LEMMA LadderTyped ==
  ASSUME StateTypeOK
  PROVE  /\ Asked \in Nat /\ editor_retries \in Nat /\ tries[active_file] \in Nat
         /\ active_file \in Files /\ MaxRetries \in Nat /\ EscalateAfter \in Nat
<1>1. EscalateAfter \in Nat
  BY Zenon, SprintAssumption DEF SprintAssumption
<1> QED
  BY <1>1, Bounds DEF StateTypeOK, Asked

LEMMA StrongIsDue ==
  ASSUME StrongAfterOne, NEW n \in Nat, n >= 1
  PROVE  \A hard, floor : SelectTier(hard, n, floor) = "strong"
<1> DEFINE Due == n >= EscalateAfter
<1>1. EscalateAfter <= 1
  BY Zenon DEF StrongAfterOne
<1>2. EscalateAfter \in Nat
  BY Zenon, SprintAssumption DEF SprintAssumption
<1>3. Due
  BY <1>1, <1>2
<1> HIDE DEF Due
<1>4. \A hard, floor : SelectTier(hard, n, floor) =
        IF ForceTier # "" THEN ForceTier
        ELSE IF floor = "strong" \/ hard \/ Due THEN "strong" ELSE "fast"
  BY Zenon DEF SelectTier, Due
<1>5. ForceTier = ""
  BY Zenon DEF StrongAfterOne
<1> QED
  BY Zenon, <1>3, <1>4, <1>5

LEMMA LadderInit == Init => LadderInv
  BY DEF Init, LadderInv, ErrorIsOwn, FailuresOfOne, SecondIsStrong, Planning,
         Trying, DefaultLoopHealth, HasTask

LEMMA LadderPlanning ==
  ASSUME StateTypeOK, TicketInv, LadderInv,
         SprintPlanner \/ TicketWriterQueues \/ TicketWriterFails
  PROVE  LadderInv'
<1>1. /\ pc \in Planning /\ UNCHANGED <<loop_health, model_tier, gate_log, tries>>
      /\ \/ pc' = "ticket_writer" /\ UNCHANGED editor_error
         \/ /\ pc' = "agent_router_node"
            /\ UNCHANGED editor_error \/ UNCHANGED current_task
  BY DEF SprintPlanner, TicketWriterQueues, TicketWriterFails, Superstep, Enter,
         LeaveTo, ladder, routing, history, task, Planning
<1>2. ~HasTask(current_task)
  BY <1>1 DEF TicketInv, CurrentIsOpen, HasTask
<1> QED
  BY <1>1, <1>2
     DEF LadderInv, ErrorIsOwn, FailuresOfOne, SecondIsStrong, Planning, Trying,
         HasTask

LEMMA LadderRouter ==
  ASSUME StateTypeOK, TicketInv, LadderInv, AgentRouter
  PROVE  LadderInv'
<1>1. /\ pc = "agent_router_node" /\ pc' = "async_editor_node"
      /\ UNCHANGED <<task, editor_error, gate_log, tries, project_files>>
      /\ editor_retries' = 0
  BY DEF AgentRouter, RouterResets, Superstep, Enter, LeaveTo, history
<1>2. Asked' = 0 /\ LastError' = NoError /\ ~loop_health'.escalated
  BY DEF AgentRouter, RouterResets, DefaultLoopHealth, Asked, LastError
<1>3. ~HasCode /\ tries[active_file] \in Nat
  BY <1>1, LadderTyped DEF TicketInv, CurrentIsOpen
<1>4. ErrorIsOwn'
  BY <1>1, <1>2, <1>3 DEF ErrorIsOwn, Planning, Trying, task
<1>5. FailuresOfOne'
  BY <1>1, <1>2, <1>3 DEF LadderInv, ErrorIsOwn, FailuresOfOne, HasCode, task
<1>6. SecondIsStrong'
  <2>1. ~(Asked' >= 2)
    BY <1>2
  <2> QED
    BY <1>1, <2>1 DEF LadderInv, SecondIsStrong
<1> QED
  BY <1>4, <1>5, <1>6 DEF LadderInv

LEMMA LadderEditor ==
  ASSUME StateTypeOK, TicketInv, LadderInv, Editor
  PROVE  LadderInv'
<1>1. /\ pc = "async_editor_node" /\ pc' = "reviewer_node"
      /\ UNCHANGED <<task, gate_log>>
  BY DEF Editor, EditorIdles, EditorEscalates, EditorWrites, EditorFails,
         AskForCode, Superstep, Enter, LeaveTo, history, task
<1>2. ~loop_health.escalated
  BY <1>1 DEF LadderInv, ErrorIsOwn
<1>3. CASE EditorIdles
  BY <1>1, <1>2, <1>3
     DEF EditorIdles, LadderInv, ErrorIsOwn, FailuresOfOne, SecondIsStrong,
         Planning, Trying, Asked, LastError, ladder, routing, history, task
<1>4. CASE EditorEscalates
  <2>1. /\ HasTask(current_task) /\ LastError # NoError
        /\ editor_retries' = editor_retries + 1
        /\ UNCHANGED <<model_tier, tries>>
        /\ Asked' = Asked /\ LastError' = LastError
    BY <1>4 DEF EditorEscalates, RepeatsLastError, Asked, LastError, StateTypeOK,
                routing, history
  <2>2. Asked >= 2
    BY <1>1, <2>1 DEF LadderInv, ErrorIsOwn, Trying
  <2>3. ErrorIsOwn'
    BY <1>1, <2>1, <2>2, LadderTyped
       DEF LadderInv, ErrorIsOwn, Planning, Trying, task
  <2>4. FailuresOfOne'
    BY <1>1, <2>1, <2>2, LadderTyped DEF FailuresOfOne
  <2>5. SecondIsStrong'
    BY <1>1, <2>1 DEF LadderInv, SecondIsStrong, Trying
  <2> QED
    BY <2>3, <2>4, <2>5 DEF LadderInv
<1>5. CASE EditorWrites \/ EditorFails
  <2>1. /\ AskForCode /\ HasTask(current_task)
        /\ \/ editor_retries' = editor_retries /\ editor_error' = NoError
           \/ /\ editor_retries' = editor_retries + 1
              /\ UNCHANGED project_files
    BY <1>5 DEF EditorWrites, EditorFails, AskForCode, EditorCallsModel
  <2>2. /\ Asked' = Asked + 1
        /\ LastError' = (IF editor_error # NoError THEN editor_error ELSE LastError)
        /\ ~loop_health'.escalated
    BY <1>2, <2>1 DEF AskForCode, Asked, LastError, StateTypeOK
  <2>3. /\ tries'[active_file] = tries[active_file] + 1
        /\ \A f \in Files : f # active_file => tries'[f] = tries[f]
    BY <2>1, LadderTyped DEF AskForCode, StateTypeOK
  <2>4. IF Asked = 0
        THEN editor_error = NoError /\ editor_retries = 0 /\ ~HasCode
        ELSE editor_retries >= 1
    BY <1>1, <2>1 DEF LadderInv, FailuresOfOne
  <2>5. ErrorIsOwn'
    <3>1. Asked' <= tries'[active_file]
      BY <1>1, <2>1, <2>2, <2>3, LadderTyped DEF LadderInv, ErrorIsOwn, Trying
    <3>2. LastError' # NoError => Asked' >= 2
      BY <1>1, <2>2, <2>4, LadderTyped DEF LadderInv, ErrorIsOwn, Trying
    <3> QED
      BY <1>1, <2>2, <3>1, <3>2 DEF ErrorIsOwn, Planning, Trying, task
  <2>6. FailuresOfOne'
    BY <1>1, <2>1, <2>2, <2>4, LadderTyped DEF FailuresOfOne, HasCode, task
  <2>7. SecondIsStrong'
    <3> SUFFICES ASSUME StrongAfterOne
                 PROVE  /\ Asked' >= 2 => model_tier' = "strong"
                        /\ MaxRetries >= 2 =>
                             \A g \in gate_log : tries'[g.file] > 0 => g.tier = "strong"
      BY <1>1 DEF SecondIsStrong
    <3>1. Asked' >= 2 => editor_retries >= 1
      BY <2>2, <2>4, LadderTyped
    <3>2. Asked' >= 2 => model_tier' = "strong"
      BY <2>1, <3>1, LadderTyped, StrongIsDue DEF AskForCode, Ratchet
    <3>3. \A g \in gate_log : g.file \in Files /\ g.file # active_file
      BY <1>1, <2>1 DEF TicketInv, CurrentIsOpen, Ladder, Trying, Gated, StateTypeOK
    <3> QED
      BY <2>3, <3>2, <3>3 DEF LadderInv, SecondIsStrong
  <2> QED
    BY <2>5, <2>6, <2>7 DEF LadderInv
<1> QED
  BY <1>3, <1>4, <1>5 DEF Editor

LEMMA LadderReviewer ==
  ASSUME StateTypeOK, LadderInv, Reviewer
  PROVE  LadderInv'
<1>1. /\ pc = "reviewer_node" /\ pc' = "semantic_reviewer_node"
      /\ UNCHANGED <<task, loop_health, model_tier, gate_log, tries, project_files>>
  BY DEF Reviewer, ReviewerIdles, ReviewerPasses, ReviewerFails, Superstep, Enter,
         LeaveTo, ladder, routing, history
<1>2. Asked' = Asked /\ LastError' = LastError
  BY <1>1 DEF Asked, LastError
<1>3. \/ ~HasCode /\ UNCHANGED <<editor_error, editor_retries>>
      \/ HasCode /\ editor_error' = NoError /\ UNCHANGED editor_retries
      \/ HasCode /\ editor_error' # NoError /\ editor_retries' = editor_retries + 1
  BY RaisedTyped
     DEF Reviewer, ReviewerIdles, ReviewerPasses, ReviewerFails, PassesReview,
         HasCode, ladder, Reporters
<1>4. ErrorIsOwn'
  BY <1>1, <1>2 DEF LadderInv, ErrorIsOwn, Planning, Trying, task
<1>5. FailuresOfOne'
  <2> SUFFICES ASSUME HasTask(current_task)
               PROVE  /\ Asked >= 1
                      /\ editor_error' # NoError => editor_retries' >= 1
                      /\ Asked = 1 => \/ editor_retries' = 0
                                      \/ editor_retries' = 1 /\ SemanticStandsDown'
    BY <1>1, <1>2 DEF FailuresOfOne, task
  <2>1. /\ Asked >= 1
        /\ editor_error # NoError => editor_retries >= 1
        /\ Asked = 1 => editor_retries = 0 \/ (editor_retries = 1 /\ ~HasCode)
    BY <1>1 DEF LadderInv, FailuresOfOne
  <2>2. HasCode' = HasCode
    BY <1>1 DEF HasCode, task
  <2> QED
    BY <1>3, <2>1, <2>2, LadderTyped DEF SemanticStandsDown
<1>6. SecondIsStrong'
  BY <1>1, <1>2 DEF LadderInv, SecondIsStrong, Trying
<1> QED
  BY <1>4, <1>5, <1>6 DEF LadderInv

LEMMA LadderSemanticReviewer ==
  ASSUME StateTypeOK, TicketInv, LadderInv, SemanticReviewer
  PROVE  LadderInv'
<1>1. /\ pc = "semantic_reviewer_node"
      /\ UNCHANGED <<loop_health, model_tier, gate_log, tries, project_files>>
      /\ pc' = ReviewerLogic(loop_health.escalated, editor_error', editor_retries',
                             current_task')
  BY DEF SemanticReviewer, SemanticSkips, SemanticRetires, SemanticRejects, Enter,
         LeaveReview, LeaveTo, ladder, routing, history
<1>2. Asked' = Asked /\ LastError' = LastError
  BY <1>1 DEF Asked, LastError
<1>3. \/ /\ ~HasTask(current_task)
         /\ tries[active_file] = 0 /\ UNCHANGED <<task, editor_error, editor_retries>>
      \/ /\ HasTask(current_task) /\ UNCHANGED task /\ Asked >= 1
         /\ editor_error' # NoError => editor_retries' >= 1
         /\ editor_error' # NoError /\ Asked = 1 => editor_retries' = 1
      \/ /\ editor_error' = NoError
         /\ active_file' = active_file \/ tries[active_file'] = 0
  <2>1. CASE SemanticSkips
    <3>1. UNCHANGED <<task, editor_error, editor_retries>>
      BY <2>1 DEF SemanticSkips, ladder
    <3>2. ~HasTask(current_task) => tries[active_file] = 0
      BY <1>1 DEF TicketInv, CurrentIsOpen, Ladder, Trying
    <3>3. HasTask(current_task) =>
            /\ Asked >= 1
            /\ editor_error # NoError => editor_retries >= 1
            /\ Asked = 1 => editor_retries = 0 \/ editor_retries = 1
      BY <1>1 DEF LadderInv, FailuresOfOne
    <3> QED
      BY <3>1, <3>2, <3>3
  <2>2. CASE SemanticRejects
    <3>1. /\ UNCHANGED task /\ editor_retries' = editor_retries + 1
          /\ ~SemanticStandsDown
      BY <2>2 DEF SemanticRejects, SemanticCallsModel
    <3>2. HasTask(current_task)
      BY <1>1, <3>1 DEF TicketInv, CurrentIsOpen, Ladder, Trying, SemanticStandsDown
    <3>3. Asked >= 1 /\ (Asked = 1 => editor_retries = 0)
      BY <1>1, <3>1, <3>2 DEF LadderInv, FailuresOfOne
    <3> QED
      BY <3>1, <3>2, <3>3, LadderTyped
  <2>3. CASE SemanticRetires
    <3>1. /\ PopTask /\ editor_error' = NoError
          /\ retired' = retired \cup {active_file}
          /\ UNCHANGED <<gate_log, tries, project_files>>
      BY <2>3 DEF SemanticRetires
    <3>2. active_file' = active_file \/ Untouched(active_file)'
      BY <3>1, PopOpens DEF TicketInv, Gated
    <3> QED
      BY <3>1, <3>2 DEF Untouched
  <2> QED
    BY <2>1, <2>2, <2>3 DEF SemanticReviewer
<1>4. /\ pc' = "async_editor_node" =>
           HasTask(current_task') /\ editor_error' # NoError /\ ~loop_health.escalated
      /\ pc' = "agent_router_node" => editor_error' = NoError
      /\ pc' \notin Planning \cup {"reviewer_node", "semantic_reviewer_node"}
      /\ pc' = "human_gate_node" =>
           \/ loop_health.escalated
           \/ editor_error' # NoError /\ editor_retries' >= MaxRetries
           \/ editor_error' # NoError /\ ~HasTask(current_task')
  BY <1>1 DEF ReviewerLogic, Planning
<1>5. ErrorIsOwn'
  BY <1>1, <1>2, <1>3, <1>4
     DEF LadderInv, ErrorIsOwn, Planning, Trying, task, HasTask
<1>6. FailuresOfOne'
  <2>1. CASE pc' = "async_editor_node"
    <3>1. /\ Asked >= 1 /\ editor_retries' >= 1
          /\ Asked = 1 => editor_retries' = 1
      BY <1>3, <1>4, <2>1 DEF task
    <3> QED
      BY <1>2, <2>1, <3>1, LadderTyped DEF FailuresOfOne
  <2>2. CASE pc' # "async_editor_node"
    BY <1>4, <2>2 DEF FailuresOfOne
  <2> QED
    BY <2>1, <2>2
<1>7. SecondIsStrong'
  <2> SUFFICES ASSUME StrongAfterOne
               PROVE  /\ pc' \in Trying /\ Asked >= 2 => model_tier = "strong"
                      /\ MaxRetries >= 2 =>
                           /\ pc' = "human_gate_node" /\ tries[active_file'] > 0 =>
                                model_tier = "strong"
                           /\ \A g \in gate_log :
                                tries[g.file] > 0 => g.tier = "strong"
    BY <1>1, <1>2 DEF SecondIsStrong
  <2>1. Asked >= 2 => model_tier = "strong"
    BY <1>1 DEF LadderInv, SecondIsStrong, Trying
  <2>2. loop_health.escalated => Asked >= 2
    BY <1>1 DEF LadderInv, ErrorIsOwn
  <2>3. ASSUME MaxRetries >= 2, pc' = "human_gate_node", tries[active_file'] > 0
        PROVE  Asked >= 2
    <3>1. CASE loop_health.escalated
      BY <2>2, <3>1
    <3>2. CASE editor_error' # NoError
      <4>1. ~(editor_error' # NoError /\ tries[active_file] = 0 /\ UNCHANGED task)
        BY <2>3, LadderTyped DEF task
      <4>2. Asked # 1
        <5>1. CASE editor_retries' >= MaxRetries
          BY <1>3, <2>3, <3>2, <4>1, <5>1, LadderTyped
        <5>2. CASE loop_health.escalated
          BY <2>2, <5>2
        <5>3. CASE ~HasTask(current_task')
          BY <1>3, <3>2, <4>1, <5>3 DEF task, HasTask
        <5> QED
          BY <1>4, <2>3, <5>1, <5>2, <5>3
      <4>3. Asked >= 1
        BY <1>3, <3>2, <4>1
      <4> QED
        BY <4>2, <4>3, LadderTyped
    <3> QED
      BY <1>4, <2>3, <3>1, <3>2
  <2> QED
    BY <2>1, <2>3 DEF LadderInv, SecondIsStrong
<1> QED
  BY <1>5, <1>6, <1>7 DEF LadderInv

LEMMA LadderGate ==
  ASSUME LadderInv, HumanGate
  PROVE  LadderInv'
<1>1. /\ pc = "human_gate_node" /\ pc' \in {"agent_router_node", "retrospector_node"}
      /\ editor_error' = NoError /\ UNCHANGED <<model_tier, tries>>
      /\ \A g \in gate_log' :
           g \in gate_log \/ (g.file = active_file /\ g.tier = model_tier)
  <2> DEFINE visit == [file |-> active_file, text |-> current_task,
                       error |-> editor_error, tier |-> model_tier]
  <2>1. gate_log' = gate_log \cup {visit}
    BY DEF HumanGate
  <2>2. visit.file = active_file /\ visit.tier = model_tier
    OBVIOUS
  <2> HIDE DEF visit
  <2>3. /\ pc = "human_gate_node"
        /\ pc' \in {"agent_router_node", "retrospector_node"}
        /\ editor_error' = NoError /\ UNCHANGED <<model_tier, tries>>
    BY DEF HumanGate, Enter, LeaveTo, GateLogic, routing
  <2> QED
    BY <2>1, <2>2, <2>3
<1>2. ErrorIsOwn' /\ FailuresOfOne'
  BY <1>1 DEF ErrorIsOwn, FailuresOfOne, Planning, Trying
<1>3. SecondIsStrong'
  <2> SUFFICES ASSUME StrongAfterOne, MaxRetries >= 2,
                      NEW g \in gate_log', tries'[g.file] > 0
               PROVE  g.tier = "strong"
    BY <1>1 DEF SecondIsStrong, Trying
  <2>1. CASE g \in gate_log
    BY <1>1, <2>1 DEF LadderInv, SecondIsStrong
  <2>2. CASE g.file = active_file /\ g.tier = model_tier
    BY <1>1, <2>2 DEF LadderInv, SecondIsStrong
  <2> QED
    BY <1>1, <2>1, <2>2
<1> QED
  BY <1>2, <1>3 DEF LadderInv

LEMMA LadderEnd ==
  ASSUME LadderInv,
         Retrospector \/ BudgetStops \/ Crashes \/ RecursionError
           \/ RunSprintReports \/ UNCHANGED vars
  PROVE  LadderInv'
<1>1. CASE UNCHANGED vars
  BY <1>1
     DEF vars, task, ladder, routing, history, LadderInv, ErrorIsOwn, FailuresOfOne,
         SecondIsStrong, Asked, LastError, HasCode, SemanticStandsDown
<1>2. CASE Retrospector \/ BudgetStops \/ Crashes \/ RecursionError
             \/ RunSprintReports
  <2>1. /\ pc' \in {"END", "done", "crashed", "recursion_error"}
        /\ UNCHANGED <<model_tier, gate_log, tries>>
    BY <1>2
       DEF Retrospector, BudgetStops, Crashes, RecursionError,
           RunSprintReports, Superstep, LeaveTo, routing, history
  <2> QED
    BY <2>1
       DEF LadderInv, ErrorIsOwn, FailuresOfOne, SecondIsStrong, Planning, Trying
<1> QED
  BY <1>1, <1>2

LEMMA LadderStep ==
  ASSUME StateTypeOK, TicketInv, LadderInv, [Next]_vars
  PROVE  LadderInv'
<1> QED
  BY LadderPlanning, LadderRouter, LadderEditor, LadderReviewer,
     LadderSemanticReviewer, LadderGate, LadderEnd DEF Next, Over

LEMMA LadderAlways == Spec => []LadderInv
<1>1. Init => LadderInv
  BY LadderInit
<1>2. StateTypeOK /\ TicketInv /\ LadderInv /\ [Next]_vars => LadderInv'
  BY LadderStep
<1> QED
  BY <1>1, <1>2, StateTypeCorrect, TicketAlways, PTL DEF Spec

(***************************************************************************)
(* The repeat-error breaker trips on a ticket's own second failure at the  *)
(* earliest: the fingerprint of an earlier ticket's error never reaches    *)
(* it.                                                                     *)
(***************************************************************************)
THEOREM RepeatsAreItsOwn == Spec => []RepeatIsTheTicketsOwn
<1>1. StateTypeOK /\ LadderInv => RepeatIsTheTicketsOwn
  BY LadderTyped DEF LadderInv, ErrorIsOwn, RepeatIsTheTicketsOwn, Trying
<1> QED
  BY <1>1, StateTypeCorrect, LadderAlways, PTL

(***************************************************************************)
(* With the strong tier due after one failure and two attempts or more, a  *)
(* ticket a model was asked about reaches the human gate only after the    *)
(* strong model had it.                                                    *)
(***************************************************************************)
THEOREM TheStrongModelHadIt == Spec => []StrongTriedBeforeHuman
<1>1. LadderInv => StrongTriedBeforeHuman
  BY Zenon DEF LadderInv, SecondIsStrong, StrongAfterOne, StrongTriedBeforeHuman
<1> QED
  BY <1>1, LadderAlways, PTL

-----------------------------------------------------------------------------
(***************************************************************************)
(* Every answer of a ticket but the last has failed, and was counted.      *)
(***************************************************************************)
AnswersFailed ==
  /\ \A f \in Files : tries[f] <= MaxRetries
  /\ HasTask(current_task) =>
       /\ pc = "agent_router_node" => tries[active_file] = 0
       /\ pc = "async_editor_node" => tries[active_file] <= editor_retries
       /\ pc \in {"reviewer_node", "semantic_reviewer_node"} =>
            /\ tries[active_file] <= editor_retries + 1
            /\ editor_error # NoError => tries[active_file] <= editor_retries

LEMMA AnswersTyped ==
  ASSUME FuelInv
  PROVE  /\ tries \in [Files -> Nat] /\ active_file \in Files
         /\ editor_retries \in Nat /\ MaxRetries \in Nat
  BY Bounds DEF FuelInv, TypeInv, StateTypeOK

LEMMA AnswersInit == Init => AnswersFailed
<1> SUFFICES ASSUME Init PROVE AnswersFailed
  OBVIOUS
<1>1. \A f \in Files : tries[f] = 0
  BY DEF Init
<1> QED
  BY <1>1, Bounds DEF Init, AnswersFailed

(***************************************************************************)
(* The next ticket of the queue has not been asked about.                  *)
(***************************************************************************)
LEMMA AnswersPop ==
  ASSUME FuelInv, TicketInv, AnswersFailed, PopTask,
         UNCHANGED <<project_files, tries>>,
         \A f \in Files : f # active_file =>
           (f \in retired' <=> f \in retired) /\ (Gated(f)' <=> Gated(f)),
         pc' \in {"human_gate_node", "agent_router_node", "retrospector_node"}
  PROVE  AnswersFailed'
<1>1. StateTypeOK
  BY DEF FuelInv, TypeInv
<1>2. /\ task_queue = <<>> => current_task' = "None"
      /\ task_queue # <<>> => Untouched(active_file)'
  BY <1>1, PopOpens DEF TicketInv
<1>3. HasTask(current_task') => tries'[active_file'] = 0
  BY <1>2 DEF HasTask, Untouched
<1> QED
  BY <1>3 DEF AnswersFailed

LEMMA AnswersPlanning ==
  ASSUME FuelInv, TicketInv, AnswersFailed,
         SprintPlanner \/ TicketWriterQueues \/ TicketWriterFails, FuelInv'
  PROVE  AnswersFailed'
<1>1. /\ pc \in Planning /\ UNCHANGED tries
      /\ pc' \in {"ticket_writer", "agent_router_node"}
  BY DEF SprintPlanner, TicketWriterQueues, TicketWriterFails, Superstep, Enter,
         LeaveTo, history, Planning
<1>2. \A f \in Files : tries'[f] = 0
  BY <1>1 DEF TicketInv, CurrentIsOpen, Untouched
<1>3. active_file' \in Files
  BY DEF FuelInv, TypeInv, StateTypeOK
<1> QED
  BY <1>1, <1>2, <1>3, Bounds DEF AnswersFailed

LEMMA AnswersEditor ==
  ASSUME FuelInv, AnswersFailed, Editor
  PROVE  AnswersFailed'
<1>1. pc = "async_editor_node" /\ pc' = "reviewer_node" /\ UNCHANGED task
  BY DEF Editor, EditorIdles, EditorEscalates, EditorWrites, EditorFails,
         AskForCode, Superstep, Enter, LeaveTo, task
<1>2. HasTask(current_task) =>
        tries[active_file] <= editor_retries /\ editor_retries < MaxRetries
  BY <1>1 DEF AnswersFailed, FuelInv, TypeInv, RetryRange
<1>3. CASE EditorIdles
  BY <1>1, <1>3 DEF EditorIdles, AnswersFailed, history, task
<1>4. CASE EditorEscalates
  <2>1. UNCHANGED tries /\ editor_retries' = editor_retries + 1
    BY <1>4 DEF EditorEscalates, history
  <2> QED
    BY <1>1, <1>2, <2>1, AnswersTyped DEF AnswersFailed, task
<1>5. CASE EditorWrites \/ EditorFails
  <2>1. /\ HasTask(current_task)
        /\ tries'[active_file] = tries[active_file] + 1
        /\ \A f \in Files : f # active_file => tries'[f] = tries[f]
    BY <1>5, AnswersTyped
       DEF EditorWrites, EditorFails, AskForCode, EditorCallsModel
  <2>2. \/ editor_retries' = editor_retries /\ editor_error' = NoError
        \/ editor_retries' = editor_retries + 1
    BY <1>5 DEF EditorWrites, EditorFails
  <2>3. \A f \in Files : tries'[f] <= MaxRetries
    BY <1>2, <2>1, AnswersTyped DEF AnswersFailed
  <2>4. /\ tries'[active_file] <= editor_retries' + 1
        /\ editor_error' # NoError => tries'[active_file] <= editor_retries'
    BY <1>2, <2>1, <2>2, AnswersTyped
  <2> QED
    BY <1>1, <2>3, <2>4 DEF AnswersFailed, task
<1> QED
  BY <1>3, <1>4, <1>5 DEF Editor

LEMMA AnswersReviewer ==
  ASSUME FuelInv, AnswersFailed, Reviewer
  PROVE  AnswersFailed'
<1>1. /\ pc = "reviewer_node" /\ pc' = "semantic_reviewer_node"
      /\ UNCHANGED <<task, tries>>
      /\ \/ UNCHANGED <<editor_error, editor_retries>>
         \/ editor_error' = NoError /\ UNCHANGED editor_retries
         \/ editor_retries' = editor_retries + 1
  BY DEF Reviewer, ReviewerIdles, ReviewerPasses, ReviewerFails, Superstep, Enter,
         LeaveTo, ladder, history
<1> QED
  BY <1>1, AnswersTyped DEF AnswersFailed, task

LEMMA AnswersSemanticReviewer ==
  ASSUME FuelInv, TicketInv, AnswersFailed, SemanticReviewer
  PROVE  AnswersFailed'
<1>1. /\ pc = "semantic_reviewer_node"
      /\ UNCHANGED <<loop_health, tries, project_files>>
      /\ pc' = ReviewerLogic(loop_health.escalated, editor_error', editor_retries',
                             current_task')
  BY DEF SemanticReviewer, SemanticSkips, SemanticRetires, SemanticRejects, Enter,
         LeaveReview, LeaveTo, ladder, history
<1>2. CASE SemanticSkips
  <2>1. /\ UNCHANGED <<task, editor_error, editor_retries>>
        /\ SemanticStandsDown \/ loop_health.escalated
    BY <1>2 DEF SemanticSkips, ladder
  <2>2. /\ pc' # "reviewer_node" /\ pc' # "semantic_reviewer_node"
        /\ pc' = "async_editor_node" => editor_error # NoError
        /\ pc' = "agent_router_node" =>
             /\ ~loop_health.escalated /\ editor_error = NoError
             /\ HasTask(current_task)
    BY <1>1, <2>1 DEF ReviewerLogic, task
  <2>3. pc' # "agent_router_node"
    BY <1>1, <2>1, <2>2 DEF FuelInv, CodeOrError, SemanticStandsDown
  <2> QED
    BY <1>1, <2>1, <2>2, <2>3, AnswersTyped DEF AnswersFailed, task
<1>3. CASE SemanticRejects
  <2>1. UNCHANGED task /\ editor_retries' = editor_retries + 1
          /\ editor_error' # NoError
    BY <1>3, RaisedTyped DEF SemanticRejects, Reporters
  <2>2. pc' \in {"human_gate_node", "async_editor_node"}
    BY <1>1, <2>1 DEF ReviewerLogic
  <2> QED
    BY <1>1, <2>1, <2>2, AnswersTyped DEF AnswersFailed, task
<1>4. CASE SemanticRetires
  <2>1. /\ PopTask /\ editor_error' = NoError
        /\ retired' = retired \cup {active_file} /\ UNCHANGED gate_log
    BY <1>4 DEF SemanticRetires
  <2>2. pc' \in {"human_gate_node", "agent_router_node", "retrospector_node"}
    BY <1>1, <2>1 DEF ReviewerLogic
  <2> QED
    BY <1>1, <2>1, <2>2, AnswersPop DEF Gated
<1> QED
  BY <1>2, <1>3, <1>4 DEF SemanticReviewer

LEMMA AnswersGate ==
  ASSUME FuelInv, TicketInv, AnswersFailed, HumanGate
  PROVE  AnswersFailed'
<1>1. /\ PopTask /\ UNCHANGED <<retired, tries, project_files>>
      /\ pc' \in {"agent_router_node", "retrospector_node"}
  BY DEF HumanGate, GateLogic, LeaveTo
<1>2. \A f \in Files : f # active_file => (Gated(f)' <=> Gated(f))
  BY DEF HumanGate, Gated
<1> QED
  BY <1>1, <1>2, AnswersPop

LEMMA AnswersEnd ==
  ASSUME FuelInv, AnswersFailed,
         AgentRouter \/ Retrospector \/ BudgetStops \/ Crashes
           \/ RecursionError \/ RunSprintReports \/ UNCHANGED vars
  PROVE  AnswersFailed'
<1>1. CASE AgentRouter
  <2>1. /\ pc = "agent_router_node" /\ pc' = "async_editor_node"
        /\ UNCHANGED <<task, tries>> /\ editor_retries' = 0
    BY <1>1 DEF AgentRouter, RouterResets, Superstep, Enter, LeaveTo, history
  <2> QED
    BY <2>1 DEF AnswersFailed, task
<1>2. CASE Retrospector \/ BudgetStops \/ Crashes \/ RecursionError
             \/ RunSprintReports
  <2>1. /\ pc' \in {"END", "done", "crashed", "recursion_error"} /\ UNCHANGED tries
    BY <1>2
       DEF Retrospector, BudgetStops, Crashes, RecursionError,
           RunSprintReports, Superstep, LeaveTo, history
  <2> QED
    BY <2>1 DEF AnswersFailed
<1>3. CASE UNCHANGED vars
  BY <1>3 DEF vars, task, ladder, history, AnswersFailed
<1> QED
  BY <1>1, <1>2, <1>3

LEMMA AnswersStep ==
  ASSUME FuelInv, FuelInv', TicketInv, AnswersFailed, [Next]_vars
  PROVE  AnswersFailed'
<1> QED
  BY AnswersPlanning, AnswersEditor, AnswersReviewer, AnswersSemanticReviewer,
     AnswersGate, AnswersEnd DEF Next, Over

(***************************************************************************)
(* The editor asks a model for one file at most MaxRetries times, whatever *)
(* of the call, the sandbox and the semantic review fails.                 *)
(***************************************************************************)
THEOREM GenerationsAreBounded == Spec => []GenerationsBounded
<1>1. CASE MuteExceptions
  <2>1. GenerationsBounded
    BY <1>1 DEF GenerationsBounded
  <2> QED
    BY <2>1, PTL
<1>2. CASE ~MuteExceptions
  <2>1. Init => FuelInv /\ AnswersFailed
    BY <1>2, FuelInit, AnswersInit
  <2>2. FuelInv /\ [Next]_vars => FuelInv'
    BY FuelStep
  <2>3. FuelInv /\ FuelInv' /\ TicketInv /\ AnswersFailed /\ [Next]_vars =>
          AnswersFailed'
    BY AnswersStep
  <2>4. AnswersFailed => GenerationsBounded
    BY DEF AnswersFailed, GenerationsBounded
  <2> QED
    BY <2>1, <2>2, <2>3, <2>4, TicketAlways, PTL DEF Spec
<1> QED
  BY <1>1, <1>2

-----------------------------------------------------------------------------
(***************************************************************************)
(* How a sprint comes to its report.  A sprint without a plan has an error *)
(* that only the human gate clears; what the breaker of one ticket has     *)
(* tripped is remembered by the sticky flag before another node reads it.  *)
(***************************************************************************)
OutcomeInv ==
  /\ pc \in Planning => planned = <<>> /\ ~sprint_escalated
  /\ planned = <<>> =>
       /\ current_task = "None"
       /\ pc \in Ladder => editor_error # NoError
       /\ pc = "retrospector_node" \/ (pc = "END" /\ ~budget_exhausted) =>
            sprint_escalated
  /\ pc \in {"agent_router_node", "retrospector_node", "END"} /\ loop_health.escalated =>
       sprint_escalated
  /\ pc = "retrospector_node" => ~HasTask(current_task)
  /\ pc = "END" /\ ~budget_exhausted => current_task = "None"

LEMMA OutcomeInit == Init => OutcomeInv
  BY DEF Init, OutcomeInv, Planning, Ladder, Trying

LEMMA OutcomePlanning ==
  ASSUME StateTypeOK, TicketInv, LadderInv, OutcomeInv,
         SprintPlanner \/ TicketWriterQueues \/ TicketWriterFails
  PROVE  OutcomeInv'
<1>1. pc \in Planning /\ UNCHANGED <<loop_health, sprint_escalated>>
  BY DEF SprintPlanner, TicketWriterQueues, TicketWriterFails, Superstep, Enter,
         ladder, Planning
<1>2. /\ planned = <<>> /\ ~sprint_escalated /\ ~loop_health.escalated
      /\ current_task = "None"
  BY <1>1 DEF OutcomeInv, LadderInv, ErrorIsOwn, TicketInv, CurrentIsOpen
<1>3. CASE SprintPlanner
  BY <1>1, <1>2, <1>3
     DEF SprintPlanner, Superstep, LeaveTo, OutcomeInv, Planning, Ladder, Trying,
         task, history
<1>4. CASE TicketWriterQueues
  <2>1. planned' # <<>> /\ pc' = "agent_router_node"
    BY <1>4 DEF TicketWriterQueues, Superstep, LeaveTo
  <2> QED
    BY <1>1, <1>2, <2>1 DEF OutcomeInv, Planning
<1>5. CASE TicketWriterFails
  <2>1. editor_error' # NoError /\ pc' = "agent_router_node"
          /\ UNCHANGED current_task
    BY <1>5, RaisedTyped DEF TicketWriterFails, Superstep, LeaveTo, Reporters, task
  <2> QED
    BY <1>1, <1>2, <2>1 DEF OutcomeInv, Planning
<1> QED
  BY <1>3, <1>4, <1>5

(***************************************************************************)
(* A sprint without a plan never gets code from anybody.                   *)
(***************************************************************************)
LEMMA NoPlanNoCode ==
  ASSUME TicketInv, OutcomeInv, planned = <<>>, pc \in Ladder
  PROVE  ~HasTask(current_task) /\ ~HasCode /\ editor_error # NoError
  BY DEF TicketInv, CurrentIsOpen, OutcomeInv, HasTask

LEMMA OutcomeWork ==
  ASSUME StateTypeOK, TicketInv, LadderInv, OutcomeInv, AgentRouter \/ Editor \/ Reviewer
  PROVE  OutcomeInv'
<1>1. /\ pc \in Ladder /\ UNCHANGED <<planned, current_task>>
      /\ pc' \in {"async_editor_node", "reviewer_node", "semantic_reviewer_node"}
  BY DEF AgentRouter, Editor, EditorIdles, EditorEscalates, EditorWrites,
         EditorFails, AskForCode, Reviewer, ReviewerIdles, ReviewerPasses,
         ReviewerFails, Superstep, Enter, LeaveTo, Ladder, Trying, task, history
<1>2. planned = <<>> => editor_error' = editor_error
  <2>1. AgentRouter => editor_error' = editor_error
    BY DEF AgentRouter
  <2>2. planned = <<>> /\ Editor => editor_error' = editor_error
    BY <1>1, NoPlanNoCode
       DEF Editor, EditorIdles, EditorEscalates, EditorWrites, EditorFails,
           AskForCode, EditorCallsModel, ladder
  <2>3. planned = <<>> /\ Reviewer => editor_error' = editor_error
    BY <1>1, NoPlanNoCode
       DEF Reviewer, ReviewerIdles, ReviewerPasses, ReviewerFails, PassesReview,
           HasCode, ladder
  <2> QED
    BY <2>1, <2>2, <2>3
<1> QED
  BY <1>1, <1>2, NoPlanNoCode DEF OutcomeInv, Planning

LEMMA OutcomeSemanticReviewer ==
  ASSUME StateTypeOK, TicketInv, LadderInv, OutcomeInv, SemanticReviewer
  PROVE  OutcomeInv'
<1>1. /\ pc = "semantic_reviewer_node"
      /\ UNCHANGED <<loop_health, planned, sprint_escalated>>
      /\ pc' = ReviewerLogic(loop_health.escalated, editor_error', editor_retries',
                             current_task')
  BY DEF SemanticReviewer, SemanticSkips, SemanticRetires, SemanticRejects, Enter,
         LeaveReview, LeaveTo, ladder, history
<1>2. planned = <<>> => UNCHANGED <<current_task, editor_error>>
  BY <1>1, NoPlanNoCode
     DEF SemanticReviewer, SemanticSkips, SemanticRetires, SemanticRejects,
         SemanticCallsModel, SemanticStandsDown, Ladder, Trying, task, ladder
<1>3. planned = <<>> => pc' = "human_gate_node"
  BY <1>1, <1>2, NoPlanNoCode DEF ReviewerLogic, Ladder, Trying
<1>4. /\ pc' \in {"human_gate_node", "async_editor_node", "agent_router_node",
                  "retrospector_node"}
      /\ pc' \in {"agent_router_node", "retrospector_node"} => ~loop_health.escalated
      /\ pc' = "retrospector_node" => ~HasTask(current_task')
  BY <1>1 DEF ReviewerLogic
<1> QED
  BY <1>1, <1>2, <1>3, <1>4 DEF OutcomeInv, Planning, Ladder, Trying

LEMMA OutcomeGate ==
  ASSUME StateTypeOK, TicketInv, OutcomeInv, HumanGate
  PROVE  OutcomeInv'
<1>1. /\ PopTask /\ sprint_escalated' /\ UNCHANGED planned
      /\ pc' = GateLogic(current_task')
  BY Zenon DEF HumanGate, LeaveTo
<1>2. planned = <<>> => current_task' = "None"
  BY <1>1 DEF PopTask, OutcomeInv, TicketInv, QueueIsNext
<1>3. /\ pc' \in {"agent_router_node", "retrospector_node"}
      /\ HasTask(current_task') <=> pc' = "agent_router_node"
  BY <1>1 DEF GateLogic
<1>4. planned = <<>> => pc' = "retrospector_node"
  BY <1>2, <1>3 DEF HasTask
<1> QED
  BY <1>1, <1>2, <1>3, <1>4 DEF OutcomeInv, Planning, Ladder, Trying

LEMMA OutcomeEnd ==
  ASSUME StateTypeOK, TicketInv, LadderInv, ReportInv, OutcomeInv,
         Retrospector \/ BudgetStops \/ Crashes \/ RecursionError
           \/ RunSprintReports \/ UNCHANGED vars
  PROVE  OutcomeInv'
<1>1. CASE Retrospector
  <2>1. /\ pc = "retrospector_node" /\ pc' = "END" /\ current_task' = "None"
        /\ UNCHANGED <<planned, loop_health, sprint_escalated>>
    BY <1>1 DEF Retrospector, Superstep, Enter, LeaveTo, ladder, history
  <2> QED
    BY <2>1 DEF OutcomeInv, Planning, Ladder, Trying
<1>2. CASE BudgetStops
  <2>1. /\ pc \in Planning \cup Trying /\ pc' = "END" /\ budget_exhausted'
        /\ UNCHANGED <<planned, current_task, loop_health, sprint_escalated>>
        /\ pc = "semantic_reviewer_node" => ~loop_health.escalated
        /\ pc # "reviewer_node"
    BY <1>2
       DEF BudgetStops, CallsModel, EditorCallsModel, SemanticCallsModel, Planning,
           Trying, task, ladder, history
  <2>2. ~loop_health.escalated
    BY <2>1 DEF LadderInv, ErrorIsOwn, Trying
  <2> QED
    BY <2>1, <2>2 DEF OutcomeInv, Planning, Ladder, Trying
<1>3. CASE Crashes \/ RecursionError \/ RunSprintReports
  <2>1. /\ pc' \in {"crashed", "recursion_error", "done"}
        /\ UNCHANGED <<planned, current_task>>
    BY <1>3 DEF Crashes, RecursionError, RunSprintReports, task, history
  <2> QED
    BY <2>1 DEF OutcomeInv, Planning, Ladder, Trying
<1>4. CASE UNCHANGED vars
  BY <1>4 DEF vars, task, ladder, reports, history, OutcomeInv
<1> QED
  BY <1>1, <1>2, <1>3, <1>4

LEMMA OutcomeStep ==
  ASSUME StateTypeOK, TicketInv, LadderInv, ReportInv, OutcomeInv, [Next]_vars
  PROVE  OutcomeInv'
<1> QED
  BY OutcomePlanning, OutcomeWork, OutcomeSemanticReviewer, OutcomeGate, OutcomeEnd
     DEF Next, Over

LEMMA OutcomeAlways == Spec => []OutcomeInv
<1>1. Init => OutcomeInv
  BY OutcomeInit
<1>2. /\ StateTypeOK /\ TicketInv /\ LadderInv /\ ReportInv /\ OutcomeInv
      /\ [Next]_vars
      => OutcomeInv'
  BY OutcomeStep
<1> QED
  BY <1>1, <1>2, StateTypeCorrect, TicketAlways, LadderAlways, ReportAlways, PTL DEF Spec

-----------------------------------------------------------------------------
(***************************************************************************)
(* The refinement.  Every step of the sprint is a step of the ledger, or   *)
(* does nothing to it.                                                     *)
(***************************************************************************)
SprintInv == StateTypeOK /\ TicketInv /\ LadderInv /\ ReportInv /\ OutcomeInv

Stopped == {"done", "crashed", "recursion_error"}
Skipped == {g.file : g \in {g \in gate_log : g.text # "None"}}

LEMMA QueueUnfolds ==
  ASSUME NEW q \in Seq(Ticket), q # <<>>
  PROVE  <<[file |-> q[1].file, text |-> q[1].text]>> \o Tail(q) = q
<1>1. q[1] \in Ticket
  OBVIOUS
<1>2. [file |-> q[1].file, text |-> q[1].text] = q[1]
  BY <1>1 DEF Ticket
<1>3. Len(q) \in Nat /\ Len(q) >= 1
  OBVIOUS
<1>4. SubSeq(q, 1, Len(q)) = <<q[1]>> \o SubSeq(q, 2, Len(q))
  BY <1>3, SubSeqRecursiveFirst
<1>5. Tail(q) = SubSeq(q, 2, Len(q)) /\ SubSeq(q, 1, Len(q)) = q
  BY TailIsSubSeq, SubSeqFull
<1> QED
  BY <1>2, <1>4, <1>5

LEMMA TextsAreNotNone == "None" \notin TaskTexts
  BY Zenon, SprintAssumption DEF SprintAssumption

(***************************************************************************)
(* The current ticket is the first open one, and taking the next task      *)
(* closes it.                                                              *)
(***************************************************************************)
LEMMA OpenShape ==
  ASSUME StateTypeOK, current_task # "None"
  PROVE  /\ OpenTickets # <<>> /\ OpenTickets[1].file = active_file
         /\ OpenTickets[1].text = current_task
         /\ Tail(OpenTickets) = task_queue
<1> DEFINE t == [file |-> active_file, text |-> current_task]
<1>1. t \in Ticket /\ t.file = active_file /\ t.text = current_task
  BY DEF StateTypeOK, Ticket
<1>2. OpenTickets = <<t>> \o task_queue
  BY DEF OpenTickets
<1>3. task_queue \in Seq(Ticket)
  BY DEF StateTypeOK
<1> HIDE DEF t
<1>4. /\ <<t>> \o task_queue # <<>>
      /\ (<<t>> \o task_queue)[1] = t
      /\ Tail(<<t>> \o task_queue) = task_queue
  BY <1>1, <1>3
<1> QED
  BY <1>1, <1>2, <1>4

LEMMA PopCloses ==
  ASSUME StateTypeOK, TicketInv, PopTask
  PROVE  /\ OpenTickets' = task_queue
         /\ current_task # "None" => OpenTickets' = Tail(OpenTickets)
         /\ current_task = "None" => OpenTickets = <<>> /\ OpenTickets' = <<>>
<1>1. task_queue \in Seq(Ticket)
  BY DEF StateTypeOK
<1>2. OpenTickets' = task_queue
  <2>1. CASE task_queue = <<>>
    BY <2>1 DEF PopTask, OpenTickets
  <2>2. CASE task_queue # <<>>
    <3>1. /\ current_task' = task_queue[1].text
          /\ active_file' = task_queue[1].file
          /\ task_queue' = Tail(task_queue)
      BY <2>2 DEF PopTask
    <3>2. task_queue[1] \in Ticket
      BY <1>1, <2>2
    <3>3. current_task' # "None"
      BY <3>1, <3>2, TextsAreNotNone DEF Ticket
    <3>4. OpenTickets' =
            <<[file |-> task_queue[1].file, text |-> task_queue[1].text]>>
              \o Tail(task_queue)
      BY <3>1, <3>3 DEF OpenTickets
    <3> QED
      BY <1>1, <2>2, <3>4, QueueUnfolds
  <2> QED
    BY <2>1, <2>2
<1>3. current_task # "None" => Tail(OpenTickets) = task_queue
  BY OpenShape
<1>4. current_task = "None" => task_queue = <<>> /\ OpenTickets = <<>>
  BY DEF TicketInv, QueueIsNext, OpenTickets
<1> QED
  BY <1>2, <1>3, <1>4

(***************************************************************************)
(* Until its last step a sprint has no report.                             *)
(***************************************************************************)
LEMMA StillRunning ==
  ASSUME ReportInv, pc \notin Stopped
  PROVE  /\ Report = "running"
         /\ status' = status /\ pc' \notin {"crashed", "recursion_error"} =>
              Report' = "running"
  BY DEF ReportInv, Stopped, Report

LEMMA LedgerStarts == Init => Ledger!Init
<1> SUFFICES ASSUME Init PROVE Ledger!Init
  OBVIOUS
<1>1. /\ planned = <<>> /\ retired = {} /\ sprint_escalated = FALSE
      /\ gate_log = {}
  BY Zenon DEF Init
<1>2. OpenTickets = <<>>
  BY DEF Init, OpenTickets
<1>3. Report = "running"
  BY DEF Init, Report
<1> QED
  BY <1>1, <1>2, <1>3 DEF Ledger!Init

(***************************************************************************)
(* The planner, the router, the editor, the reviewer, a rejection, and a   *)
(* budget that runs out leave every ticket where it is.                    *)
(***************************************************************************)
LEMMA LedgerWaits ==
  ASSUME SprintInv,
         \/ SprintPlanner \/ TicketWriterFails \/ AgentRouter \/ Editor \/ Reviewer
         \/ SemanticSkips \/ SemanticRejects \/ BudgetStops \/ UNCHANGED vars
  PROVE  UNCHANGED Ledger!ledger
<1>1. UNCHANGED <<task, planned, retired, gate_log, sprint_escalated>>
  BY DEF SprintPlanner, TicketWriterFails, AgentRouter, Editor, EditorIdles,
         EditorEscalates, EditorWrites, EditorFails, AskForCode, Reviewer,
         ReviewerIdles, ReviewerPasses, ReviewerFails, SemanticSkips,
         SemanticRejects, BudgetStops, vars, history
<1>2. UNCHANGED OpenTickets
  BY <1>1 DEF OpenTickets, task
<1>3. UNCHANGED Report
  <2>1. CASE UNCHANGED vars
    BY <2>1 DEF vars, reports, Report
  <2>2. CASE ~UNCHANGED vars
    <3>1. /\ pc \notin Stopped /\ status' = status
          /\ pc' \notin {"crashed", "recursion_error"}
      BY <2>2
         DEF SprintPlanner, TicketWriterFails, AgentRouter, Editor, EditorIdles,
             EditorEscalates, EditorWrites, EditorFails, AskForCode, Reviewer,
             ReviewerIdles, ReviewerPasses, ReviewerFails, SemanticSkips,
             SemanticRejects, BudgetStops, CallsModel, EditorCallsModel,
             SemanticCallsModel, Superstep, Enter, LeaveTo, LeaveReview,
             ReviewerLogic, Stopped, reports
    <3> QED
      BY <3>1, StillRunning DEF SprintInv
  <2> QED
    BY <2>1, <2>2
<1> QED
  BY <1>1, <1>2, <1>3 DEF Ledger!ledger

LEMMA LedgerPlans ==
  ASSUME SprintInv, TicketWriterQueues
  PROVE  Ledger!Plan
<1>1. PICK q \in Queues \ {<<>>} :
        /\ planned' = q
        /\ current_task' = q[1].text /\ active_file' = q[1].file
        /\ task_queue' = Tail(q)
  BY DEF TicketWriterQueues
<1>2. q \in Seq(Ticket) /\ q # <<>>
  BY <1>1, QueueShape
<1>3. \A i, j \in DOMAIN q : q[i].file = q[j].file => i = j
  BY <1>1 DEF Queues
<1>4. q[1] \in Ticket
  BY <1>2
<1>5. OpenTickets' = q
  <2>1. current_task' # "None"
    BY <1>1, <1>4, TextsAreNotNone DEF Ticket
  <2>2. OpenTickets' = <<[file |-> q[1].file, text |-> q[1].text]>> \o Tail(q)
    BY <1>1, <2>1 DEF OpenTickets
  <2> QED
    BY <1>2, <2>2, QueueUnfolds
<1>6. /\ pc \in Planning /\ pc \notin Stopped /\ status' = status
      /\ pc' \notin {"crashed", "recursion_error"}
      /\ UNCHANGED <<retired, gate_log, sprint_escalated>>
  BY DEF TicketWriterQueues, Superstep, Enter, LeaveTo, Planning, Stopped, reports
<1>7. planned = <<>> /\ ~sprint_escalated
  BY <1>6 DEF SprintInv, OutcomeInv
<1>8. Report = "running" /\ Report' = "running"
  BY <1>6, StillRunning DEF SprintInv
<1> QED
  BY <1>1, <1>2, <1>3, <1>5, <1>6, <1>7, <1>8
     DEF Ledger!Plan, Ledger!OneTicketPerFile, Ledger!Ticket, Ticket

LEMMA LedgerPasses ==
  ASSUME SprintInv, SemanticRetires
  PROVE  Ledger!Pass
<1>1. /\ pc = "semantic_reviewer_node" /\ HasCode /\ PopTask
      /\ retired' = retired \cup {active_file}
      /\ UNCHANGED <<planned, gate_log, sprint_escalated, status>>
      /\ pc' \notin {"crashed", "recursion_error"}
  BY DEF SemanticRetires, Enter, SemanticStandsDown, LeaveReview, LeaveTo,
         ReviewerLogic, reports
<1>2. current_task # "None"
  BY <1>1 DEF SprintInv, TicketInv, CurrentIsOpen, Ladder, Trying, HasTask
<1>3. /\ OpenTickets # <<>> /\ OpenTickets[1].file = active_file
      /\ OpenTickets' = Tail(OpenTickets)
  BY <1>1, <1>2, OpenShape, PopCloses DEF SprintInv
<1>4. Report = "running" /\ Report' = "running"
  BY <1>1, StillRunning DEF SprintInv, Stopped
<1> QED
  BY <1>1, <1>3, <1>4 DEF Ledger!Pass

(***************************************************************************)
(* The gate skips the ticket there is; without one it only sounds the      *)
(* alarm.                                                                  *)
(***************************************************************************)
LEMMA LedgerSkips ==
  ASSUME SprintInv, HumanGate
  PROVE  Ledger!Skip \/ Ledger!Alarm
<1> DEFINE visit == [file |-> active_file, text |-> current_task,
                     error |-> editor_error, tier |-> model_tier]
<1>1. visit.file = active_file /\ visit.text = current_task
  OBVIOUS
<1>2. gate_log' = gate_log \cup {visit}
  BY DEF HumanGate
<1>3. /\ pc = "human_gate_node" /\ PopTask /\ sprint_escalated' = TRUE
      /\ UNCHANGED <<planned, retired, status>>
      /\ pc' \notin {"crashed", "recursion_error"}
  BY DEF HumanGate, Enter, LeaveTo, GateLogic, reports
<1> HIDE DEF visit
<1>4. Skipped' = IF current_task = "None" THEN Skipped
                 ELSE Skipped \cup {active_file}
  <2>1. Skipped' = {g.file : g \in {g \in gate_log \cup {visit} : g.text # "None"}}
    BY <1>2 DEF Skipped
  <2>2. {g \in gate_log \cup {visit} : g.text # "None"} =
          {g \in gate_log : g.text # "None"} \cup
            (IF current_task = "None" THEN {} ELSE {visit})
    BY <1>1
  <2> QED
    BY <1>1, <2>1, <2>2 DEF Skipped
<1>5. Report = "running" /\ Report' = "running"
  BY <1>3, StillRunning DEF SprintInv, Stopped
<1>6. CASE current_task = "None"
  <2>1. OpenTickets = <<>> /\ OpenTickets' = <<>>
    BY <1>3, <1>6, PopCloses DEF SprintInv
  <2>2. Ledger!Alarm
    BY <1>3, <1>4, <1>5, <1>6, <2>1 DEF Ledger!Alarm, Skipped
  <2> QED
    BY <2>2
<1>7. CASE current_task # "None"
  <2>1. /\ OpenTickets # <<>> /\ OpenTickets[1].file = active_file
        /\ OpenTickets' = Tail(OpenTickets)
    BY <1>3, <1>7, OpenShape, PopCloses DEF SprintInv
  <2>2. Ledger!Skip
    BY <1>3, <1>4, <1>5, <1>7, <2>1 DEF Ledger!Skip, Skipped
  <2> QED
    BY <2>2
<1> QED
  BY <1>6, <1>7

(***************************************************************************)
(* The sprint wraps up with a ticket in hand only if its text is blank.    *)
(***************************************************************************)
LEMMA LedgerAbandons ==
  ASSUME SprintInv, Retrospector
  PROVE  Ledger!Abandon \/ UNCHANGED Ledger!ledger
<1>1. /\ pc = "retrospector_node" /\ pc' = "END" /\ current_task' = "None"
      /\ UNCHANGED <<planned, retired, gate_log, sprint_escalated, status>>
  BY DEF Retrospector, Superstep, Enter, LeaveTo, history
<1>2. OpenTickets' = <<>>
  BY <1>1 DEF OpenTickets
<1>3. Report = "running" /\ Report' = "running"
  BY <1>1, StillRunning DEF SprintInv, Stopped
<1>4. CASE current_task = "None"
  <2>1. OpenTickets = <<>>
    BY <1>4 DEF OpenTickets
  <2> QED
    BY <1>1, <1>2, <1>3, <2>1 DEF Ledger!ledger
<1>5. CASE current_task # "None"
  <2>1. OpenTickets # <<>> /\ OpenTickets[1].text = current_task
    BY <1>5, OpenShape DEF SprintInv
  <2>2. current_task \in {"None"} \cup TaskTexts /\ current_task # "text"
    BY <1>1 DEF SprintInv, StateTypeOK, OutcomeInv, HasTask
  <2>3. current_task = ""
    BY Zenon, <1>5, <2>2, SprintAssumption DEF SprintAssumption
  <2>4. Ledger!Abandon
    BY Zenon, <1>1, <1>2, <1>3, <2>1, <2>3 DEF Ledger!Abandon
  <2> QED
    BY <2>4
<1> QED
  BY <1>4, <1>5

(***************************************************************************)
(* What run_sprint journals is what the ledger allows.                     *)
(***************************************************************************)
LEMMA LedgerReports ==
  ASSUME SprintInv, RunSprintReports
  PROVE  Ledger!Report
<1>1. /\ pc = "END" /\ pc' = "done" /\ status' = JournalStatus
      /\ UNCHANGED <<task, planned, retired, gate_log, sprint_escalated>>
  BY DEF RunSprintReports, history
<1>2. UNCHANGED OpenTickets
  BY <1>1 DEF OpenTickets, task
<1>3. Report = "running"
  BY <1>1, StillRunning DEF SprintInv, Stopped
<1>4. Escalated <=> sprint_escalated
  BY <1>1 DEF Escalated, SprintInv, OutcomeInv
<1>5. Report' = StateStatus
  BY <1>1, JournalIsState DEF SprintInv, ReportInv, Report, StateStatus, Heading
<1>6. \/ sprint_escalated /\ Report' = "ESCALATED"
      \/ ~sprint_escalated /\ Report' = "FAILED"
      \/ ~sprint_escalated /\ ~budget_exhausted /\ Report' = "CLEAN"
  BY <1>4, <1>5 DEF StateStatus, Heading
<1>7. ~sprint_escalated /\ ~budget_exhausted => planned # <<>> /\ OpenTickets = <<>>
  BY <1>1 DEF SprintInv, OutcomeInv, OpenTickets
<1> QED
  BY <1>1, <1>2, <1>3, <1>6, <1>7 DEF Ledger!Report

LEMMA LedgerDies ==
  ASSUME SprintInv, Crashes \/ RecursionError
  PROVE  Ledger!Lose
<1>1. /\ pc \in Nodes \cup {"END"} /\ pc' \in {"crashed", "recursion_error"}
      /\ UNCHANGED <<task, planned, retired, gate_log, sprint_escalated>>
  BY DEF Crashes, RecursionError, MayRaise, SemanticCallsModel, Nodes, history
<1>2. UNCHANGED OpenTickets
  BY <1>1 DEF OpenTickets, task
<1>3. Report = "running" /\ Report' = "lost"
  BY <1>1, StillRunning DEF SprintInv, Stopped, Nodes, Report
<1> QED
  BY <1>1, <1>2, <1>3 DEF Ledger!Lose

LEMMA LedgerFollows ==
  ASSUME SprintInv, [Next]_vars
  PROVE  [Ledger!Next]_(Ledger!ledger)
<1> USE DEF Ledger!Next
<1>1. CASE TicketWriterQueues
  BY <1>1, LedgerPlans
<1>2. CASE SemanticRetires
  BY <1>2, LedgerPasses
<1>3. CASE HumanGate
  BY <1>3, LedgerSkips
<1>4. CASE Retrospector
  BY <1>4, LedgerAbandons
<1>5. CASE RunSprintReports
  BY <1>5, LedgerReports
<1>6. CASE Crashes \/ RecursionError
  BY <1>6, LedgerDies
<1>7. CASE \/ SprintPlanner \/ TicketWriterFails \/ AgentRouter \/ Editor
           \/ Reviewer \/ SemanticSkips \/ SemanticRejects \/ BudgetStops
           \/ UNCHANGED vars
  BY <1>7, LedgerWaits
<1> QED
  BY <1>1, <1>2, <1>3, <1>4, <1>5, <1>6, <1>7 DEF Next, SemanticReviewer, Over

LEMMA SprintAlways == Spec => []SprintInv
<1>1. StateTypeOK /\ TicketInv /\ LadderInv /\ ReportInv /\ OutcomeInv => SprintInv
  BY DEF SprintInv
<1> QED
  BY <1>1, StateTypeCorrect, TicketAlways, LadderAlways, ReportAlways, OutcomeAlways, PTL

(***************************************************************************)
(* The sprint implements the ledger: tickets leave in order and once,      *)
(* passed or skipped with an alarm, and the report is one the ledger       *)
(* allows.                                                                 *)
(***************************************************************************)
THEOREM SprintKeepsTheLedger == Spec => LedgerSpec
<1>1. Init => Ledger!Init
  BY LedgerStarts
<1>2. SprintInv /\ [Next]_vars => [Ledger!Next]_(Ledger!ledger)
  BY LedgerFollows
<1> QED
  BY <1>1, <1>2, SprintAlways, PTL DEF Spec, LedgerSpec, Ledger!Spec

-----------------------------------------------------------------------------
(***************************************************************************)
(* What SprintLedgerProofs proves of the ledger holds of the sprint.       *)
(***************************************************************************)
LedgerFacts == INSTANCE SprintLedgerProofs WITH
  tickets <- planned,
  open <- OpenTickets,
  passed <- retired,
  skipped <- {g.file : g \in {g \in gate_log : g.text # "None"}},
  alarm <- sprint_escalated,
  report <- Report

LEMMA LedgerHolds == Spec => []LedgerFacts!LedgerInv
<1>1. Init => LedgerFacts!LedgerInv
  BY LedgerStarts, LedgerFacts!LedgerInit DEF Ledger!Init, LedgerFacts!Init
<1>2. [Ledger!Next]_(Ledger!ledger) => [LedgerFacts!Next]_(LedgerFacts!ledger)
  BY Zenon
     DEF Ledger!Next, Ledger!Plan, Ledger!Pass, Ledger!Skip, Ledger!Alarm,
         Ledger!Abandon, Ledger!Report, Ledger!Lose, Ledger!ledger,
         Ledger!Ticket, Ledger!OneTicketPerFile,
         LedgerFacts!Next, LedgerFacts!Plan, LedgerFacts!Pass, LedgerFacts!Skip,
         LedgerFacts!Alarm, LedgerFacts!Abandon, LedgerFacts!Report,
         LedgerFacts!Lose, LedgerFacts!ledger, LedgerFacts!Ticket,
         LedgerFacts!OneTicketPerFile
<1>3. LedgerFacts!LedgerInv /\ SprintInv /\ [Next]_vars => LedgerFacts!LedgerInv'
  BY <1>2, LedgerFollows, LedgerFacts!LedgerStep
<1> QED
  BY <1>1, <1>3, SprintAlways, PTL DEF Spec

(***************************************************************************)
(* No node loses a ticket: unless one was blank, every ticket the ticket   *)
(* writer returned is retired, was skipped at the gate, or is still to     *)
(* come, and only one of these.                                            *)
(***************************************************************************)
THEOREM SprintsAccountForTickets == Spec => []Ledger!Accounted
<1>1. LedgerFacts!LedgerInv => LedgerFacts!Accounted
  BY LedgerFacts!AccountsFromLedger
<1>2. LedgerFacts!LedgerInv => Ledger!Accounted
  BY Zenon, <1>1
     DEF Ledger!Accounted, Ledger!HasBlank, Ledger!FilesOf,
         LedgerFacts!Accounted, LedgerFacts!HasBlank, LedgerFacts!FilesOf
<1> QED
  BY <1>2, LedgerHolds, PTL

(***************************************************************************)
(* A CLEAN report of a plan without blank tickets means that there were    *)
(* tickets, that each was retired, and that each one's code passed.        *)
(***************************************************************************)
THEOREM CleanSprintsHavePassed == Spec => []CleanMeansPassed
<1>1. LedgerFacts!LedgerInv => Ledger!CleanMeansPassed
  <2>1. LedgerFacts!LedgerInv => LedgerFacts!CleanMeansPassed
    BY LedgerFacts!CleanFromLedger
  <2> QED
    BY Zenon, <2>1
       DEF Ledger!CleanMeansPassed, Ledger!HasBlank, Ledger!FilesOf,
           LedgerFacts!CleanMeansPassed, LedgerFacts!HasBlank,
           LedgerFacts!FilesOf
<1>2. Ledger!CleanMeansPassed /\ RetiredCodeRan => CleanMeansPassed
  BY DEF CleanMeansPassed, RetiredCodeRan
<1> QED
  BY <1>1, <1>2, LedgerHolds, RetiredCodeHasRun, PTL
=============================================================================

---------------------------- MODULE SprintLedger ----------------------------
(***************************************************************************)
(* What a sprint promises about the tickets it was given, whatever the     *)
(* nodes, retries and models behind it.  Tickets leave the queue in order, *)
(* one at a time, and each leaves it once: passed by both reviewers, or    *)
(* skipped with an alarm.  The report follows from that: CLEAN only if     *)
(* there were tickets and every one passed, ESCALATED exactly when an      *)
(* alarm was raised, FAILED when the sprint was stopped before either.     *)
(* A sprint may also die without a report.                                 *)
(*                                                                         *)
(* A blank ticket is the exception the code makes: the sprint reads its    *)
(* empty text as "no task left", and what is queued from there on is       *)
(* abandoned.                                                              *)
(***************************************************************************)
EXTENDS Naturals, Sequences

CONSTANTS Files, TaskTexts

VARIABLES
  tickets,  (* the queue as it was written, <<>> until then *)
  open,     (* what is left of it, the current ticket first *)
  passed,   (* files of the tickets that passed             *)
  skipped,  (* files of the tickets that were skipped       *)
  alarm,    (* a human was asked for                        *)
  report    (* "running", the status reported, or "lost"    *)

ledger == <<tickets, open, passed, skipped, alarm, report>>

Ticket == [file : Files, text : TaskTexts]
OneTicketPerFile(q) == \A i, j \in DOMAIN q : q[i].file = q[j].file => i = j

Init ==
  /\ tickets = <<>>
  /\ open = <<>>
  /\ passed = {}
  /\ skipped = {}
  /\ alarm = FALSE
  /\ report = "running"

Plan ==
  /\ report = "running"
  /\ tickets = <<>>
  /\ ~alarm
  /\ tickets' \in Seq(Ticket) \ {<<>>}
  /\ OneTicketPerFile(tickets')
  /\ open' = tickets'
  /\ UNCHANGED <<passed, skipped, alarm, report>>

Pass ==
  /\ report = "running"
  /\ open # <<>>
  /\ passed' = passed \cup {open[1].file}
  /\ open' = Tail(open)
  /\ UNCHANGED <<tickets, skipped, alarm, report>>

Skip ==
  /\ report = "running"
  /\ open # <<>>
  /\ skipped' = skipped \cup {open[1].file}
  /\ open' = Tail(open)
  /\ alarm' = TRUE
  /\ UNCHANGED <<tickets, passed, report>>

(***************************************************************************)
(* No ticket to skip: the plan gave none, or the last one has just passed. *)
(***************************************************************************)
Alarm ==
  /\ report = "running"
  /\ open = <<>>
  /\ alarm' = TRUE
  /\ UNCHANGED <<tickets, open, passed, skipped, report>>

Abandon ==
  /\ report = "running"
  /\ open # <<>>
  /\ open[1].text = ""
  /\ open' = <<>>
  /\ UNCHANGED <<tickets, passed, skipped, alarm, report>>

Report ==
  /\ report = "running"
  /\ \/ alarm /\ report' = "ESCALATED"
     \/ ~alarm /\ report' = "FAILED"
     \/ ~alarm /\ tickets # <<>> /\ open = <<>> /\ report' = "CLEAN"
  /\ UNCHANGED <<tickets, open, passed, skipped, alarm>>

Lose ==
  /\ report = "running"
  /\ report' = "lost"
  /\ UNCHANGED <<tickets, open, passed, skipped, alarm>>

Next == Plan \/ Pass \/ Skip \/ Alarm \/ Abandon \/ Report \/ Lose

Spec == Init /\ [][Next]_ledger

FilesOf(q) == {q[i].file : i \in DOMAIN q}
HasBlank == \E i \in DOMAIN tickets : tickets[i].text = ""

(***************************************************************************)
(* Every ticket of a plan without blank ones is accounted for once: it     *)
(* passed, it was skipped, or it still waits.                              *)
(***************************************************************************)
Accounted ==
  ~HasBlank =>
    /\ FilesOf(tickets) = passed \cup skipped \cup FilesOf(open)
    /\ passed \cap skipped = {}
    /\ FilesOf(open) \cap (passed \cup skipped) = {}

(***************************************************************************)
(* A CLEAN report says that every ticket passed.                           *)
(***************************************************************************)
CleanMeansPassed ==
  report = "CLEAN" /\ ~HasBlank => tickets # <<>> /\ passed = FilesOf(tickets)
=============================================================================

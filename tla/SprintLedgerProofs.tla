-------------------------- MODULE SprintLedgerProofs --------------------------
(***************************************************************************)
(* Theorems of SprintLedger, for every plan: what the abstract             *)
(* specification promises follows from its steps alone.                    *)
(***************************************************************************)
EXTENDS SprintLedger, SequenceTheorems, TLAPS

(***************************************************************************)
(* The ledger balances.  What is open is a plan of its own, and unless a   *)
(* blank ticket was written, no ticket is lost or counted twice; nothing   *)
(* was skipped without an alarm, and CLEAN is not said too early.          *)
(***************************************************************************)
Blank(ticket) == ticket.text = ""

Plans ==
  /\ tickets \in Seq(Ticket)
  /\ open \in Seq(Ticket) /\ OneTicketPerFile(open)
  /\ tickets = <<>> => open = <<>> /\ passed = {} /\ skipped = {}

Balanced ==
  ~HasBlank =>
    /\ FilesOf(tickets) = passed \cup skipped \cup FilesOf(open)
    /\ passed \cap skipped = {}
    /\ FilesOf(open) \cap (passed \cup skipped) = {}
    /\ \A i \in DOMAIN open : ~Blank(open[i])

Reported ==
  /\ ~alarm => skipped = {}
  /\ report = "CLEAN" => ~alarm /\ tickets # <<>> /\ open = <<>>

LedgerInv == Plans /\ Balanced /\ Reported

LEMMA BlankPlans ==
  /\ HasBlank <=> \E i \in DOMAIN tickets : Blank(tickets[i])
  /\ HasBlank' <=> \E i \in DOMAIN tickets' : Blank(tickets'[i])
  BY Zenon DEF HasBlank, Blank

LEMMA LedgerInit == Init => LedgerInv
  BY DEF Init, LedgerInv, Plans, Balanced, Reported, OneTicketPerFile, FilesOf

(***************************************************************************)
(* The first ticket's file leaves a plan with it, and no other file does.  *)
(***************************************************************************)
LEMMA PopPlan ==
  ASSUME NEW q \in Seq(Ticket), q # <<>>, OneTicketPerFile(q)
  PROVE  /\ Tail(q) \in Seq(Ticket) /\ OneTicketPerFile(Tail(q))
         /\ FilesOf(q) = {q[1].file} \cup FilesOf(Tail(q))
         /\ q[1].file \notin FilesOf(Tail(q))
         /\ \A i \in DOMAIN Tail(q) : \E j \in DOMAIN q : Tail(q)[i] = q[j]
<1>1. \A i \in DOMAIN Tail(q) : /\ i + 1 \in DOMAIN q /\ Tail(q)[i] = q[i + 1]
                                /\ i \in Nat /\ i + 1 # 1
  OBVIOUS
<1>2. 1 \in DOMAIN q /\ DOMAIN q \subseteq Nat /\ Tail(q) \in Seq(Ticket)
  OBVIOUS
<1>3. \A j \in DOMAIN q : j # 1 =>
        \E i \in DOMAIN Tail(q) : Tail(q)[i] = q[j]
  <2> SUFFICES ASSUME NEW j \in DOMAIN q, j # 1
               PROVE  \E i \in DOMAIN Tail(q) : Tail(q)[i] = q[j]
    OBVIOUS
  <2>1. j - 1 \in DOMAIN Tail(q) /\ Tail(q)[j - 1] = q[j]
    OBVIOUS
  <2> QED
    BY <2>1
<1>4. OneTicketPerFile(Tail(q))
  <2> SUFFICES ASSUME NEW i \in DOMAIN Tail(q), NEW j \in DOMAIN Tail(q),
                      Tail(q)[i].file = Tail(q)[j].file
               PROVE  i = j
    BY DEF OneTicketPerFile
  <2>1. i + 1 = j + 1
    BY <1>1 DEF OneTicketPerFile
  <2> QED
    BY <1>1, <2>1
<1>5. FilesOf(q) = {q[1].file} \cup FilesOf(Tail(q))
  <2>1. ASSUME NEW j \in DOMAIN q
        PROVE  q[j].file \in {q[1].file} \cup FilesOf(Tail(q))
    BY <1>3 DEF FilesOf
  <2>2. ASSUME NEW i \in DOMAIN Tail(q) PROVE Tail(q)[i].file \in FilesOf(q)
    BY <1>1 DEF FilesOf
  <2>3. q[1].file \in FilesOf(q)
    BY <1>2 DEF FilesOf
  <2>4. FilesOf(q) \subseteq {q[1].file} \cup FilesOf(Tail(q))
    BY <2>1 DEF FilesOf
  <2>5. FilesOf(Tail(q)) \subseteq FilesOf(q)
    <3>1. \A file \in FilesOf(Tail(q)) :
            \E i \in DOMAIN Tail(q) : file = Tail(q)[i].file
      BY DEF FilesOf
    <3> QED
      BY <2>2, <3>1
  <2> QED
    BY <2>3, <2>4, <2>5
<1>6. q[1].file \notin FilesOf(Tail(q))
  BY <1>1, <1>2 DEF FilesOf, OneTicketPerFile
<1> QED
  BY <1>1, <1>2, <1>4, <1>5, <1>6

LEMMA LedgerStep ==
  ASSUME LedgerInv, [Next]_ledger
  PROVE  LedgerInv'
<1>1. CASE Plan
  <2>1. /\ tickets = <<>> /\ tickets' \in Seq(Ticket) /\ tickets' # <<>>
        /\ OneTicketPerFile(tickets') /\ open' = tickets'
        /\ UNCHANGED <<passed, skipped, alarm, report>>
        /\ report = "running" /\ passed = {} /\ skipped = {}
    BY <1>1 DEF Plan, LedgerInv, Plans
  <2>2. Plans'
    BY <2>1 DEF Plans, OneTicketPerFile
  <2>3. Balanced'
    BY <2>1, BlankPlans DEF Balanced, FilesOf
  <2>4. Reported'
    BY <2>1 DEF Reported
  <2> QED
    BY <2>2, <2>3, <2>4 DEF LedgerInv
<1>2. CASE Pass \/ Skip
  <2>1. /\ open # <<>> /\ open \in Seq(Ticket) /\ OneTicketPerFile(open)
        /\ tickets # <<>> /\ tickets \in Seq(Ticket)
        /\ open' = Tail(open) /\ UNCHANGED <<tickets, report>> /\ report = "running"
        /\ \/ passed' = passed \cup {open[1].file} /\ skipped' = skipped
           \/ skipped' = skipped \cup {open[1].file} /\ passed' = passed
        /\ alarm' \/ (~alarm /\ skipped' = skipped)
    BY <1>2 DEF Pass, Skip, LedgerInv, Plans
  <2>2. /\ Tail(open) \in Seq(Ticket) /\ OneTicketPerFile(Tail(open))
        /\ FilesOf(open) = {open[1].file} \cup FilesOf(Tail(open))
        /\ open[1].file \notin FilesOf(Tail(open))
        /\ \A i \in DOMAIN Tail(open) : \E j \in DOMAIN open : Tail(open)[i] = open[j]
    BY <2>1, PopPlan
  <2>3. Plans'
    BY <2>1, <2>2 DEF Plans, OneTicketPerFile
  <2>4. Balanced'
    <3>1. FilesOf(tickets)' = FilesOf(tickets) /\ FilesOf(open)' = FilesOf(Tail(open))
      BY <2>1 DEF FilesOf
    <3>2. HasBlank' <=> HasBlank
      BY <2>1, BlankPlans
    <3> SUFFICES ASSUME ~HasBlank
                 PROVE  /\ FilesOf(tickets) =
                             passed' \cup skipped' \cup FilesOf(Tail(open))
                        /\ passed' \cap skipped' = {}
                        /\ FilesOf(Tail(open)) \cap (passed' \cup skipped') = {}
                        /\ \A i \in DOMAIN Tail(open) : ~Blank(Tail(open)[i])
      BY <2>1, <3>1, <3>2 DEF Balanced
    <3>3. /\ FilesOf(tickets) = passed \cup skipped \cup FilesOf(open)
          /\ passed \cap skipped = {}
          /\ FilesOf(open) \cap (passed \cup skipped) = {}
          /\ \A i \in DOMAIN open : ~Blank(open[i])
      BY DEF LedgerInv, Balanced
    <3> QED
      BY <2>1, <2>2, <3>3
  <2>5. Reported'
    BY <2>1 DEF LedgerInv, Reported
  <2> QED
    BY <2>3, <2>4, <2>5 DEF LedgerInv
<1>3. CASE Abandon
  <2>1. /\ open' = <<>> /\ report = "running"
        /\ UNCHANGED <<tickets, passed, skipped, alarm, report>>
        /\ tickets \in Seq(Ticket) /\ open # <<>> /\ Blank(open[1])
        /\ open \in Seq(Ticket)
    BY Zenon, <1>3 DEF Abandon, LedgerInv, Plans, Blank
  <2>2. Plans'
    BY <2>1 DEF LedgerInv, Plans, OneTicketPerFile
  <2>3. HasBlank
    <3>1. 1 \in DOMAIN open
      BY <2>1
    <3> QED
      BY <2>1, <3>1 DEF LedgerInv, Balanced
  <2>4. Balanced'
    BY <2>1, <2>3, BlankPlans DEF Balanced
  <2>5. Reported'
    BY <2>1 DEF LedgerInv, Reported
  <2> QED
    BY <2>2, <2>4, <2>5 DEF LedgerInv
<1>4. CASE Alarm \/ Report \/ Lose \/ UNCHANGED ledger
  <2>1. /\ UNCHANGED <<tickets, open, passed, skipped>>
        /\ alarm => alarm'
        /\ report' = "CLEAN" =>
             ~alarm' /\ ((tickets # <<>> /\ open = <<>>) \/ report = "CLEAN")
    BY <1>4 DEF Alarm, Report, Lose, ledger, LedgerInv, Reported
  <2>2. Plans'
    BY <2>1 DEF LedgerInv, Plans, OneTicketPerFile
  <2>3. Balanced'
    BY <2>1, BlankPlans DEF LedgerInv, Balanced, FilesOf
  <2>4. Reported'
    BY <2>1 DEF LedgerInv, Reported
  <2> QED
    BY <2>2, <2>3, <2>4 DEF LedgerInv
<1> QED
  BY <1>1, <1>2, <1>3, <1>4 DEF Next

LEMMA LedgerAlways == Spec => []LedgerInv
<1>1. LedgerInv /\ [Next]_ledger => LedgerInv'
  BY LedgerStep
<1> QED
  BY LedgerInit, <1>1, PTL DEF Spec

LEMMA AccountsFromLedger == LedgerInv => Accounted
  BY DEF LedgerInv, Balanced, Accounted

(***************************************************************************)
(* Every ticket of a plan without blank ones passed, was skipped or waits, *)
(* and only one of these: whatever the sprint did so far, no ticket is     *)
(* lost.                                                                   *)
(***************************************************************************)
THEOREM TicketsAreAccounted == Spec => []Accounted
  BY AccountsFromLedger, LedgerAlways, PTL

LEMMA CleanFromLedger == LedgerInv => CleanMeansPassed
<1> SUFFICES ASSUME LedgerInv, report = "CLEAN", ~HasBlank
             PROVE  tickets # <<>> /\ passed = FilesOf(tickets)
  BY DEF CleanMeansPassed
<1>1. tickets # <<>> /\ open = <<>> /\ skipped = {}
  BY DEF LedgerInv, Reported
<1>2. FilesOf(open) = {}
  BY <1>1 DEF FilesOf
<1> QED
  BY <1>1, <1>2 DEF LedgerInv, Balanced

(***************************************************************************)
(* A sprint that reports CLEAN on a plan without blank tickets had tickets *)
(* and passed them all.                                                    *)
(***************************************************************************)
THEOREM CleanSprintsPassed == Spec => []CleanMeansPassed
  BY CleanFromLedger, LedgerAlways, PTL
===============================================================================

-------------------------------- MODULE Backlog --------------------------------
(***************************************************************************)
(* The loop that finds its own work: the journal of sprints (journal.py),  *)
(* what discovery reads out of it (discovery.py), and the supervisor that  *)
(* works what discovery finds (supervisor.py).                             *)
(*                                                                         *)
(* The journal is a file.  Supervisors (nothing keeps a second from being  *)
(* started beside the first) and a human's REPL, each a process, append to *)
(* it; each can be killed, and a write can fail or stop half way.  A       *)
(* sprint is what it reports (module HiveSprint has the rest): a status,   *)
(* whether the budget stopped it, or a crash.  A work item is its key,     *)
(* keys are ordered as their hashes are, and the budget is whether a       *)
(* ceiling has been reached (module Governor has the rest).                *)
(*                                                                         *)
(* The rejection ledger (memory.py) is a file the processes share: a       *)
(* sprint clears it when it starts, its gates write the escalations to     *)
(* it, and its record in the journal carries what the ledger holds at the  *)
(* end.                                                                    *)
(***************************************************************************)
EXTENDS Naturals, Sequences, FiniteSets

CONSTANTS
  Sups,         (* supervisor processes that may run at a time       *)
  Keys,         (* work items                                        *)
  MaxAttempts,  (* config.MAX_DISCOVERY_ATTEMPTS                     *)
  MaxSprints,   (* config.MAX_SPRINTS, 0 for none                    *)
  MaxHuman,     (* bound: sprints a human runs                       *)
  MaxRuns,      (* bound: supervisor processes started               *)
  MaxJournal    (* bound: records the disk has room for              *)

ASSUME BacklogAssumption ==
  /\ IsFiniteSet(Sups) /\ Sups # {} /\ "human" \notin Sups
  /\ Keys \subseteq Nat
  /\ IsFiniteSet(Keys)
  /\ MaxAttempts \in Nat \ {0}
  /\ MaxSprints \in Nat /\ MaxHuman \in Nat /\ MaxRuns \in Nat
  /\ MaxJournal \in Nat

Statuses == {"CLEAN", "ESCALATED", "FAILED"}
Sources == {"human", "escalation"}
Record == [key : Keys, status : Statuses, source : Sources,
           escalations : SUBSET {"own", "foreign"}]
Procs == Sups \cup {"human"}
Item == [key : Keys, attempt : Nat]

(* Bound: a count no supervisor reaches; see WorkedOnce. *)
MaxWork == Cardinality(Keys) * MaxAttempts + 1
Counted(n) == IF n < MaxWork THEN n + 1 ELSE n

VARIABLES
  journal,     (* the records a reader of the file finds                *)
  torn,        (* the last line of the file stops short of its newline  *)
  (* of each supervisor process *)
  sup,         (* where supervisor.run is                               *)
  watch,       (* it waits for work instead of exiting                  *)
  todo,        (* the items of this round it has yet to work            *)
  item,        (* the items it is working: one or none                  *)
  attempted,
  progressed,  (* an item of this round was worked to the end           *)
  sprints,     (* governor: sprints recorded                            *)
  spent,       (* governor: another ceiling has been reached            *)
  (* of all *)
  runs,        (* supervisors started                                   *)
  humans,      (* sprints a human has started                           *)
  human,       (* the item the human's sprint is at: one or none        *)
  ledger,      (* whose sprints the escalations in the ledger are of    *)
  gated,       (* the processes whose sprint has been to a gate         *)
  crossed      (* history: whose sprint ran beside another's            *)

file == <<journal, torn>>
loop == <<watch, todo, item, attempted, progressed>>
notes == <<ledger, gated, crossed>>
vars == <<file, sup, loop, sprints, spent, runs, humans, human, notes>>

Init ==
  /\ journal = <<>> /\ torn = FALSE
  /\ sup = [p \in Sups |-> "off"] /\ watch = [p \in Sups |-> FALSE]
  /\ todo = [p \in Sups |-> {}] /\ item = [p \in Sups |-> {}]
  /\ attempted = [p \in Sups |-> {}] /\ progressed = [p \in Sups |-> FALSE]
  /\ sprints = [p \in Sups |-> 0] /\ spent = [p \in Sups |-> FALSE]
  /\ runs = 0 /\ humans = 0 /\ human = {}
  /\ ledger = {} /\ gated = {} /\ crossed = {}

-----------------------------------------------------------------------------
(***************************************************************************)
(* record_sprint opens the file, appends a line and swallows an OSError.   *)
(* A write that stops half way leaves a line without its newline, and the  *)
(* next record is appended to that same line: neither is read again.  Two  *)
(* long records written at once spoil each other the same way.             *)
(***************************************************************************)
WriteFails == UNCHANGED journal /\ torn' \in {torn, TRUE}

RecordSprint(key, status, source, escalations) ==
  \/ /\ Len(journal) < MaxJournal
     /\ journal' = IF torn THEN journal
                   ELSE Append(journal, [key |-> key, status |-> status,
                                         source |-> source,
                                         escalations |-> escalations])
     /\ torn' = FALSE
  \/ WriteFails

(* The records of an item with one of these statuses, by their place. *)
RecordsOf(key, statuses) ==
  {n \in DOMAIN journal : journal[n].key = key /\ journal[n].status \in statuses}

(* Mutant: a sprint that never got a fair attempt counts as one. *)
AttemptsForAll(key) == Cardinality(RecordsOf(key, Statuses))

AttemptsFor(key) == Cardinality(RecordsOf(key, {"CLEAN", "ESCALATED"}))

IsResolved(key) == RecordsOf(key, {"CLEAN"}) # {}

-----------------------------------------------------------------------------
(* discovery.py *)

Unfinished ==
  {key \in Keys : RecordsOf(key, {"ESCALATED"}) # {} /\ ~IsResolved(key)}

(* Mutant: one attempt more. *)
DiscoverOneMore ==
  {[key |-> key, attempt |-> AttemptsFor(key) + 1] :
     key \in {k \in Unfinished : AttemptsFor(k) <= MaxAttempts}}

Discover ==
  {[key |-> key, attempt |-> AttemptsFor(key) + 1] :
     key \in {k \in Unfinished : AttemptsFor(k) < MaxAttempts}}

(* Mutant: only what has escalated is handed back. *)
NothingIsBroken == {}

Broken ==
  {key \in Keys : /\ RecordsOf(key, {"FAILED"}) # {}
                  /\ RecordsOf(key, {"ESCALATED"}) = {}
                  /\ ~IsResolved(key)}

OutOfRungs == {key \in Unfinished : AttemptsFor(key) >= MaxAttempts}

Parked == OutOfRungs \cup Broken

-----------------------------------------------------------------------------
(* memory.py *)

(* Mutant: a sprint finds what an earlier one left. *)
KeepLedger == IF ledger = {} THEN {} ELSE {"old"}

ClearLedger == {}

InSprint ==
  {p \in Sups : sup[p] = "working"} \cup (IF human # {} THEN {"human"} ELSE {})

(* The first statement of run_sprint, by process p. *)
SprintStarts(p) ==
  /\ ledger' = ClearLedger
  /\ gated' = gated \ {p}
  /\ crossed' = IF InSprint = {} THEN crossed \ {p}
                ELSE crossed \cup InSprint \cup {p}

(* The human gate logs the ticket it is about to skip. *)
GateLogs(p) ==
  /\ p \in InSprint /\ p \notin gated
  /\ ledger' = ledger \cup {p}
  /\ gated' = gated \cup {p}
  /\ UNCHANGED <<file, sup, loop, sprints, spent, runs, humans, human, crossed>>

(* What get_escalations reads, at the end of the sprint of p. *)
Escalations(p) == {IF e = p THEN "own" ELSE "foreign" : e \in ledger}

-----------------------------------------------------------------------------
(* supervisor.py *)

Breach(p) == spent[p] \/ (MaxSprints # 0 /\ sprints[p] >= MaxSprints)

Start(p) ==
  /\ sup[p] \in {"off", "stopped"}
  /\ runs < MaxRuns
  /\ runs' = runs + 1
  /\ sup' = [sup EXCEPT ![p] = "top"]
  /\ \E w \in BOOLEAN : watch' = [watch EXCEPT ![p] = w]
  /\ attempted' = [attempted EXCEPT ![p] = {}]
  /\ todo' = [todo EXCEPT ![p] = {}]
  /\ item' = [item EXCEPT ![p] = {}]
  /\ progressed' = [progressed EXCEPT ![p] = FALSE]
  /\ sprints' = [sprints EXCEPT ![p] = 0]
  /\ spent' = [spent EXCEPT ![p] = FALSE]
  /\ UNCHANGED <<file, humans, human, notes>>

Id(i) == <<i.key, i.attempt>>

(* Mutant: an item that does not advance stops the loop. *)
FreshOrNothing(p) ==
  IF \E i \in Discover : Id(i) \in attempted[p] THEN {} ELSE Discover

Fresh(p) == {i \in Discover : Id(i) \notin attempted[p]}

(***************************************************************************)
(* The top of a round.  An empty backlog ends the loop, or, watching, has  *)
(* it sleep and look again; a backlog of items this process has already    *)
(* worked ends it in both cases.                                           *)
(***************************************************************************)
Round(p) ==
  /\ sup[p] = "top"
  /\ \/ /\ \/ Breach(p)
           \/ Discover = {} /\ ~watch[p]
           \/ Discover # {} /\ Fresh(p) = {}
        /\ sup' = [sup EXCEPT ![p] = "stopped"]
        /\ UNCHANGED <<todo, progressed>>
     \/ /\ ~Breach(p) /\ Discover = {} /\ watch[p]
        /\ UNCHANGED <<sup, todo, progressed>>
     \/ /\ ~Breach(p) /\ Fresh(p) # {}
        /\ sup' = [sup EXCEPT ![p] = "round"]
        /\ todo' = [todo EXCEPT ![p] = Fresh(p)]
        /\ progressed' = [progressed EXCEPT ![p] = FALSE]
  /\ UNCHANGED <<file, watch, item, attempted, sprints, spent, runs, humans,
                 human, notes>>

(* Mutant: the process does not remember what it has worked. *)
TakeItemForgets(p) ==
  /\ sup[p] = "round" /\ ~Breach(p)
  /\ \E i \in todo[p] :
       /\ \A j \in todo[p] : i.key <= j.key
       /\ item' = [item EXCEPT ![p] = {i}]
       /\ todo' = [todo EXCEPT ![p] = @ \ {i}]
  /\ sup' = [sup EXCEPT ![p] = "working"]
  /\ SprintStarts(p)
  /\ UNCHANGED <<file, watch, attempted, progressed, sprints, spent, runs, humans,
                 human>>

TakeItem(p) ==
  /\ sup[p] = "round" /\ ~Breach(p)
  /\ \E i \in todo[p] :
       /\ \A j \in todo[p] : i.key <= j.key
       /\ item' = [item EXCEPT ![p] = {i}]
       /\ todo' = [todo EXCEPT ![p] = @ \ {i}]
       /\ attempted' = [attempted EXCEPT ![p] = @ \cup {Id(i)}]
  /\ sup' = [sup EXCEPT ![p] = "working"]
  /\ SprintStarts(p)
  /\ UNCHANGED <<file, watch, progressed, sprints, spent, runs, humans, human>>

(* Mutant: a crash has a status that no reader of the journal knows. *)
OutcomesCrashed ==
  [status : {"CLEAN", "ESCALATED", "CRASHED"}, budget : {FALSE}]

(***************************************************************************)
(* What _work makes of a sprint: its status, and whether the round got     *)
(* anywhere.  A sprint that has been to a gate reports ESCALATED, the      *)
(* budget stops one as ESCALATED or FAILED, and one that crashes is        *)
(* journalled FAILED by _work itself, without its escalations.             *)
(***************************************************************************)
Outcomes ==
  [status : Statuses, budget : BOOLEAN] \ {[status |-> "CLEAN", budget |-> TRUE]}

Crash(o) == o.status = "FAILED" /\ ~o.budget

SprintEnds(p) ==
  /\ sup[p] = "working"
  /\ \E i \in item[p], o \in Outcomes :
       /\ Crash(o) \/ (p \in gated <=> o.status = "ESCALATED")
       /\ RecordSprint(i.key, o.status, "escalation",
                       IF Crash(o) THEN {} ELSE Escalations(p))
       /\ \E b \in {spent[p] \/ o.budget, TRUE} :
            spent' = [spent EXCEPT ![p] = b]
       /\ progressed' = [progressed EXCEPT ![p] = @ \/ ~o.budget]
  /\ item' = [item EXCEPT ![p] = {}]
  /\ sprints' = [sprints EXCEPT ![p] = Counted(@)]
  /\ sup' = [sup EXCEPT ![p] = "round"]
  /\ UNCHANGED <<watch, todo, attempted, runs, humans, human, notes>>

RoundEnds(p) ==
  /\ sup[p] = "round"
  /\ todo[p] = {} \/ Breach(p)
  /\ todo' = [todo EXCEPT ![p] = {}]
  /\ sup' = [sup EXCEPT ![p] = IF progressed[p] THEN "top" ELSE "stopped"]
  /\ UNCHANGED <<file, watch, item, attempted, progressed, sprints, spent, runs,
                 humans, human, notes>>

(***************************************************************************)
(* The process dies, in a write if it was in one.                          *)
(***************************************************************************)
Killed(p) ==
  /\ sup[p] \in {"top", "round", "working"}
  /\ sup' = [sup EXCEPT ![p] = "off"]
  /\ IF sup[p] = "working" THEN WriteFails ELSE UNCHANGED file
  /\ UNCHANGED <<loop, sprints, spent, runs, humans, human, notes>>

(***************************************************************************)
(* A human runs an objective in a process of their own.  A sprint that     *)
(* crashes there leaves no record.                                         *)
(***************************************************************************)
HumanStarts ==
  /\ human = {} /\ humans < MaxHuman
  /\ humans' = humans + 1
  /\ \E key \in Keys : human' = {key}
  /\ SprintStarts("human")
  /\ UNCHANGED <<file, sup, loop, sprints, spent, runs>>

HumanEnds ==
  /\ \E key \in human, status \in Statuses :
       /\ "human" \in gated <=> status = "ESCALATED"
       /\ RecordSprint(key, status, "human", Escalations("human"))
  /\ human' = {}
  /\ UNCHANGED <<sup, loop, sprints, spent, runs, humans, notes>>

HumanCrashes ==
  /\ human # {}
  /\ WriteFails
  /\ human' = {}
  /\ UNCHANGED <<sup, loop, sprints, spent, runs, humans, notes>>

Loop(p) == Round(p) \/ TakeItem(p) \/ GateLogs(p) \/ SprintEnds(p) \/ RoundEnds(p)

Human == HumanStarts \/ GateLogs("human") \/ HumanEnds \/ HumanCrashes

Idle ==
  /\ \A p \in Sups : sup[p] \in {"off", "stopped"}
  /\ runs = MaxRuns
  /\ human = {} /\ humans = MaxHuman
  /\ UNCHANGED vars

Next ==
  \/ \E p \in Sups : Start(p) \/ Loop(p) \/ Killed(p)
  \/ Human
  \/ Idle

Spec == Init /\ [][Next]_vars

(***************************************************************************)
(* A supervisor that runs takes its next step.                             *)
(***************************************************************************)
FairSpec == Spec /\ \A p \in Sups : WF_vars(Loop(p))

-----------------------------------------------------------------------------
(* Every variable keeps its type; the journal holds records that its
   readers can classify. *)
TypeOK ==
  /\ journal \in Seq(Record) /\ torn \in BOOLEAN
  /\ sup \in [Sups -> {"off", "top", "round", "working", "stopped"}]
  /\ watch \in [Sups -> BOOLEAN] /\ progressed \in [Sups -> BOOLEAN]
  /\ spent \in [Sups -> BOOLEAN]
  /\ todo \in [Sups -> SUBSET Item] /\ item \in [Sups -> SUBSET Item]
  /\ attempted \in [Sups -> SUBSET (Keys \X Nat)]
  /\ sprints \in [Sups -> 0..MaxWork]
  /\ runs \in Nat /\ humans \in Nat /\ human \subseteq Keys
  /\ ledger \subseteq Procs \cup {"old"}
  /\ gated \subseteq Procs /\ crossed \subseteq Procs

(***************************************************************************)
(* "It simply stopped existing, which is the one outcome an autonomous     *)
(* loop is never allowed to produce": whatever the journal holds, an item  *)
(* in it has passed, waits for the loop, or is handed back to a human for  *)
(* one of two reasons, and for one of them only.                           *)
(***************************************************************************)
NothingVanishes ==
  \A key \in Keys : RecordsOf(key, Statuses) # {} =>
    Cardinality({s \in {"passed", "waits", "out of rungs", "broken"} :
      \/ s = "passed" /\ IsResolved(key)
      \/ s = "waits" /\ \E i \in Discover : i.key = key
      \/ s = "out of rungs" /\ key \in OutOfRungs
      \/ s = "broken" /\ key \in Broken}) = 1

(***************************************************************************)
(* An item the digest calls out of rungs was escalated MaxAttempts times:  *)
(* no crash, and no budget that ran out, has parked it.                    *)
(***************************************************************************)
OutOfRungsWasEscalated ==
  \A key \in OutOfRungs :
    Cardinality(RecordsOf(key, {"ESCALATED"})) >= MaxAttempts

(***************************************************************************)
(* MAX_DISCOVERY_ATTEMPTS, as far as it holds: of the records of an item   *)
(* that have reached the file, the loop's own are one less than it, the    *)
(* first attempt being the human's, and one more for every supervisor that *)
(* may run beside another, which works from what it discovered before the  *)
(* other's record was written; whatever a human does to the item and       *)
(* however often supervisors are killed and started.  Attempts that leave  *)
(* no record, or FAILED, are not counted by the code and not here: over    *)
(* restarts nothing bounds them, within one process WorkedOnce does.       *)
(***************************************************************************)
Replays(key) ==
  {n \in RecordsOf(key, {"CLEAN", "ESCALATED"}) : journal[n].source = "escalation"}

ReplaysBounded ==
  \A key \in Keys :
    Cardinality(Replays(key)) + 2 <= MaxAttempts + Cardinality(Sups)

(***************************************************************************)
(* One process works an attempt at an item once, and an item a bounded     *)
(* number of times, though the journal may be written by no one, and       *)
(* whatever other processes work meanwhile.                                *)
(***************************************************************************)
WorkedOnce ==
  \A p \in Sups : sup[p] # "off" =>
    /\ sprints[p] + Cardinality(item[p]) = Cardinality(attempted[p])
    /\ sprints[p] <= Cardinality(Keys) * MaxAttempts

(***************************************************************************)
(* A supervisor that stops with budget left has worked everything there    *)
(* was: an item that crashes, or whose record is lost, keeps no other from *)
(* its turn.                                                               *)
(***************************************************************************)
NoItemStarved ==
  [][\A p \in Sups :
       sup[p] # "stopped" /\ sup'[p] = "stopped" /\ ~Breach(p) =>
         \A i \in Discover : Id(i) \in attempted[p]]_vars

(***************************************************************************)
(* A supervisor that does not watch comes to an end, whatever becomes of   *)
(* its sprints and their records, without a ceiling of the governor.       *)
(***************************************************************************)
LoopEnds ==
  \A p \in Sups : sup[p] = "top" /\ ~watch[p] ~> sup[p] \in {"stopped", "off"}

(***************************************************************************)
(* The journal says of a sprint that escalated what it escalated on, and   *)
(* of no sprint what another escalated on, however many sprints have       *)
(* crashed before it with their entries in the ledger; unless another      *)
(* process had a sprint beside it.  A record is of the process whose       *)
(* sprint ends in the step that writes it.                                 *)
(***************************************************************************)
OwnEscalations ==
  [][\A p \in InSprint \ InSprint', n \in DOMAIN journal' \ DOMAIN journal :
       p \notin crossed =>
         journal'[n].escalations =
           IF journal'[n].status = "ESCALATED" THEN {"own"} ELSE {}]_vars
=============================================================================

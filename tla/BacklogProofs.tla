----------------------------- MODULE BacklogProofs -----------------------------
(***************************************************************************)
(* Theorems of Backlog, for any finite set of work items, any limits, any  *)
(* finite set of supervisors at a time, and any sprints of a human.        *)
(***************************************************************************)
EXTENDS Backlog, FiniteSetTheorems, TLAPS

(***************************************************************************)
(* What a step does to the journal: nothing, or one record more.           *)
(***************************************************************************)
JournalGrows(r) == r \in Record /\ journal' = Append(journal, r)

LEMMA RecordIsRecord ==
  ASSUME NEW key \in Keys, NEW status \in Statuses, NEW source \in Sources,
         NEW escalations \in SUBSET {"own", "foreign"}
  PROVE  [key |-> key, status |-> status, source |-> source,
          escalations |-> escalations] \in Record
  BY DEF Record

LEMMA RecordSprintGrows ==
  ASSUME NEW key \in Keys, NEW status \in Statuses, NEW source \in Sources,
         NEW escalations \in SUBSET {"own", "foreign"}, torn \in BOOLEAN,
         RecordSprint(key, status, source, escalations)
  PROVE  /\ \/ journal' = journal
            \/ JournalGrows([key |-> key, status |-> status, source |-> source,
                             escalations |-> escalations])
         /\ torn' \in BOOLEAN
  BY RecordIsRecord DEF RecordSprint, WriteFails, JournalGrows

LEMMA EscalationsTyped == \A p : Escalations(p) \in SUBSET {"own", "foreign"}
  BY DEF Escalations

(***************************************************************************)
(* What the loop's sprint leaves in the journal, and what a human's does.  *)
(***************************************************************************)
LEMMA SprintEndsJournals ==
  ASSUME TypeOK, NEW p \in Sups, SprintEnds(p)
  PROVE  /\ torn' \in BOOLEAN
         /\ \/ journal' = journal
            \/ \E i \in item[p], r \in Record :
                 /\ JournalGrows(r)
                 /\ r.key = i.key /\ r.source = "escalation"
                 /\ \/ r.status = "FAILED" /\ r.escalations = {}
                    \/ /\ r.escalations = Escalations(p)
                       /\ p \in gated <=> r.status = "ESCALATED"
<1>1. PICK i \in item[p], o \in Outcomes :
        /\ Crash(o) \/ (p \in gated <=> o.status = "ESCALATED")
        /\ RecordSprint(i.key, o.status, "escalation",
                        IF Crash(o) THEN {} ELSE Escalations(p))
  BY DEF SprintEnds
<1> DEFINE esc == IF Crash(o) THEN {} ELSE Escalations(p)
           r == [key |-> i.key, status |-> o.status, source |-> "escalation",
                 escalations |-> esc]
<1>2. /\ i.key \in Keys /\ o.status \in Statuses /\ "escalation" \in Sources
      /\ torn \in BOOLEAN
  <2>1. item[p] \subseteq Item
    BY DEF TypeOK
  <2> QED
    BY <2>1 DEF TypeOK, Item, Outcomes, Sources
<1>3. esc \in SUBSET {"own", "foreign"}
  BY EscalationsTyped
<1>4. r \in Record
  BY <1>2, <1>3, RecordIsRecord
<1>5. (journal' = journal \/ JournalGrows(r)) /\ torn' \in BOOLEAN
  BY <1>1, <1>2, <1>3, RecordSprintGrows
<1>6. \/ r.status = "FAILED" /\ r.escalations = {}
      \/ /\ r.escalations = Escalations(p)
         /\ p \in gated <=> r.status = "ESCALATED"
  BY <1>1 DEF Crash
<1> QED
  BY <1>4, <1>5, <1>6

LEMMA HumanEndsJournals ==
  ASSUME TypeOK, HumanEnds
  PROVE  /\ torn' \in BOOLEAN
         /\ \/ journal' = journal
            \/ \E r \in Record :
                 /\ JournalGrows(r)
                 /\ r.source = "human" /\ r.escalations = Escalations("human")
                 /\ "human" \in gated <=> r.status = "ESCALATED"
<1>1. PICK key \in human, status \in Statuses :
        /\ "human" \in gated <=> status = "ESCALATED"
        /\ RecordSprint(key, status, "human", Escalations("human"))
  BY DEF HumanEnds
<1> DEFINE r == [key |-> key, status |-> status, source |-> "human",
                 escalations |-> Escalations("human")]
<1>2. key \in Keys /\ "human" \in Sources /\ torn \in BOOLEAN
  BY DEF TypeOK, Sources
<1>3. r \in Record
  BY <1>2, EscalationsTyped, RecordIsRecord
<1>4. (journal' = journal \/ JournalGrows(r)) /\ torn' \in BOOLEAN
  BY <1>1, <1>2, EscalationsTyped, RecordSprintGrows
<1> QED
  BY <1>1, <1>3, <1>4

LEMMA RecordsStay ==
  ASSUME TypeOK, NEW r, JournalGrows(r)
  PROVE  /\ journal' \in Seq(Record)
         /\ DOMAIN journal = 1..Len(journal)
         /\ DOMAIN journal' = 1..(Len(journal) + 1)
         /\ \A n \in DOMAIN journal : journal'[n] = journal[n]
         /\ journal'[Len(journal) + 1] = r
         /\ Len(journal) \in Nat
  BY DEF TypeOK, JournalGrows

-----------------------------------------------------------------------------
(* Type correctness. *)

LEMMA MaxWorkTyped == MaxWork \in Nat /\ Cardinality(Keys) * MaxAttempts \in Nat
  BY FS_CardinalityType, BacklogAssumption DEF MaxWork

LEMMA CountedTyped ==
  ASSUME NEW n \in 0..MaxWork
  PROVE  Counted(n) \in 0..MaxWork
  BY MaxWorkTyped DEF Counted

LEMMA NothingIsTyped == {} \subseteq Item /\ {} \subseteq Keys \X Nat
  OBVIOUS

LEMMA TypeInit == Init => TypeOK
<1> SUFFICES ASSUME Init PROVE TypeOK
  OBVIOUS
<1>1. journal \in Seq(Record) /\ torn \in BOOLEAN
  <2>1. journal = <<>> /\ torn = FALSE
    BY DEF Init
  <2>2. <<>> \in Seq(Record) /\ FALSE \in BOOLEAN
    OBVIOUS
  <2> QED
    BY <2>1, <2>2, Zenon
<1>2. /\ watch \in [Sups -> BOOLEAN] /\ progressed \in [Sups -> BOOLEAN]
      /\ spent \in [Sups -> BOOLEAN]
  BY DEF Init
<1>3. /\ attempted \in [Sups -> SUBSET (Keys \X Nat)]
      /\ todo \in [Sups -> SUBSET Item] /\ item \in [Sups -> SUBSET Item]
  BY NothingIsTyped, Zenon DEF Init
<1>4. sup \in [Sups -> {"off", "top", "round", "working", "stopped"}]
  BY DEF Init
<1>5. sprints \in [Sups -> 0..MaxWork]
  BY MaxWorkTyped DEF Init
<1>6. runs \in Nat /\ humans \in Nat /\ human \subseteq Keys
  BY DEF Init
<1>7. /\ ledger \subseteq Procs \cup {"old"}
      /\ gated \subseteq Procs /\ crossed \subseteq Procs
  BY DEF Init
<1> QED
  BY <1>1, <1>2, <1>3, <1>4, <1>5, <1>6, <1>7, Zenon DEF TypeOK

LEMMA SprintStartsTyped ==
  ASSUME NEW p \in Procs, SprintStarts(p), TypeOK
  PROVE  ledger' = {} /\ gated' \subseteq Procs /\ crossed' \subseteq Procs
<1>1. InSprint \subseteq Procs
  BY DEF InSprint, Procs
<1> QED
  BY <1>1 DEF SprintStarts, ClearLedger, TypeOK

(* What discovery hands out is an item, numbered below the limit. *)
LEMMA JournalFinite ==
  ASSUME TypeOK, NEW key, NEW statuses
  PROVE  /\ RecordsOf(key, statuses) \subseteq DOMAIN journal
         /\ IsFiniteSet(RecordsOf(key, statuses))
         /\ Cardinality(RecordsOf(key, statuses)) \in Nat
<1>1. RecordsOf(key, statuses) \subseteq DOMAIN journal
  BY DEF RecordsOf
<1>2. IsFiniteSet(DOMAIN journal)
  <2>1. DOMAIN journal = 1..Len(journal) /\ Len(journal) \in Nat
    BY DEF TypeOK
  <2> QED
    BY <2>1, FS_Interval
<1> QED
  BY <1>1, <1>2, FS_Subset, FS_CardinalityType

LEMMA DiscoverTyped ==
  ASSUME TypeOK, NEW i \in Discover
  PROVE  /\ i \in Item
         /\ i.key \in Unfinished
         /\ AttemptsFor(i.key) \in Nat
         /\ i.attempt = AttemptsFor(i.key) + 1
         /\ i.attempt \in 1..MaxAttempts
<1>1. PICK key \in Unfinished :
        i = [key |-> key, attempt |-> AttemptsFor(key) + 1]
        /\ AttemptsFor(key) < MaxAttempts
  BY DEF Discover
<1>2. key \in Keys /\ AttemptsFor(key) \in Nat /\ MaxAttempts \in Nat
  BY JournalFinite, BacklogAssumption DEF Unfinished, AttemptsFor
<1>3. i.key = key /\ i.attempt = AttemptsFor(key) + 1
  BY <1>1
<1>4. i \in Item
  BY <1>1, <1>2 DEF Item
<1> QED
  BY <1>1, <1>2, <1>3, <1>4

LEMMA TypeStep ==
  ASSUME TypeOK, [Next]_vars
  PROVE  TypeOK'
<1> USE DEF TypeOK, file, loop, notes
<1>1. ASSUME NEW p \in Sups, Start(p)
      PROVE  TypeOK'
  <2>1. /\ attempted' \in [Sups -> SUBSET (Keys \X Nat)]
        /\ todo' \in [Sups -> SUBSET Item] /\ item' \in [Sups -> SUBSET Item]
    BY <1>1, NothingIsTyped DEF Start
  <2>2. UNCHANGED <<journal, torn, humans, human, ledger, gated, crossed>>
    BY <1>1 DEF Start
  <2>3. /\ sup' \in [Sups -> {"off", "top", "round", "working", "stopped"}]
        /\ runs' \in Nat
    BY <1>1 DEF Start
  <2>4. sprints' \in [Sups -> 0..MaxWork]
    BY <1>1, MaxWorkTyped DEF Start
  <2>5. /\ watch' \in [Sups -> BOOLEAN] /\ progressed' \in [Sups -> BOOLEAN]
        /\ spent' \in [Sups -> BOOLEAN]
    BY <1>1 DEF Start
  <2> QED
    BY <2>1, <2>2, <2>3, <2>4, <2>5, Zenon
<1>2. ASSUME NEW p \in Sups, Round(p)
      PROVE  TypeOK'
  <2>1. Fresh(p) \subseteq Item
    BY DiscoverTyped DEF Fresh
  <2>2. sup' \in [Sups -> {"off", "top", "round", "working", "stopped"}]
    BY <1>2 DEF Round
  <2>3. todo' = todo \/ todo' = [todo EXCEPT ![p] = Fresh(p)]
    BY <1>2 DEF Round
  <2>4. todo' \in [Sups -> SUBSET Item]
    BY <2>1, <2>3
  <2>5. progressed' = progressed \/ progressed' = [progressed EXCEPT ![p] = FALSE]
    BY <1>2 DEF Round
  <2>6. progressed' \in [Sups -> BOOLEAN]
    BY <2>5
  <2> QED
    BY <1>2, <2>2, <2>4, <2>6 DEF Round
<1>3. ASSUME NEW p \in Sups, TakeItem(p)
      PROVE  TypeOK'
  <2>1. ledger' = {} /\ gated' \subseteq Procs /\ crossed' \subseteq Procs
    BY <1>3, SprintStartsTyped DEF TakeItem, Procs
  <2>2. PICK i \in todo[p] : /\ item' = [item EXCEPT ![p] = {i}]
                             /\ todo' = [todo EXCEPT ![p] = @ \ {i}]
                             /\ attempted' = [attempted EXCEPT ![p] = @ \cup {Id(i)}]
    BY <1>3 DEF TakeItem
  <2>3. i \in Item /\ Id(i) \in Keys \X Nat
    BY DEF Id, Item
  <2>4. /\ item' \in [Sups -> SUBSET Item] /\ todo' \in [Sups -> SUBSET Item]
        /\ attempted' \in [Sups -> SUBSET (Keys \X Nat)]
    BY <2>2, <2>3
  <2>5. sup' \in [Sups -> {"off", "top", "round", "working", "stopped"}]
    BY <1>3 DEF TakeItem
  <2> QED
    BY <1>3, <2>1, <2>4, <2>5 DEF TakeItem
<1>4. ASSUME NEW p \in Procs, GateLogs(p)
      PROVE  TypeOK'
  BY <1>4 DEF GateLogs
<1>5. ASSUME NEW p \in Sups, SprintEnds(p)
      PROVE  TypeOK'
  <2>1. journal' \in Seq(Record) /\ torn' \in BOOLEAN
    BY <1>5, SprintEndsJournals, RecordsStay
  <2>2. spent' \in [Sups -> BOOLEAN] /\ progressed' \in [Sups -> BOOLEAN]
    BY <1>5 DEF SprintEnds, Outcomes
  <2>3. sprints' \in [Sups -> 0..MaxWork]
    BY <1>5, CountedTyped DEF SprintEnds
  <2>4. item' \in [Sups -> SUBSET Item]
    BY <1>5, NothingIsTyped DEF SprintEnds
  <2>5. sup' \in [Sups -> {"off", "top", "round", "working", "stopped"}]
    BY <1>5 DEF SprintEnds
  <2> QED
    BY <1>5, <2>1, <2>2, <2>3, <2>4, <2>5 DEF SprintEnds
<1>6. ASSUME NEW p \in Sups, RoundEnds(p)
      PROVE  TypeOK'
  <2>1. todo' \in [Sups -> SUBSET Item]
    BY <1>6, NothingIsTyped DEF RoundEnds
  <2>2. sup' \in [Sups -> {"off", "top", "round", "working", "stopped"}]
    BY <1>6 DEF RoundEnds
  <2> QED
    BY <1>6, <2>1, <2>2 DEF RoundEnds
<1>7. ASSUME NEW p \in Sups, Killed(p)
      PROVE  TypeOK'
  <2>1. sup' \in [Sups -> {"off", "top", "round", "working", "stopped"}]
    BY <1>7 DEF Killed
  <2> QED
    BY <1>7, <2>1 DEF Killed, WriteFails
<1>8. CASE HumanStarts
  <2>1. ledger' = {} /\ gated' \subseteq Procs /\ crossed' \subseteq Procs
    BY <1>8, SprintStartsTyped DEF HumanStarts, Procs
  <2>2. human' \subseteq Keys /\ humans' \in Nat
    BY <1>8 DEF HumanStarts
  <2> QED
    BY <1>8, <2>1, <2>2 DEF HumanStarts
<1>9. CASE HumanEnds
  <2>1. journal' \in Seq(Record) /\ torn' \in BOOLEAN
    BY <1>9, HumanEndsJournals, RecordsStay
  <2> QED
    BY <1>9, <2>1 DEF HumanEnds
<1>10. CASE HumanCrashes
  BY <1>10 DEF HumanCrashes, WriteFails
<1>11. CASE UNCHANGED vars
  BY <1>11 DEF vars
<1> QED
  BY <1>1, <1>2, <1>3, <1>4, <1>5, <1>6, <1>7, <1>8, <1>9, <1>10, <1>11
  DEF Next, Loop, Human, Idle, Procs

(***************************************************************************)
(* Every variable keeps its type, and the file holds records only, however *)
(* its writes fail.                                                        *)
(***************************************************************************)
THEOREM BacklogTypeCorrect == Spec => []TypeOK
<1>1. Init => TypeOK
  BY TypeInit
<1>2. TypeOK /\ [Next]_vars => TypeOK'
  BY TypeStep
<1> QED
  BY <1>1, <1>2, PTL DEF Spec

-----------------------------------------------------------------------------
(***************************************************************************)
(* What the journal says of an item, whatever is in it.                    *)
(***************************************************************************)
LEMMA NotResolved ==
  ASSUME NEW key, ~IsResolved(key)
  PROVE  RecordsOf(key, {"CLEAN", "ESCALATED"}) = RecordsOf(key, {"ESCALATED"})
  BY DEF IsResolved, RecordsOf

LEMMA DiscoverHas ==
  ASSUME NEW key \in Keys
  PROVE  (\E i \in Discover : i.key = key)
           <=> key \in Unfinished /\ AttemptsFor(key) < MaxAttempts
<1>1. ASSUME NEW i \in Discover, i.key = key
      PROVE  key \in Unfinished /\ AttemptsFor(key) < MaxAttempts
  <2>1. PICK k \in Unfinished : /\ AttemptsFor(k) < MaxAttempts
                                /\ i = [key |-> k, attempt |-> AttemptsFor(k) + 1]
    BY DEF Discover
  <2>2. k = key
    BY <1>1, <2>1
  <2> QED
    BY <2>1, <2>2
<1>2. ASSUME key \in Unfinished, AttemptsFor(key) < MaxAttempts
      PROVE  \E i \in Discover : i.key = key
  <2> DEFINE i == [key |-> key, attempt |-> AttemptsFor(key) + 1]
  <2>1. i \in Discover /\ i.key = key
    BY <1>2 DEF Discover
  <2> QED
    BY <2>1
<1> QED
  BY <1>1, <1>2

LEMMA TypedVanishesNothing == TypeOK => NothingVanishes
<1> SUFFICES ASSUME TypeOK, NEW key \in Keys, RecordsOf(key, Statuses) # {}
             PROVE  Cardinality({s \in {"passed", "waits", "out of rungs", "broken"} :
                      \/ s = "passed" /\ IsResolved(key)
                      \/ s = "waits" /\ \E i \in Discover : i.key = key
                      \/ s = "out of rungs" /\ key \in OutOfRungs
                      \/ s = "broken" /\ key \in Broken}) = 1
  BY DEF NothingVanishes
<1> DEFINE waits == \E i \in Discover : i.key = key
           fates == {s \in {"passed", "waits", "out of rungs", "broken"} :
                      \/ s = "passed" /\ IsResolved(key)
                      \/ s = "waits" /\ waits
                      \/ s = "out of rungs" /\ key \in OutOfRungs
                      \/ s = "broken" /\ key \in Broken}
<1>1. /\ key \in Unfinished <=> RecordsOf(key, {"ESCALATED"}) # {} /\ ~IsResolved(key)
      /\ key \in Broken <=> /\ RecordsOf(key, {"FAILED"}) # {}
                            /\ RecordsOf(key, {"ESCALATED"}) = {}
                            /\ ~IsResolved(key)
      /\ key \in OutOfRungs <=> key \in Unfinished /\ AttemptsFor(key) >= MaxAttempts
  BY DEF Unfinished, Broken, OutOfRungs
<1>2. waits <=> key \in Unfinished /\ AttemptsFor(key) < MaxAttempts
  BY DiscoverHas
<1>3. AttemptsFor(key) \in Nat /\ MaxAttempts \in Nat
  BY JournalFinite, BacklogAssumption DEF AttemptsFor
<1>4. \/ IsResolved(key)
      \/ RecordsOf(key, {"ESCALATED"}) # {}
      \/ RecordsOf(key, {"FAILED"}) # {}
  BY DEF IsResolved, RecordsOf, Statuses
<1>5. \E s : fates = {s}
  <2> HIDE DEF waits
  <2>1. CASE IsResolved(key)
    <3>1. fates = {"passed"}
      BY <2>1, <1>1, <1>2
    <3> QED
      BY <3>1
  <2>2. CASE key \in Broken
    <3>1. fates = {"broken"}
      BY <2>2, <1>1, <1>2
    <3> QED
      BY <3>1
  <2>3. CASE key \in Unfinished /\ AttemptsFor(key) < MaxAttempts
    <3>1. ~(AttemptsFor(key) >= MaxAttempts)
      BY <2>3, <1>3
    <3>2. fates = {"waits"}
      BY <2>3, <3>1, <1>1, <1>2
    <3> QED
      BY <3>2
  <2>4. CASE key \in Unfinished /\ AttemptsFor(key) >= MaxAttempts
    <3>1. ~(AttemptsFor(key) < MaxAttempts)
      BY <2>4, <1>3
    <3>2. fates = {"out of rungs"}
      BY <2>4, <3>1, <1>1, <1>2
    <3> QED
      BY <3>2
  <2>5. IsResolved(key) \/ key \in Broken \/ key \in Unfinished
    BY <1>1, <1>4, Zenon
  <2>6. AttemptsFor(key) < MaxAttempts \/ AttemptsFor(key) >= MaxAttempts
    BY <1>3
  <2> QED
    BY <2>1, <2>2, <2>3, <2>4, <2>5, <2>6, Zenon
<1> QED
  BY <1>5, FS_Singleton

LEMMA TypedParksTheEscalated == TypeOK => OutOfRungsWasEscalated
<1> SUFFICES ASSUME TypeOK, NEW key \in OutOfRungs
             PROVE  Cardinality(RecordsOf(key, {"ESCALATED"})) >= MaxAttempts
  BY DEF OutOfRungsWasEscalated
<1>1. ~IsResolved(key) /\ AttemptsFor(key) >= MaxAttempts
  BY DEF OutOfRungs, Unfinished
<1> QED
  BY <1>1, NotResolved DEF AttemptsFor

(***************************************************************************)
(* "It simply stopped existing, which is the one outcome an autonomous     *)
(* loop is never allowed to produce": an item of the journal has passed,   *)
(* waits for the loop, or is handed back for one of two reasons.  The      *)
(* readers of the journal partition what it can hold, so it needs no more  *)
(* of it than that it holds records.                                       *)
(***************************************************************************)
THEOREM TheBacklogLosesNothing == Spec => []NothingVanishes
  BY BacklogTypeCorrect, TypedVanishesNothing, PTL

(***************************************************************************)
(* What is parked as out of rungs was escalated MaxAttempts times.         *)
(***************************************************************************)
THEOREM ParkedWasEscalated == Spec => []OutOfRungsWasEscalated
  BY BacklogTypeCorrect, TypedParksTheEscalated, PTL

-----------------------------------------------------------------------------
(***************************************************************************)
(* The invariant of the loop.  An item is handed out only if a record of   *)
(* it was made by a human, and when it is handed out the loop has had two  *)
(* attempts less than the limit.  A supervisor that holds the item has it  *)
(* to work or is working it; it adds one attempt, and holds it no longer.  *)
(* So the attempts the loop has had and the supervisors that hold the item *)
(* are bounded together.                                                   *)
(***************************************************************************)
Judged == {"CLEAN", "ESCALATED"}

HumansOwn(key) == {n \in RecordsOf(key, Judged) : journal[n].source = "human"}

InRound(p) == sup[p] \in {"round", "working"}

Holders(key) ==
  {p \in Sups : InRound(p) /\ \E i \in todo[p] \cup item[p] : i.key = key}

HumanWasFirst == \A key \in Keys : Replays(key) # {} => HumansOwn(key) # {}

HeldWithinBound ==
  \A key \in Keys :
    Cardinality(Replays(key)) + Cardinality(Holders(key)) + 2
      <= MaxAttempts + Cardinality(Sups)

ItemsAreDue(p) ==
  InRound(p) => \A i \in todo[p] \cup item[p] :
                  HumansOwn(i.key) # {} /\ i.attempt \in 1..MaxAttempts

OneAtATime(p) ==
  /\ sup[p] \notin {"working", "off"} => item[p] = {}
  /\ sup[p] = "working" => \E i \in item[p] : item[p] = {i}
  /\ InRound(p) => /\ todo[p] \cap item[p] = {}
                   /\ \A i, j \in todo[p] \cup item[p] : i.key = j.key => i = j

(***************************************************************************)
(* What it has worked, it has worked once, and it works on as long as it   *)
(* got anywhere or has money left.                                         *)
(***************************************************************************)
CountsItsWork(p) ==
  /\ attempted[p] \subseteq Keys \X (1..MaxAttempts)
  /\ InRound(p) => \A i \in todo[p] : Id(i) \notin attempted[p]
  /\ sup[p] # "off" =>
       sprints[p] + Cardinality(item[p]) = Cardinality(attempted[p])

RoundGotSomewhere(p) ==
  InRound(p) => progressed[p] \/ spent[p] \/ todo[p] \cup item[p] # {}

(***************************************************************************)
(* The ledger of a sprint no other ran beside holds its own entry or none. *)
(***************************************************************************)
LedgerIsOwn ==
  \A p \in InSprint \ crossed :
    InSprint = {p} /\ ledger = IF p \in gated THEN {p} ELSE {}

BacklogInv ==
  /\ TypeOK
  /\ HumanWasFirst /\ HeldWithinBound /\ LedgerIsOwn
  /\ \A p \in Sups : /\ ItemsAreDue(p) /\ OneAtATime(p)
                     /\ CountsItsWork(p) /\ RoundGotSomewhere(p)

LEMMA LimitsTyped ==
  /\ MaxAttempts \in Nat \ {0}
  /\ Cardinality(Sups) \in Nat /\ Cardinality(Sups) >= 1
<1>1. Cardinality(Sups) \in Nat /\ Cardinality(Sups) # 0
  BY FS_CardinalityType, FS_EmptySet, BacklogAssumption
<1> QED
  BY <1>1, BacklogAssumption

LEMMA InvInit == Init => BacklogInv
<1> SUFFICES ASSUME Init PROVE BacklogInv
  OBVIOUS
<1>1. TypeOK
  BY TypeInit
<1>2. \A key \in Keys : Replays(key) = {} /\ Holders(key) = {}
  BY DEF Init, Replays, RecordsOf, Holders, InRound
<1>3. HumanWasFirst /\ HeldWithinBound
  BY <1>2, FS_EmptySet, LimitsTyped DEF HumanWasFirst, HeldWithinBound
<1>4. LedgerIsOwn
  BY DEF Init, LedgerIsOwn, InSprint
<1>5. ASSUME NEW p \in Sups
      PROVE  /\ ItemsAreDue(p) /\ OneAtATime(p)
             /\ CountsItsWork(p) /\ RoundGotSomewhere(p)
  BY DEF Init, ItemsAreDue, OneAtATime, RoundGotSomewhere, InRound, CountsItsWork
<1> QED
  BY <1>1, <1>3, <1>4, <1>5 DEF BacklogInv

(***************************************************************************)
(* A step is of one process, and moves nothing of the other supervisors.   *)
(***************************************************************************)
Stays(q) ==
  /\ sup'[q] = sup[q] /\ watch'[q] = watch[q]
  /\ todo'[q] = todo[q] /\ item'[q] = item[q]
  /\ attempted'[q] = attempted[q] /\ progressed'[q] = progressed[q]
  /\ sprints'[q] = sprints[q] /\ spent'[q] = spent[q]

LEMMA OthersStay ==
  ASSUME TypeOK, [Next]_vars, NEW q \in Sups
  PROVE  \/ Start(q) \/ Round(q) \/ TakeItem(q) \/ SprintEnds(q) \/ RoundEnds(q)
         \/ Killed(q) \/ Stays(q)
<1>1. ASSUME NEW p \in Sups, Start(p), p # q
      PROVE  Stays(q)
  <2>1. watch'[q] = watch[q]
    BY <1>1 DEF Start, TypeOK
  <2> QED
    BY <1>1, <2>1 DEF Start, Stays, TypeOK
<1>2. ASSUME NEW p \in Sups, Round(p), p # q
      PROVE  Stays(q)
  BY <1>2 DEF Round, Stays, TypeOK
<1>3. ASSUME NEW p \in Sups, TakeItem(p), p # q
      PROVE  Stays(q)
  BY <1>3 DEF TakeItem, Stays, TypeOK
<1>4. ASSUME NEW p \in Sups, SprintEnds(p), p # q
      PROVE  Stays(q)
  <2>1. spent'[q] = spent[q] /\ progressed'[q] = progressed[q]
    BY <1>4 DEF SprintEnds, TypeOK
  <2>2. sprints'[q] = sprints[q] /\ item'[q] = item[q] /\ sup'[q] = sup[q]
    BY <1>4 DEF SprintEnds, TypeOK
  <2> QED
    BY <1>4, <2>1, <2>2 DEF SprintEnds, Stays
<1>5. ASSUME NEW p \in Sups, RoundEnds(p) \/ Killed(p), p # q
      PROVE  Stays(q)
  BY <1>5 DEF RoundEnds, Killed, loop, Stays, TypeOK
<1>6. CASE \/ HumanStarts \/ HumanEnds \/ HumanCrashes \/ UNCHANGED vars
           \/ \E p \in Procs : GateLogs(p)
  BY <1>6 DEF HumanStarts, HumanEnds, HumanCrashes, GateLogs, vars, loop, Stays
<1> QED
  BY <1>1, <1>2, <1>3, <1>4, <1>5, <1>6 DEF Next, Loop, Human, Idle, Procs

(***************************************************************************)
(* A new record is counted where it belongs, and moves no other.           *)
(***************************************************************************)
LEMMA GrowthOfRecords ==
  ASSUME TypeOK, NEW r, JournalGrows(r), NEW key, NEW statuses
  PROVE  RecordsOf(key, statuses)' =
           IF r.key = key /\ r.status \in statuses
           THEN RecordsOf(key, statuses) \cup {Len(journal) + 1}
           ELSE RecordsOf(key, statuses)
  BY RecordsStay DEF RecordsOf

LEMMA GrowthOfReplays ==
  ASSUME TypeOK, NEW r, JournalGrows(r), NEW key
  PROVE  /\ Replays(key)' =
              IF r.key = key /\ r.status \in Judged /\ r.source = "escalation"
              THEN Replays(key) \cup {Len(journal) + 1} ELSE Replays(key)
         /\ HumansOwn(key) \subseteq HumansOwn(key)'
<1>1. RecordsOf(key, Judged)' = IF r.key = key /\ r.status \in Judged
                                THEN RecordsOf(key, Judged) \cup {Len(journal) + 1}
                                ELSE RecordsOf(key, Judged)
  BY GrowthOfRecords
<1>2. RecordsOf(key, Judged) \subseteq DOMAIN journal
  BY DEF RecordsOf
<1>3. /\ Replays(key) = {n \in RecordsOf(key, Judged) : journal[n].source = "escalation"}
      /\ Replays(key)' = {n \in RecordsOf(key, Judged)' : journal'[n].source = "escalation"}
      /\ HumansOwn(key)' = {n \in RecordsOf(key, Judged)' : journal'[n].source = "human"}
  BY DEF Replays, HumansOwn, Judged
<1>4. Replays(key)' = IF r.key = key /\ r.status \in Judged /\ r.source = "escalation"
                      THEN Replays(key) \cup {Len(journal) + 1} ELSE Replays(key)
  BY <1>1, <1>2, <1>3, RecordsStay
<1>5. HumansOwn(key) \subseteq HumansOwn(key)'
  BY <1>1, <1>2, <1>3, RecordsStay DEF HumansOwn
<1> QED
  BY <1>4, <1>5

LEMMA ReplaysFinite ==
  ASSUME TypeOK, NEW key
  PROVE  /\ IsFiniteSet(Replays(key)) /\ Cardinality(Replays(key)) \in Nat
         /\ HumansOwn(key) # {} => Cardinality(Replays(key)) < AttemptsFor(key)
<1>1. /\ Replays(key) \in SUBSET RecordsOf(key, Judged)
      /\ IsFiniteSet(RecordsOf(key, Judged))
      /\ Cardinality(RecordsOf(key, Judged)) \in Nat
      /\ AttemptsFor(key) = Cardinality(RecordsOf(key, Judged))
  BY JournalFinite DEF Replays, Judged, AttemptsFor
<1>2. IsFiniteSet(Replays(key)) /\ Cardinality(Replays(key)) \in Nat
  BY <1>1, FS_Subset, FS_CardinalityType
<1>3. HumansOwn(key) # {} => Replays(key) # RecordsOf(key, Judged)
  BY DEF HumansOwn, Replays, Judged
<1> QED
  BY <1>1, <1>2, <1>3, FS_Subset

(***************************************************************************)
(* Only a supervisor's sprint adds to the attempts the loop has had.       *)
(***************************************************************************)
LEMMA JournalSteps ==
  ASSUME TypeOK, [Next]_vars
  PROVE  \/ UNCHANGED journal
         \/ \E p \in Sups :
              /\ SprintEnds(p)
              /\ \E i \in item[p], r \in Record :
                   JournalGrows(r) /\ r.key = i.key /\ r.source = "escalation"
         \/ /\ HumanEnds
            /\ \E r \in Record : JournalGrows(r) /\ r.source = "human"
<1>1. ASSUME NEW p \in Sups, SprintEnds(p)
      PROVE  \/ UNCHANGED journal
             \/ \E i \in item[p], r \in Record :
                  JournalGrows(r) /\ r.key = i.key /\ r.source = "escalation"
  BY <1>1, SprintEndsJournals
<1>2. CASE HumanEnds
  BY <1>2, HumanEndsJournals
<1>3. ASSUME NEW p \in Sups, Start(p) \/ Round(p) \/ TakeItem(p) \/ RoundEnds(p)
      PROVE  UNCHANGED journal
  BY <1>3 DEF Start, Round, TakeItem, RoundEnds, file
<1>4. ASSUME NEW p \in Sups, Killed(p)
      PROVE  UNCHANGED journal
  BY <1>4 DEF Killed, WriteFails, file
<1>5. CASE \/ HumanStarts \/ HumanCrashes \/ UNCHANGED vars
           \/ \E p \in Procs : GateLogs(p)
  BY <1>5 DEF HumanStarts, HumanCrashes, GateLogs, WriteFails, vars, file
<1> QED
  BY <1>1, <1>2, <1>3, <1>4, <1>5 DEF Next, Loop, Human, Idle, Procs

LEMMA SameRecords ==
  ASSUME UNCHANGED journal, NEW key
  PROVE  Replays(key)' = Replays(key) /\ HumansOwn(key)' = HumansOwn(key)
  BY DEF Replays, HumansOwn, RecordsOf

LEMMA ReplaysStep ==
  ASSUME TypeOK, [Next]_vars, NEW key
  PROVE  /\ HumansOwn(key) \subseteq HumansOwn(key)'
         /\ \/ Replays(key)' = Replays(key)
            \/ \E p \in Sups :
                 /\ SprintEnds(p) /\ \E i \in item[p] : i.key = key
                 /\ \E n : Replays(key)' = Replays(key) \cup {n}
<1>1. CASE UNCHANGED journal
  BY <1>1, SameRecords
<1>2. ASSUME NEW p \in Sups, SprintEnds(p),
             NEW i \in item[p], NEW r \in Record,
             JournalGrows(r), r.key = i.key
      PROVE  /\ HumansOwn(key) \subseteq HumansOwn(key)'
             /\ \/ Replays(key)' = Replays(key)
                \/ i.key = key /\ \E n : Replays(key)' = Replays(key) \cup {n}
  <2>2. HumansOwn(key) \subseteq HumansOwn(key)'
    BY <1>2, GrowthOfReplays
  <2>3. CASE i.key = key
    BY <1>2, <2>2, <2>3, GrowthOfReplays
  <2>4. CASE i.key # key
    BY <1>2, <2>2, <2>4, GrowthOfReplays
  <2> QED
    BY <2>3, <2>4
<1>3. CASE \E r \in Record : JournalGrows(r) /\ r.source = "human"
  <2>1. PICK r \in Record : JournalGrows(r) /\ r.source = "human"
    BY <1>3
  <2> QED
    BY <2>1, GrowthOfReplays
<1> QED
  BY <1>1, <1>2, <1>3, JournalSteps

LEMMA HumanFirstStep ==
  ASSUME BacklogInv, [Next]_vars
  PROVE  HumanWasFirst'
<1> USE DEF BacklogInv
<1> SUFFICES ASSUME NEW key \in Keys, Replays(key)' # {}
             PROVE  HumansOwn(key)' # {}
  BY DEF HumanWasFirst
<1>1. HumansOwn(key) \subseteq HumansOwn(key)'
  BY ReplaysStep
<1>2. CASE Replays(key)' = Replays(key)
  BY <1>1, <1>2 DEF HumanWasFirst
<1>3. ASSUME NEW p \in Sups, SprintEnds(p), NEW i \in item[p], i.key = key
      PROVE  HumansOwn(key)' # {}
  BY <1>1, <1>3 DEF SprintEnds, ItemsAreDue, InRound
<1> QED
  BY <1>2, <1>3, ReplaysStep

(***************************************************************************)
(* What discovery hands out is next, and distinct items have their keys.   *)
(***************************************************************************)
LEMMA FreshIsNext ==
  ASSUME BacklogInv, NEW p \in Sups, NEW i \in Fresh(p)
  PROVE  /\ i \in Item /\ Id(i) \notin attempted[p]
         /\ HumansOwn(i.key) # {}
         /\ Cardinality(Replays(i.key)) + 2 <= MaxAttempts
         /\ i.attempt \in 1..MaxAttempts
<1>1. i \in Discover /\ Id(i) \notin attempted[p] /\ TypeOK
  BY DEF Fresh, BacklogInv
<1>2. /\ i \in Item /\ i.key \in Unfinished /\ AttemptsFor(i.key) \in Nat
      /\ i.attempt = AttemptsFor(i.key) + 1 /\ i.attempt \in 1..MaxAttempts
  BY <1>1, DiscoverTyped
<1>3. HumansOwn(i.key) # {}
  <2>1. PICK n \in RecordsOf(i.key, {"ESCALATED"}) : TRUE
    BY <1>2 DEF Unfinished
  <2>2. n \in RecordsOf(i.key, Judged)
    BY <2>1 DEF RecordsOf, Judged
  <2>3. n \in DOMAIN journal /\ journal \in Seq(Record)
    BY <1>1, <2>1 DEF RecordsOf, TypeOK
  <2>4. journal[n] \in Record
    BY <2>3
  <2>5. journal[n].source \in Sources
    BY <2>4 DEF Record
  <2>6. n \in Replays(i.key) \/ n \in HumansOwn(i.key)
    BY <2>2, <2>5 DEF Sources, Replays, HumansOwn, Judged
  <2> QED
    BY <1>2, <2>6 DEF BacklogInv, HumanWasFirst, Item
<1>4. Cardinality(Replays(i.key)) + 2 <= MaxAttempts
  BY <1>1, <1>2, <1>3, ReplaysFinite, LimitsTyped
<1> QED
  BY <1>1, <1>2, <1>3, <1>4

LEMMA FreshIsUnique ==
  ASSUME NEW p, NEW i \in Fresh(p), NEW j \in Fresh(p), i.key = j.key
  PROVE  i = j
  BY DEF Fresh, Discover

(***************************************************************************)
(* A supervisor comes to hold an item by a round of discovery only.        *)
(***************************************************************************)
LEMMA HoldersStep ==
  ASSUME BacklogInv, [Next]_vars, NEW key \in Keys
  PROVE  \/ Holders(key)' \subseteq Holders(key)
         \/ \E p \in Sups : Round(p) /\ \E i \in Fresh(p) : i.key = key
<1> USE DEF BacklogInv
<1> SUFFICES ASSUME NEW q \in Sups, q \in Holders(key)', q \notin Holders(key)
             PROVE  Round(q) /\ \E i \in Fresh(q) : i.key = key
  BY DEF Holders
<1>1. InRound(q)' /\ \E i \in todo'[q] \cup item'[q] : i.key = key
  BY DEF Holders, InRound
<1>2. ~InRound(q) \/ ~\E i \in todo[q] \cup item[q] : i.key = key
  BY DEF Holders
<1>3. CASE Start(q) \/ RoundEnds(q) \/ Killed(q)
  BY <1>1, <1>3 DEF Start, RoundEnds, Killed, InRound, TypeOK
<1>4. CASE TakeItem(q)
  <2>1. InRound(q) /\ todo'[q] \cup item'[q] \subseteq todo[q] \cup item[q]
    BY <1>4 DEF TakeItem, InRound, TypeOK
  <2> QED
    BY <1>1, <1>2, <2>1
<1>5. CASE SprintEnds(q)
  <2>1. InRound(q) /\ todo'[q] \cup item'[q] \subseteq todo[q] \cup item[q]
    BY <1>5 DEF SprintEnds, InRound, TypeOK
  <2> QED
    BY <1>1, <1>2, <2>1
<1>6. CASE Stays(q)
  BY <1>1, <1>2, <1>6 DEF Stays, InRound
<1>7. CASE Round(q)
  <2>1. sup[q] = "top" /\ item'[q] = item[q]
    BY <1>7 DEF Round
  <2>2. item[q] = {}
    BY <2>1 DEF OneAtATime
  <2>3. sup'[q] \in {"round", "working"}
    BY <1>1 DEF InRound
  <2>4. todo'[q] = Fresh(q)
    BY <1>7, <2>1, <2>3 DEF Round, TypeOK
  <2> QED
    BY <1>1, <1>7, <2>1, <2>2, <2>4
<1> QED
  BY <1>3, <1>4, <1>5, <1>6, <1>7, OthersStay

LEMMA HoldersFinite ==
  ASSUME NEW key
  PROVE  /\ IsFiniteSet(Holders(key)) /\ Cardinality(Holders(key)) \in Nat
         /\ Cardinality(Holders(key)) <= Cardinality(Sups)
  BY FS_Subset, FS_CardinalityType, BacklogAssumption DEF Holders

(* The supervisor whose sprint ends holds the item no longer. *)
LEMMA EnderLetsGo ==
  ASSUME BacklogInv, [Next]_vars, NEW p \in Sups, SprintEnds(p),
         NEW i \in item[p], NEW key \in Keys, i.key = key
  PROVE  /\ p \in Holders(key) /\ p \notin Holders(key)'
         /\ Holders(key)' \subseteq Holders(key)
<1> USE DEF BacklogInv
<1>1. /\ sup[p] = "working" /\ item' = [item EXCEPT ![p] = {}] /\ todo' = todo
      /\ item'[p] = {}
  BY DEF SprintEnds, TypeOK
<1>2. p \in Holders(key)
  BY <1>1 DEF Holders, InRound
<1>3. \A j \in todo[p] : j.key # key
  BY <1>1 DEF OneAtATime, InRound
<1>4. p \notin Holders(key)'
  BY <1>1, <1>3 DEF Holders
<1>5. \A q \in Sups : ~Round(q)
  <2> SUFFICES ASSUME NEW q \in Sups, Round(q) PROVE FALSE
    OBVIOUS
  <2>1. sprints' = sprints /\ item' = item
    BY DEF Round
  <2> QED
    BY <1>1, <2>1
<1> QED
  BY <1>2, <1>4, <1>5, HoldersStep

LEMMA BoundedStep ==
  ASSUME BacklogInv, [Next]_vars
  PROVE  HeldWithinBound'
<1> SUFFICES ASSUME NEW key \in Keys
             PROVE  Cardinality(Replays(key)') + Cardinality(Holders(key)') + 2
                      <= MaxAttempts + Cardinality(Sups)
  BY DEF HeldWithinBound
<1> DEFINE R == Replays(key)
           H == Holders(key)
<1>0. TypeOK
  BY DEF BacklogInv
<1>1. Cardinality(R) + Cardinality(H) + 2 <= MaxAttempts + Cardinality(Sups)
  BY DEF BacklogInv, HeldWithinBound
<1>2. /\ IsFiniteSet(R) /\ Cardinality(R) \in Nat
      /\ IsFiniteSet(H) /\ Cardinality(H) \in Nat
  BY <1>0, ReplaysFinite, HoldersFinite
<1>3. /\ Cardinality(H') \in Nat /\ Cardinality(H') <= Cardinality(Sups)
      /\ IsFiniteSet(H')
  <2>1. H' \subseteq Sups
    BY DEF Holders
  <2> QED
    BY <2>1, FS_Subset, FS_CardinalityType, BacklogAssumption
<1>4. MaxAttempts \in Nat /\ Cardinality(Sups) \in Nat
  BY LimitsTyped
<1>5. ASSUME NEW p \in Sups, SprintEnds(p), NEW i \in item[p], i.key = key,
             NEW n, R' = R \cup {n}
      PROVE  Cardinality(R') + Cardinality(H') + 2 <= MaxAttempts + Cardinality(Sups)
  <2>1. p \in H /\ H' \subseteq H \ {p}
    BY <1>5, EnderLetsGo
  <2>2. Cardinality(H \ {p}) = Cardinality(H) - 1 /\ IsFiniteSet(H \ {p})
    BY <1>2, <2>1, FS_RemoveElement
  <2>3. Cardinality(H') <= Cardinality(H) - 1
    BY <2>1, <2>2, FS_Subset
  <2>4. Cardinality(R \cup {n}) = IF n \in R THEN Cardinality(R) ELSE Cardinality(R) + 1
    BY <1>2, FS_AddElement
  <2>5. Cardinality(R') = Cardinality(R \cup {n})
    BY <1>5
  <2> HIDE DEF R, H
  <2> QED
    BY <1>1, <1>2, <1>3, <1>4, <2>3, <2>4, <2>5
<1>6. CASE R' = R
  <2>1. ASSUME H' \subseteq H
        PROVE  Cardinality(R') + Cardinality(H') + 2
                 <= MaxAttempts + Cardinality(Sups)
    <3>1. Cardinality(H') <= Cardinality(H)
      BY <1>2, <2>1, FS_Subset
    <3>2. Cardinality(R') = Cardinality(R)
      BY <1>6
    <3> HIDE DEF R, H
    <3> QED
      BY <1>1, <1>2, <1>3, <1>4, <3>1, <3>2
  <2>2. ASSUME NEW p \in Sups, NEW i \in Fresh(p), i.key = key
        PROVE  Cardinality(R') + Cardinality(H') + 2
                 <= MaxAttempts + Cardinality(Sups)
    <3>1. Cardinality(R) + 2 <= MaxAttempts
      BY <2>2, FreshIsNext
    <3>2. Cardinality(R') = Cardinality(R)
      BY <1>6
    <3> HIDE DEF R, H
    <3> QED
      BY <1>2, <1>3, <1>4, <3>1, <3>2
  <2> QED
    BY <2>1, <2>2, HoldersStep
<1> QED
  BY <1>0, <1>5, <1>6, ReplaysStep

(***************************************************************************)
(* The items of a supervisor, whatever the others do.                      *)
(***************************************************************************)
LEMMA ItemsStep ==
  ASSUME BacklogInv, [Next]_vars, NEW q \in Sups
  PROVE  ItemsAreDue(q)' /\ OneAtATime(q)'
<1> USE DEF BacklogInv
(* The records a human made of an item stay. *)
<1>0. ASSUME todo'[q] \cup item'[q] \subseteq todo[q] \cup item[q], InRound(q)
      PROVE  ItemsAreDue(q)'
  <2> SUFFICES ASSUME NEW i \in todo'[q] \cup item'[q]
               PROVE  HumansOwn(i.key)' # {} /\ i.attempt \in 1..MaxAttempts
    BY DEF ItemsAreDue
  <2>1. HumansOwn(i.key) # {} /\ i.attempt \in 1..MaxAttempts
    BY <1>0 DEF ItemsAreDue
  <2> QED
    BY <2>1, ReplaysStep
<1>1. CASE Start(q)
  <2>1. sup'[q] = "top" /\ item'[q] = {}
    BY <1>1 DEF Start, TypeOK
  <2> QED
    BY <2>1 DEF ItemsAreDue, OneAtATime, InRound
<1>2. CASE Round(q)
  <2>1. item'[q] = {} /\ UNCHANGED journal /\ sup'[q] # "working"
    BY <1>2 DEF Round, OneAtATime, file, TypeOK
  <2>2. CASE sup'[q] = "round"
    <3>1. todo'[q] = Fresh(q)
      BY <1>2, <2>2 DEF Round, TypeOK
    <3>2. ItemsAreDue(q)'
      <4> SUFFICES ASSUME NEW i \in Fresh(q)
                   PROVE  HumansOwn(i.key)' # {} /\ i.attempt \in 1..MaxAttempts
        BY <2>1, <3>1 DEF ItemsAreDue
      <4> QED
        BY <2>1, FreshIsNext, SameRecords
    <3>3. OneAtATime(q)'
      BY <2>1, <2>2, <3>1, FreshIsUnique DEF OneAtATime
    <3> QED
      BY <3>2, <3>3
  <2>3. CASE sup'[q] # "round"
    BY <2>1, <2>3 DEF ItemsAreDue, OneAtATime, InRound
  <2> QED
    BY <2>2, <2>3
<1>3. CASE TakeItem(q)
  <2>1. PICK i \in todo[q] : item'[q] = {i} /\ todo'[q] = todo[q] \ {i}
    BY <1>3 DEF TakeItem, TypeOK
  <2>2. sup[q] = "round" /\ sup'[q] = "working" /\ item[q] = {}
    BY <1>3 DEF TakeItem, OneAtATime, TypeOK
  <2>3. ItemsAreDue(q)'
    BY <1>0, <2>1, <2>2 DEF InRound
  <2>4. OneAtATime(q)'
    BY <2>1, <2>2 DEF OneAtATime, InRound
  <2> QED
    BY <2>3, <2>4
<1>4. CASE SprintEnds(q)
  <2>1. /\ sup[q] = "working" /\ sup'[q] = "round" /\ item'[q] = {}
        /\ todo'[q] = todo[q]
    BY <1>4 DEF SprintEnds, TypeOK
  <2>2. ItemsAreDue(q)'
    BY <1>0, <2>1 DEF InRound
  <2>3. OneAtATime(q)'
    BY <2>1 DEF OneAtATime, InRound
  <2> QED
    BY <2>2, <2>3
<1>5. CASE RoundEnds(q)
  <2>1. sup[q] = "round" /\ sup'[q] \in {"top", "stopped"} /\ item'[q] = item[q]
    BY <1>5 DEF RoundEnds, TypeOK
  <2> QED
    BY <2>1 DEF ItemsAreDue, OneAtATime, InRound
<1>6. CASE Killed(q)
  <2>1. sup'[q] = "off"
    BY <1>6 DEF Killed, TypeOK
  <2> QED
    BY <2>1 DEF ItemsAreDue, OneAtATime, InRound
<1>7. CASE Stays(q)
  <2>1. OneAtATime(q)'
    BY <1>7 DEF Stays, OneAtATime, InRound
  <2>2. CASE InRound(q)
    BY <1>0, <1>7, <2>1, <2>2 DEF Stays
  <2>3. CASE ~InRound(q)
    BY <1>7, <2>1, <2>3 DEF Stays, ItemsAreDue, InRound
  <2> QED
    BY <2>2, <2>3
<1> QED
  BY <1>1, <1>2, <1>3, <1>4, <1>5, <1>6, <1>7, OthersStay

LEMMA AttemptedFinite ==
  ASSUME NEW p \in Sups, CountsItsWork(p)
  PROVE  /\ IsFiniteSet(attempted[p]) /\ Cardinality(attempted[p]) \in Nat
         /\ Cardinality(attempted[p]) <= Cardinality(Keys) * MaxAttempts
<1>1. IsFiniteSet(1..MaxAttempts) /\ Cardinality(1..MaxAttempts) = MaxAttempts
  BY FS_Interval, BacklogAssumption
<1>2. /\ IsFiniteSet(Keys \X (1..MaxAttempts))
      /\ Cardinality(Keys \X (1..MaxAttempts)) = Cardinality(Keys) * MaxAttempts
  BY <1>1, FS_Product, BacklogAssumption
<1> QED
  BY <1>2, FS_Subset, FS_CardinalityType DEF CountsItsWork

LEMMA CountStep ==
  ASSUME BacklogInv, [Next]_vars, NEW q \in Sups
  PROVE  CountsItsWork(q)'
<1> USE DEF BacklogInv
<1>1. CASE Start(q)
  <2>1. /\ sprints'[q] = 0 /\ item'[q] = {} /\ attempted'[q] = {}
        /\ sup'[q] = "top"
    BY <1>1 DEF Start, TypeOK
  <2> QED
    BY <2>1, FS_EmptySet DEF CountsItsWork, InRound
<1>2. CASE Round(q)
  <2>1. /\ UNCHANGED <<item, attempted, sprints>>
        /\ sup[q] = "top" /\ sup'[q] # "working"
    BY <1>2 DEF Round, TypeOK
  <2>2. sup'[q] = "round" => todo'[q] = Fresh(q)
    BY <1>2 DEF Round, TypeOK
  <2> QED
    BY <2>1, <2>2, FreshIsNext DEF CountsItsWork, InRound
<1>3. CASE TakeItem(q)
  <2>1. PICK i \in todo[q] :
          /\ item'[q] = {i} /\ todo'[q] = todo[q] \ {i}
          /\ attempted'[q] = attempted[q] \cup {Id(i)}
    BY <1>3 DEF TakeItem, TypeOK
  <2>2. /\ sup[q] = "round" /\ item[q] = {}
        /\ sprints'[q] = sprints[q] /\ sprints[q] \in Nat
    <3>1. sup[q] = "round" /\ sprints' = sprints
      BY <1>3 DEF TakeItem
    <3>2. item[q] = {}
      BY <3>1 DEF OneAtATime
    <3>3. sprints[q] \in 0..MaxWork
      BY DEF TypeOK
    <3> QED
      BY <3>1, <3>2, <3>3, MaxWorkTyped
  <2>3. Id(i) \notin attempted[q] /\ Id(i) \in Keys \X (1..MaxAttempts)
    <3>1. Id(i) \notin attempted[q] /\ i.attempt \in 1..MaxAttempts
      BY <2>1, <2>2 DEF CountsItsWork, ItemsAreDue, InRound
    <3>2. i.key \in Keys
      BY <2>1 DEF TypeOK, Item
    <3> QED
      BY <3>1, <3>2 DEF Id
  <2>4. ASSUME NEW j \in todo'[q]
        PROVE  Id(j) \notin attempted'[q]
    <3>1. j \in todo[q] /\ j # i
      BY <2>1
    <3>2. j.key # i.key
      BY <2>1, <2>2, <3>1 DEF OneAtATime, InRound
    <3>3. Id(j) \notin attempted[q]
      BY <2>2, <3>1 DEF CountsItsWork, InRound
    <3> QED
      BY <2>1, <3>2, <3>3 DEF Id
  <2>5. sprints[q] + Cardinality(item[q]) = Cardinality(attempted[q])
    BY <2>2 DEF CountsItsWork
  <2>6. Cardinality(item[q]) = 0 /\ Cardinality(item'[q]) = 1
    BY <2>1, <2>2, FS_EmptySet, FS_Singleton
  <2>7. Cardinality(attempted[q] \cup {Id(i)}) = Cardinality(attempted[q]) + 1
    BY <2>3, AttemptedFinite, FS_AddElement
  <2>8. sprints'[q] + Cardinality(item'[q]) = Cardinality(attempted'[q])
    BY <2>1, <2>2, <2>5, <2>6, <2>7
  <2>9. attempted'[q] \subseteq Keys \X (1..MaxAttempts)
    BY <2>1, <2>3 DEF CountsItsWork
  <2> QED
    BY <2>4, <2>8, <2>9 DEF CountsItsWork
<1>4. CASE SprintEnds(q)
  <2>1. /\ sup[q] = "working" /\ item'[q] = {} /\ sprints'[q] = Counted(sprints[q])
        /\ attempted'[q] = attempted[q] /\ todo'[q] = todo[q]
        /\ sprints[q] \in Nat
    BY <1>4 DEF SprintEnds, TypeOK
  <2>2. PICK i \in item[q] : item[q] = {i}
    BY <2>1 DEF OneAtATime
  <2>3. Cardinality(item[q]) = 1 /\ Cardinality(item'[q]) = 0
    BY <2>1, <2>2, FS_EmptySet, FS_Singleton
  <2>4. sprints[q] + Cardinality(item[q]) = Cardinality(attempted[q])
    BY <2>1 DEF CountsItsWork
  <2>5. sprints[q] < MaxWork
    BY <2>1, <2>3, <2>4, AttemptedFinite, MaxWorkTyped DEF MaxWork
  <2>6. sprints'[q] = sprints[q] + 1
    BY <2>1, <2>5 DEF Counted
  <2> QED
    BY <2>1, <2>3, <2>4, <2>6 DEF CountsItsWork, InRound
<1>5. CASE RoundEnds(q)
  <2>1. /\ sup[q] = "round" /\ sup'[q] \in {"top", "stopped"}
        /\ UNCHANGED <<item, attempted, sprints>>
    BY <1>5 DEF RoundEnds, TypeOK
  <2> QED
    BY <2>1 DEF CountsItsWork, InRound
<1>6. CASE Killed(q)
  <2>1. sup'[q] = "off" /\ attempted' = attempted
    BY <1>6 DEF Killed, loop, TypeOK
  <2> QED
    BY <2>1 DEF CountsItsWork, InRound
<1>7. CASE Stays(q)
  BY <1>7 DEF Stays, CountsItsWork, InRound
<1> QED
  BY <1>1, <1>2, <1>3, <1>4, <1>5, <1>6, <1>7, OthersStay

LEMMA SomewhereStep ==
  ASSUME BacklogInv, [Next]_vars, NEW q \in Sups
  PROVE  RoundGotSomewhere(q)'
<1> USE DEF BacklogInv
<1>1. CASE Start(q) \/ RoundEnds(q) \/ Killed(q)
  <2>1. sup'[q] \notin {"round", "working"}
    BY <1>1 DEF Start, RoundEnds, Killed, TypeOK
  <2> QED
    BY <2>1 DEF RoundGotSomewhere, InRound
<1>2. CASE Round(q)
  <2>1. sup'[q] \in {"round", "working"} => todo'[q] # {}
    BY <1>2 DEF Round, TypeOK
  <2> QED
    BY <2>1 DEF RoundGotSomewhere, InRound
<1>3. CASE TakeItem(q)
  <2>1. item'[q] # {}
    BY <1>3 DEF TakeItem, TypeOK
  <2> QED
    BY <2>1 DEF RoundGotSomewhere
<1>4. CASE SprintEnds(q)
  <2>1. PICK o \in Outcomes :
          /\ \E b \in {spent[q] \/ o.budget, TRUE} : spent' = [spent EXCEPT ![q] = b]
          /\ progressed' = [progressed EXCEPT ![q] = @ \/ ~o.budget]
    BY <1>4 DEF SprintEnds
  <2>2. o.budget \in BOOLEAN
    BY DEF Outcomes
  <2>3. (o.budget => spent'[q]) /\ (~o.budget => progressed'[q])
    BY <2>1, <2>2 DEF TypeOK
  <2> QED
    BY <2>2, <2>3 DEF RoundGotSomewhere
<1>5. CASE Stays(q)
  BY <1>5 DEF Stays, RoundGotSomewhere, InRound
<1> QED
  BY <1>1, <1>2, <1>3, <1>4, <1>5, OthersStay

(***************************************************************************)
(* A sprint starts with the ledger clear and beside no other, or all are   *)
(* known to have run beside one.                                           *)
(***************************************************************************)
LEMMA StartOwnsLedger ==
  ASSUME TypeOK, LedgerIsOwn, NEW p \in Procs, p \notin InSprint, SprintStarts(p),
         InSprint' = InSprint \cup {p}
  PROVE  LedgerIsOwn'
<1>1. ledger' = {} /\ gated' = gated \ {p}
  BY DEF SprintStarts, ClearLedger
<1>2. CASE InSprint = {}
  BY <1>1, <1>2 DEF LedgerIsOwn
<1>3. CASE InSprint # {}
  <2>1. InSprint' \subseteq crossed'
    BY <1>3 DEF SprintStarts
  <2> QED
    BY <2>1 DEF LedgerIsOwn
<1> QED
  BY <1>2, <1>3

LEMMA GateOwnsLedger ==
  ASSUME TypeOK, LedgerIsOwn, NEW p \in Procs, GateLogs(p)
  PROVE  LedgerIsOwn'
<1>1. /\ p \in InSprint /\ p \notin gated /\ ledger' = ledger \cup {p}
      /\ gated' = gated \cup {p} /\ crossed' = crossed /\ InSprint' = InSprint
  BY DEF GateLogs, InSprint
<1>2. ASSUME NEW q \in InSprint \ crossed
      PROVE  InSprint' = {q} /\ ledger' = IF q \in gated' THEN {q} ELSE {}
  <2>1. InSprint = {q} /\ q = p
    BY <1>1, <1>2 DEF LedgerIsOwn
  <2>2. ledger = {}
    BY <1>1, <1>2, <2>1 DEF LedgerIsOwn
  <2> QED
    BY <1>1, <2>1, <2>2
<1> QED
  BY <1>1, <1>2 DEF LedgerIsOwn

LEMMA LedgerStep ==
  ASSUME TypeOK, LedgerIsOwn, [Next]_vars
  PROVE  LedgerIsOwn'
<1>0. "human" \notin Sups
  BY BacklogAssumption
<1>1. ASSUME NEW p \in Sups, TakeItem(p)
      PROVE  LedgerIsOwn'
  <2>1. sup[p] = "round" /\ sup' = [sup EXCEPT ![p] = "working"] /\ human' = human
    BY <1>1 DEF TakeItem
  <2>2. p \notin InSprint /\ InSprint' = InSprint \cup {p}
    BY <1>0, <2>1 DEF InSprint, TypeOK
  <2> QED
    BY <1>1, <2>2, StartOwnsLedger DEF TakeItem, Procs
<1>2. CASE HumanStarts
  <2>1. "human" \notin InSprint /\ InSprint' = InSprint \cup {"human"}
    BY <1>0, <1>2 DEF HumanStarts, InSprint
  <2> QED
    BY <1>2, <2>1, StartOwnsLedger DEF HumanStarts, Procs
<1>3. ASSUME NEW p \in Procs, GateLogs(p)
      PROVE  LedgerIsOwn'
  BY <1>3, GateOwnsLedger
(* A step that starts no sprint leaves the ledger as it is. *)
<1>4. ASSUME UNCHANGED <<ledger, gated, crossed>>, InSprint' \subseteq InSprint
      PROVE  LedgerIsOwn'
  BY <1>4 DEF LedgerIsOwn
<1>5. ASSUME NEW p \in Sups,
             Start(p) \/ Round(p) \/ SprintEnds(p) \/ RoundEnds(p) \/ Killed(p)
      PROVE  LedgerIsOwn'
  <2>1. UNCHANGED <<ledger, gated, crossed, human>>
    BY <1>5 DEF Start, Round, SprintEnds, RoundEnds, Killed, notes
  <2>2. \A q \in Sups : sup'[q] = "working" => sup[q] = "working"
    BY <1>5 DEF Start, Round, SprintEnds, RoundEnds, Killed, TypeOK
  <2>3. InSprint' \subseteq InSprint
    BY <2>1, <2>2 DEF InSprint
  <2> QED
    BY <1>4, <2>1, <2>3
<1>6. CASE HumanEnds \/ HumanCrashes \/ UNCHANGED vars
  <2>1. UNCHANGED <<ledger, gated, crossed, sup>> /\ human' \in {{}, human}
    BY <1>6 DEF HumanEnds, HumanCrashes, vars, notes
  <2>2. InSprint' \subseteq InSprint
    BY <2>1 DEF InSprint
  <2> QED
    BY <1>4, <2>1, <2>2
<1> QED
  BY <1>1, <1>2, <1>3, <1>5, <1>6 DEF Next, Loop, Human, Idle, Procs

LEMMA InvHolds == Spec => []BacklogInv
<1>1. Init => BacklogInv
  BY InvInit
<1>2. ASSUME BacklogInv, [Next]_vars PROVE BacklogInv'
  <2>1. TypeOK' /\ HumanWasFirst' /\ HeldWithinBound' /\ LedgerIsOwn'
    BY <1>2, TypeStep, HumanFirstStep, BoundedStep, LedgerStep DEF BacklogInv
  <2>2. ASSUME NEW q \in Sups
        PROVE  /\ ItemsAreDue(q)' /\ OneAtATime(q)'
               /\ CountsItsWork(q)' /\ RoundGotSomewhere(q)'
    BY <1>2, ItemsStep, CountStep, SomewhereStep
  <2> QED
    BY <2>1, <2>2 DEF BacklogInv
<1> QED
  BY <1>1, <1>2, PTL DEF Spec

(***************************************************************************)
(* Of the loop's attempts at an item, those journalled with a judgement    *)
(* are one less than MaxAttempts, and one more for every supervisor beside *)
(* the first: with any number of supervisors one after the other or at a   *)
(* time, killed at any point, any number of humans' sprints beside them,   *)
(* and any records lost.                                                   *)
(***************************************************************************)
THEOREM LoopIsOneAttemptShort == Spec => []ReplaysBounded
<1>1. ASSUME BacklogInv PROVE ReplaysBounded
  <2> SUFFICES ASSUME NEW key \in Keys
               PROVE  Cardinality(Replays(key)) + 2
                        <= MaxAttempts + Cardinality(Sups)
    BY DEF ReplaysBounded
  <2>1. Cardinality(Replays(key)) \in Nat /\ Cardinality(Holders(key)) \in Nat
    BY <1>1, ReplaysFinite, HoldersFinite DEF BacklogInv
  <2>2. Cardinality(Replays(key)) + Cardinality(Holders(key)) + 2
          <= MaxAttempts + Cardinality(Sups)
    BY <1>1 DEF BacklogInv, HeldWithinBound
  <2> QED
    BY <2>1, <2>2, LimitsTyped
<1> QED
  BY <1>1, InvHolds, PTL

(***************************************************************************)
(* A process works an attempt at an item once, and every item at most      *)
(* MaxAttempts times, though the journal be written by no one, and other   *)
(* processes work the same items.                                          *)
(***************************************************************************)
THEOREM NothingIsWorkedTwice == Spec => []WorkedOnce
<1>1. ASSUME BacklogInv PROVE WorkedOnce
  <2> SUFFICES ASSUME NEW p \in Sups, sup[p] # "off"
               PROVE  /\ sprints[p] + Cardinality(item[p]) = Cardinality(attempted[p])
                      /\ sprints[p] <= Cardinality(Keys) * MaxAttempts
    BY DEF WorkedOnce
  <2>0. CountsItsWork(p) /\ OneAtATime(p) /\ TypeOK
    BY <1>1 DEF BacklogInv
  <2>1. sprints[p] + Cardinality(item[p]) = Cardinality(attempted[p])
    BY <2>0 DEF CountsItsWork
  <2>2. Cardinality(item[p]) \in Nat
    <3>1. CASE item[p] = {}
      BY <3>1, FS_EmptySet
    <3>2. CASE \E i \in item[p] : item[p] = {i}
      <4>1. PICK i \in item[p] : item[p] = {i}
        BY <3>2
      <4>2. Cardinality({i}) = 1
        BY FS_Singleton
      <4> QED
        BY <4>1, <4>2
    <3> QED
      BY <2>0, <3>1, <3>2 DEF OneAtATime
  <2>3. sprints[p] \in Nat
    <3>1. sprints[p] \in 0..MaxWork
      BY <2>0 DEF TypeOK
    <3> QED
      BY <3>1, MaxWorkTyped
  <2>4. /\ Cardinality(attempted[p]) \in Nat
        /\ Cardinality(attempted[p]) <= Cardinality(Keys) * MaxAttempts
    BY <2>0, AttemptedFinite
  <2> QED
    BY <2>1, <2>2, <2>3, <2>4, MaxWorkTyped
<1> QED
  BY <1>1, InvHolds, PTL

(* The step that stops a supervisor which has budget left. *)
StopsDone ==
  \A p \in Sups :
    sup[p] # "stopped" /\ sup'[p] = "stopped" /\ ~Breach(p) =>
      \A i \in Discover : Id(i) \in attempted[p]

(***************************************************************************)
(* A supervisor that stops with budget left has worked everything there    *)
(* was: a round without progress can only be one the budget stopped.       *)
(***************************************************************************)
THEOREM NobodyStarves == Spec => NoItemStarved
<1>1. ASSUME BacklogInv, [Next]_vars PROVE StopsDone
  <2> SUFFICES ASSUME NEW p \in Sups,
                      sup[p] # "stopped", sup'[p] = "stopped", ~Breach(p)
               PROVE  \A i \in Discover : Id(i) \in attempted[p]
    BY DEF StopsDone
  <2>0. TypeOK /\ OneAtATime(p) /\ RoundGotSomewhere(p)
    BY <1>1 DEF BacklogInv
  <2>1. Round(p) \/ RoundEnds(p)
    <3>1. ~Start(p) /\ ~TakeItem(p) /\ ~SprintEnds(p) /\ ~Killed(p) /\ ~Stays(p)
      BY <2>0 DEF Start, TakeItem, SprintEnds, Killed, Stays, TypeOK
    <3> QED
      BY <1>1, <2>0, <3>1, OthersStay
  <2>2. CASE Round(p)
    <3>1. Discover = {} \/ Fresh(p) = {}
      BY <2>0, <2>2 DEF Round, TypeOK
    <3> QED
      BY <3>1 DEF Fresh
  <2>3. CASE RoundEnds(p)
    <3>1. sup[p] = "round" /\ todo[p] = {} /\ ~progressed[p]
      BY <2>0, <2>3 DEF RoundEnds, TypeOK
    <3>2. item[p] = {}
      BY <2>0, <3>1 DEF OneAtATime
    <3>3. spent[p]
      BY <2>0, <3>1, <3>2 DEF RoundGotSomewhere, InRound
    <3> QED
      BY <3>3 DEF Breach
  <2> QED
    BY <2>1, <2>2, <2>3
<1> QED
  BY <1>1, InvHolds, PTL DEF Spec, NoItemStarved, StopsDone

(* The record of a sprint that no other ran beside. *)
RecordsItsOwn ==
  \A p \in InSprint \ InSprint', n \in DOMAIN journal' \ DOMAIN journal :
    p \notin crossed =>
      journal'[n].escalations =
        IF journal'[n].status = "ESCALATED" THEN {"own"} ELSE {}

LEMMA OwnLedgerRead ==
  ASSUME LedgerIsOwn, NEW p \in InSprint \ crossed
  PROVE  Escalations(p) = IF p \in gated THEN {"own"} ELSE {}
<1>1. ledger = IF p \in gated THEN {p} ELSE {}
  BY DEF LedgerIsOwn
<1> QED
  BY <1>1 DEF Escalations

(***************************************************************************)
(* A sprint that no other ran beside leaves in the journal what it         *)
(* escalated on, and nothing that another did.                             *)
(***************************************************************************)
THEOREM EscalationsAreItsOwn == Spec => OwnEscalations
<1>1. ASSUME BacklogInv, [Next]_vars PROVE RecordsItsOwn
  <2> SUFFICES ASSUME NEW p \in InSprint \ InSprint',
                      NEW n \in DOMAIN journal' \ DOMAIN journal, p \notin crossed
               PROVE  journal'[n].escalations =
                        IF journal'[n].status = "ESCALATED" THEN {"own"} ELSE {}
    BY DEF RecordsItsOwn
  <2>1. TypeOK /\ LedgerIsOwn
    BY <1>1 DEF BacklogInv
  <2>2. Escalations(p) = IF p \in gated THEN {"own"} ELSE {}
    BY <2>1, OwnLedgerRead
  <2>3. journal' # journal
    OBVIOUS
  <2>4. ASSUME NEW r \in Record, JournalGrows(r)
        PROVE  journal'[n] = r
    BY <2>1, <2>4, RecordsStay
  <2>5. ASSUME NEW q \in Sups, SprintEnds(q)
        PROVE  journal'[n].escalations =
                 IF journal'[n].status = "ESCALATED" THEN {"own"} ELSE {}
    <3>1. p = q
      <4>1. human' = human /\ \A x \in Sups : x # q => sup'[x] = sup[x]
        BY <2>1, <2>5 DEF SprintEnds, TypeOK
      <4> QED
        BY <4>1 DEF InSprint
    <3>2. PICK i \in item[q], r \in Record :
            /\ JournalGrows(r)
            /\ r.key = i.key /\ r.source = "escalation"
            /\ \/ r.status = "FAILED" /\ r.escalations = {}
               \/ /\ r.escalations = Escalations(q)
                  /\ q \in gated <=> r.status = "ESCALATED"
      BY <2>1, <2>3, <2>5, SprintEndsJournals
    <3> QED
      BY <2>2, <2>4, <3>1, <3>2
  <2>6. ASSUME HumanEnds
        PROVE  journal'[n].escalations =
                 IF journal'[n].status = "ESCALATED" THEN {"own"} ELSE {}
    <3>1. p = "human"
      BY <2>6 DEF HumanEnds, InSprint
    <3>2. PICK r \in Record :
            /\ JournalGrows(r)
            /\ r.source = "human" /\ r.escalations = Escalations("human")
            /\ "human" \in gated <=> r.status = "ESCALATED"
      BY <2>1, <2>3, <2>6, HumanEndsJournals
    <3> QED
      BY <2>2, <2>4, <3>1, <3>2
  <2> QED
    BY <1>1, <2>1, <2>3, <2>5, <2>6, JournalSteps
<1> QED
  BY <1>1, InvHolds, PTL DEF Spec, OwnEscalations, RecordsItsOwn
=============================================================================

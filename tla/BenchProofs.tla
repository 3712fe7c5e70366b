------------------------------ MODULE BenchProofs ------------------------------
(***************************************************************************)
(* Theorems of Bench, for any set of command lines, any suites of tasks,   *)
(* any numbers of repeats, and any edits and commits meanwhile.            *)
(***************************************************************************)
EXTENDS Bench, FiniteSetTheorems, SequenceTheorems, WellFoundedInduction, TLAPS

(***************************************************************************)
(* A set of numbers has a least one.                                       *)
(***************************************************************************)
LEMMA LeastOfSome ==
  ASSUME NEW S \in SUBSET Nat, S # {}
  PROVE  \E n \in S : \A m \in S : n <= m
<1>1. PICK n \in S : \A m \in S : <<m, n>> \notin OpToRel(<, Nat)
  BY NatLessThanWellFounded, WFMin
<1>2. \A m \in S : ~(m < n)
  BY <1>1 DEF OpToRel
<1> QED
  BY <1>2

(***************************************************************************)
(* What is appended to a sequence comes last, and what is taken comes      *)
(* first; the others stay in order.                                        *)
(***************************************************************************)
IsSeq(s) == s \in Seq({s[n] : n \in DOMAIN s})

LEMMA SeqOfSome ==
  ASSUME NEW S, NEW s \in Seq(S)
  PROVE  /\ IsSeq(s) /\ Len(s) \in Nat /\ DOMAIN s = 1..Len(s)
<1> DEFINE T == {s[n] : n \in DOMAIN s}
<1>1. Len(s) \in Nat /\ DOMAIN s = 1..Len(s)
  OBVIOUS
<1>2. s \in [1..Len(s) -> T]
  BY <1>1
<1>3. s \in Seq(T)
  BY <1>1, <1>2
<1> QED
  BY <1>1, <1>3 DEF IsSeq

LEMMA Appending ==
  ASSUME NEW s, NEW e, IsSeq(s)
  PROVE  /\ IsSeq(Append(s, e))
         /\ Len(s) \in Nat /\ DOMAIN s = 1..Len(s)
         /\ DOMAIN Append(s, e) = 1..(Len(s) + 1)
         /\ \A n \in DOMAIN s : Append(s, e)[n] = s[n]
         /\ Append(s, e)[Len(s) + 1] = e
         /\ Append(s, e) # s
<1> DEFINE T == {s[n] : n \in DOMAIN s}
           S == T \cup {e}
<1>1. s \in Seq(T)
  BY DEF IsSeq
<1> HIDE DEF T
<1>2. s \in Seq(S)
  <2>1. T \subseteq S
    OBVIOUS
  <2> HIDE DEF S
  <2> QED
    BY <1>1, <2>1, SeqMonotonic
<1>3. Append(s, e) \in Seq(S)
  BY <1>2
<1>4. /\ Len(s) \in Nat /\ DOMAIN s = 1..Len(s)
      /\ DOMAIN Append(s, e) = 1..(Len(s) + 1)
      /\ \A n \in DOMAIN s : Append(s, e)[n] = s[n]
      /\ Append(s, e)[Len(s) + 1] = e
  BY <1>2
<1>5. Append(s, e) # s
  <2>1. Len(s) + 1 \notin DOMAIN s /\ Len(s) + 1 \in DOMAIN Append(s, e)
    BY <1>4
  <2> QED
    BY <2>1
<1> QED
  BY <1>3, <1>4, <1>5, SeqOfSome

LEMMA Taking ==
  ASSUME NEW s, IsSeq(s), s # <<>>
  PROVE  /\ IsSeq(Tail(s)) /\ 1 \in DOMAIN s /\ Head(s) = s[1]
         /\ \A n \in DOMAIN Tail(s) : n + 1 \in DOMAIN s /\ Tail(s)[n] = s[n + 1]
<1> DEFINE S == {s[n] : n \in DOMAIN s}
<1>1. s \in Seq(S)
  BY DEF IsSeq
<1>2. Tail(s) \in Seq(S) /\ Head(s) = s[1] /\ 1 \in DOMAIN s
  BY <1>1
<1>3. \A n \in DOMAIN Tail(s) : n + 1 \in DOMAIN s /\ Tail(s)[n] = s[n + 1]
  BY <1>1
<1> QED
  BY <1>2, <1>3, SeqOfSome

-----------------------------------------------------------------------------
(***************************************************************************)
(* The invariant: while it measures, the benchmark has samples of every    *)
(* task of its command line; and what it keeps, to report or in the        *)
(* history, are runs whose rows say what their samples were.               *)
(***************************************************************************)
SampleSet == [passed : BOOLEAN, satisfied : BOOLEAN]

Measured(samples, tasks) ==
  DOMAIN samples = tasks /\ \A t \in tasks : samples[t] \in Seq(SampleSet)

Measuring == pc = "bench" => \E p \in plan : Measured(results, p.tasks)

RowIsTrue(row) ==
  /\ row.passes <= row.repeats
  /\ row.passed <=> row.passes = row.repeats
  /\ row.satisfied /\ ~row.passed => row.gamed

IsTrueRun(r) == IsRun(r) /\ \A t \in DOMAIN r.rows : RowIsTrue(r.rows[t])

KeepsTrueRuns(s) == IsSeq(s) /\ \A n \in DOMAIN s : IsTrueRun(s[n])

BenchInv ==
  /\ TypeOK /\ Measuring
  /\ KeepsTrueRuns(runs) /\ KeepsTrueRuns(history)

(***************************************************************************)
(* A row is true of its samples: it passed if none of them failed.         *)
(***************************************************************************)
LEMMA RowOfSamples ==
  ASSUME NEW samples \in Seq(SampleSet)
  PROVE  /\ RowOf(samples) \in Row
         /\ RowOf(samples).repeats = Len(samples)
         /\ RowIsTrue(RowOf(samples))
<1> DEFINE good == {n \in DOMAIN samples : samples[n].passed}
<1>1. /\ Len(samples) \in Nat /\ DOMAIN samples = 1..Len(samples)
      /\ \A n \in DOMAIN samples : samples[n] \in SampleSet
  OBVIOUS
<1>2. /\ IsFiniteSet(DOMAIN samples) /\ Cardinality(DOMAIN samples) = Len(samples)
  BY <1>1, FS_Interval
<1>3. good \subseteq DOMAIN samples
  OBVIOUS
<1>4. /\ Passes(samples) = Cardinality(good) /\ Passes(samples) \in Nat
      /\ Passes(samples) <= Len(samples)
      /\ Passes(samples) = Len(samples) => good = DOMAIN samples
  BY <1>2, <1>3, FS_Subset, FS_CardinalityType DEF Passes
<1> DEFINE full == Passes(samples) = Len(samples)
           all == \A n \in DOMAIN samples : samples[n].satisfied
           both == \E n \in DOMAIN samples : samples[n].satisfied /\ ~samples[n].passed
<1>5. RowOf(samples) = [passes |-> Passes(samples), repeats |-> Len(samples),
                        passed |-> full,
                        satisfied |-> all, gamed |-> both]
  BY DEF RowOf
<1>6. all /\ ~full => both
  <2> SUFFICES ASSUME all, ~full
               PROVE  both
    OBVIOUS
  <2>1. good # DOMAIN samples
    BY <1>2, <1>4
  <2>2. PICK n \in DOMAIN samples : ~samples[n].passed
    BY <2>1
  <2> QED
    BY <2>2
<1>7. full \in BOOLEAN /\ all \in BOOLEAN /\ both \in BOOLEAN
  OBVIOUS
<1>8. full <=> Passes(samples) = Len(samples)
  OBVIOUS
<1> HIDE DEF full, all, both
<1>9. RowOf(samples) \in Row
  BY <1>1, <1>4, <1>5, <1>7 DEF Row
<1>10. /\ RowOf(samples).repeats = Len(samples)
       /\ RowOf(samples).passes = Passes(samples)
       /\ RowOf(samples).passed = full
       /\ RowOf(samples).satisfied = all /\ RowOf(samples).gamed = both
  BY <1>5
<1> QED
  BY <1>4, <1>6, <1>8, <1>9, <1>10 DEF RowIsTrue

(***************************************************************************)
(* The repeats that are complete are no more than any task was measured    *)
(* in, so the cut leaves as many samples of each.                          *)
(***************************************************************************)
LEMMA CompleteOfAll ==
  ASSUME NEW tasks, tasks # {}, Measured(results, tasks)
  PROVE  /\ CompleteRepeats \in Nat
         /\ \A t \in tasks : CompleteRepeats <= Len(results[t])
<1> DEFINE lengths == {Len(results[t]) : t \in DOMAIN results}
<1>1. DOMAIN results = tasks /\ \A t \in tasks : Len(results[t]) \in Nat
  BY DEF Measured
<1>2. lengths \in SUBSET Nat /\ lengths # {}
  BY <1>1
<1>3. \E n \in lengths : \A t \in DOMAIN results : n <= Len(results[t])
  <2>1. PICK n \in lengths : \A m \in lengths : n <= m
    BY <1>2, LeastOfSome
  <2> QED
    BY <2>1
<1>4. /\ CompleteRepeats \in lengths
      /\ \A t \in DOMAIN results : CompleteRepeats <= Len(results[t])
  BY <1>3 DEF CompleteRepeats
<1> QED
  BY <1>1, <1>2, <1>4

LEMMA CutOfSamples ==
  ASSUME NEW tasks, tasks # {}, Measured(results, tasks)
  PROVE  /\ DOMAIN Cut(results) = tasks
         /\ \A t \in tasks : /\ Cut(results)[t] \in Seq(SampleSet)
                             /\ Len(Cut(results)[t]) = CompleteRepeats
<1> DEFINE n == CompleteRepeats
<1>1. n \in Nat /\ \A t \in tasks : n <= Len(results[t])
  BY CompleteOfAll
<1>2. DOMAIN Cut(results) = tasks
  BY DEF Cut, Measured
<1>3. ASSUME NEW t \in tasks
      PROVE  Cut(results)[t] \in Seq(SampleSet) /\ Len(Cut(results)[t]) = n
  <2>1. results[t] \in Seq(SampleSet) /\ t \in DOMAIN results
    BY DEF Measured
  <2>2. Cut(results)[t] = SubSeq(results[t], 1, n)
    BY <2>1 DEF Cut
  <2>3. \A i \in 1..n : results[t][i] \in SampleSet
    BY <1>1, <2>1
  <2> HIDE DEF n
  <2>4. /\ SubSeq(results[t], 1, n) \in Seq(SampleSet)
        /\ Len(SubSeq(results[t], 1, n)) = IF 1 <= n THEN n - 1 + 1 ELSE 0
    BY <1>1, <2>3, SubSeqProperties
  <2> QED
    BY <1>1, <2>2, <2>4
<1> QED
  BY <1>2, <1>3

LEMMA StampTyped ==
  ASSUME TypeOK, NEW arm
  PROVE  /\ Stamp \in [commit : Versions, dirty : BOOLEAN]
         /\ StampOf(arm) \in [commit : Versions, dirty : BOOLEAN]
         /\ FirstStamp(arm) \in [commit : Versions, dirty : BOOLEAN]
         /\ NoStamp \in [commit : Versions, dirty : BOOLEAN]
<1> DEFINE dirty == tree # head
<1>1. dirty \in BOOLEAN /\ head \in Versions
  BY DEF TypeOK
<1>2. Stamp = [commit |-> head, dirty |-> dirty]
  BY DEF Stamp
<1> HIDE DEF dirty
<1>3. Stamp \in [commit : Versions, dirty : BOOLEAN]
  BY <1>1, <1>2
<1>4. NoStamp \in [commit : Versions, dirty : BOOLEAN]
  BY BenchAssumption DEF NoStamp, Versions
<1> QED
  BY <1>3, <1>4 DEF StampOf, FirstStamp, TypeOK

LEMMA RecordedIsTrue ==
  ASSUME BenchInv, pc = "bench", NEW stamp \in [commit : Versions, dirty : BOOLEAN]
  PROVE  KeepsTrueRuns(Recorded(stamp))
<1>1. PICK p \in plan : Measured(results, p.tasks)
  BY DEF BenchInv, Measuring
<1>2. p.tasks # {}
  BY BenchAssumption DEF BenchInv, TypeOK
<1>3. CASE CompleteRepeats = 0
  BY <1>3 DEF Recorded, BenchInv
<1>4. CASE CompleteRepeats # 0
  <2> DEFINE n == CompleteRepeats
             rows == [t \in DOMAIN Cut(results) |-> RowOf(Cut(results)[t])]
             run == [subject |-> Head(left), repeat |-> n, rows |-> rows,
                     commit |-> stamp.commit, dirty |-> stamp.dirty, code |-> loaded]
  <2>1. Recorded(stamp) = Append(runs, run)
    BY <1>4 DEF Recorded, Aggregate
  <2>2. n \in Nat \ {0}
    BY <1>1, <1>2, <1>4, CompleteOfAll
  <2>3. \A t \in DOMAIN rows : /\ rows[t] \in Row /\ rows[t].repeats = n
                               /\ RowIsTrue(rows[t])
    BY <1>1, <1>2, CutOfSamples, RowOfSamples
  <2>4. stamp.commit \in Versions /\ stamp.dirty \in BOOLEAN /\ loaded \in Versions
    BY DEF BenchInv, TypeOK
  <2> HIDE DEF n, rows
  <2>5. IsTrueRun(run)
    BY <2>2, <2>3, <2>4 DEF IsTrueRun, IsRun
  <2> HIDE DEF run
  <2>6. KeepsTrueRuns(runs)
    BY DEF BenchInv
  <2>7. KeepsTrueRuns(Append(runs, run))
    BY <2>5, <2>6, Appending DEF KeepsTrueRuns
  <2> QED
    BY <2>1, <2>7
<1> QED
  BY <1>3, <1>4

(***************************************************************************)
(* The invariant holds at first, and no step disturbs it.                  *)
(***************************************************************************)
Scalars ==
  /\ tree \in Versions /\ head \in Versions /\ loaded \in Versions
  /\ pc \in {"idle", "bench", "report"}
  /\ plan \subseteq Plans
  /\ stamped \in [commit : Versions, dirty : BOOLEAN]
  /\ exitCode \in {0, 1} /\ slower \in BOOLEAN
  /\ benches \in Nat

LEMMA InvParts ==
  BenchInv <=> Scalars /\ Measuring /\ KeepsTrueRuns(runs) /\ KeepsTrueRuns(history)
  BY DEF BenchInv, TypeOK, Scalars, KeepsTrueRuns, IsTrueRun

LEMMA NothingKept == KeepsTrueRuns(<<>>)
<1>1. <<>> \in Seq({}) /\ DOMAIN <<>> = {}
  OBVIOUS
<1> QED
  BY <1>1, SeqOfSome DEF KeepsTrueRuns

LEMMA InvInit == Init => BenchInv
<1> SUFFICES ASSUME Init PROVE BenchInv
  OBVIOUS
<1>1. Scalars
  <2>1. stamped \in [commit : Versions, dirty : BOOLEAN]
    BY BenchAssumption DEF Init, NoStamp, Versions
  <2>2. tree \in Versions /\ head \in Versions /\ loaded \in Versions
    BY BenchAssumption DEF Init, Versions
  <2>3. slower \in BOOLEAN /\ plan \subseteq Plans
    BY Zenon DEF Init
  <2>4. pc \in {"idle", "bench", "report"} /\ exitCode \in {0, 1} /\ benches \in Nat
    BY DEF Init
  <2> QED
    BY <2>1, <2>2, <2>3, <2>4 DEF Scalars
<1>2. Measuring
  BY DEF Init, Measuring
<1>3. KeepsTrueRuns(runs) /\ KeepsTrueRuns(history)
  BY NothingKept DEF Init
<1> QED
  BY <1>1, <1>2, <1>3, InvParts

LEMMA NoSamplesMeasured == \A tasks : Measured(NoSamples(tasks), tasks)
  BY DEF NoSamples, Measured

LEMMA SampleMeasured ==
  ASSUME NEW tasks, Measured(results, tasks), NEW arm, NEW s \in Samples(arm)
  PROVE  Measured([results EXCEPT ![NextTask] = Append(@, s)], tasks)
<1> DEFINE next == NextTask
           more == [results EXCEPT ![next] = Append(@, s)]
<1>1. s \in SampleSet
  BY DEF Samples, SampleSet
<1>2. DOMAIN results = tasks /\ \A t \in tasks : results[t] \in Seq(SampleSet)
  BY DEF Measured
<1> HIDE DEF next
<1>3. DOMAIN more = tasks
  BY <1>2
<1>4. ASSUME NEW t \in tasks
      PROVE  more[t] \in Seq(SampleSet)
  BY <1>1, <1>2
<1> QED
  BY <1>3, <1>4 DEF Measured, next

LEMMA RunEnds ==
  ASSUME BenchInv, pc = "bench", NEW p \in plan, NEW stamp,
         stamp = StampOf(p.arm), runs' = Recorded(stamp)
  PROVE  KeepsTrueRuns(runs')
<1>1. stamp \in [commit : Versions, dirty : BOOLEAN]
  BY StampTyped DEF BenchInv
<1> QED
  BY <1>1, RecordedIsTrue

LEMMA InvStep ==
  ASSUME BenchInv, [Next]_vars
  PROVE  BenchInv'
<1>0. /\ Scalars /\ Measuring /\ KeepsTrueRuns(runs) /\ KeepsTrueRuns(history)
      /\ BenchInv' <=> /\ Scalars' /\ Measuring'
                      /\ KeepsTrueRuns(runs)' /\ KeepsTrueRuns(history)'
  BY InvParts, PTL
<1> USE <1>0 DEF repo, measure
<1>1. CASE Edit \/ Commit
  <2>1. /\ tree' \in Versions /\ head' \in Versions
        /\ UNCHANGED <<pc, plan, loaded, left, results, stamped, runs, history,
                       exitCode, slower, benches>>
    BY <1>1, BenchAssumption DEF Edit, Commit, Scalars, Versions
  <2> QED
    BY <2>1 DEF Scalars, Measuring
<1>2. CASE Start
  <2>1. PICK p \in Plans : /\ plan' = {p} /\ results' = NoSamples(p.tasks)
                           /\ stamped' = FirstStamp(p.arm)
    BY <1>2 DEF Start
  <2>2. Scalars'
    BY <1>2, <2>1, StampTyped DEF Start, Scalars, BenchInv
  <2>3. Measuring'
    BY <2>1, NoSamplesMeasured DEF Measuring
  <2> QED
    BY <1>2, <2>2, <2>3 DEF Start
<1>3. CASE Sample
  <2>1. pc = "bench" /\ UNCHANGED <<repo, pc, plan, loaded, left, stamped, runs,
                                    history, exitCode, slower, benches>>
    BY <1>3 DEF Sample
  <2>2. PICK p \in plan : \E s \in Samples(p.arm) :
          results' = [results EXCEPT ![NextTask] = Append(@, s)]
    BY <1>3 DEF Sample
  <2>3. \A tasks : Measured(results, tasks) => Measured(results', tasks)
    BY <2>2, SampleMeasured
  <2> QED
    BY <2>1, <2>3 DEF Scalars, Measuring
<1>4. CASE SubjectEnds
  <2>1. PICK p \in plan : /\ runs' = Recorded(StampOf(p.arm))
                          /\ results' = NoSamples(p.tasks)
                          /\ stamped' = FirstStamp(p.arm)
    BY <1>4 DEF SubjectEnds
  <2>2. KeepsTrueRuns(runs')
    BY <1>4, <2>1, RunEnds DEF SubjectEnds
  <2>3. Scalars'
    BY <1>4, <2>1, StampTyped DEF SubjectEnds, Scalars, BenchInv
  <2>4. Measuring'
    BY <1>4, <2>1, NoSamplesMeasured DEF SubjectEnds, Measuring
  <2> QED
    BY <1>4, <2>2, <2>3, <2>4 DEF SubjectEnds
<1>5. CASE BudgetExhausted
  <2>1. PICK p \in plan : /\ runs' = Recorded(StampOf(p.arm))
                          /\ results' = NoSamples(p.tasks)
    BY <1>5 DEF BudgetExhausted
  <2>2. KeepsTrueRuns(runs')
    BY <1>5, <2>1, RunEnds DEF BudgetExhausted
  <2> QED
    BY <1>5, <2>2 DEF BudgetExhausted, Scalars, Measuring
<1>6. CASE Report
  <2>1. /\ history' = Append(history, Head(runs)) /\ runs' = Tail(runs)
        /\ runs # <<>> /\ pc = "report"
        /\ UNCHANGED <<tree, head, pc, plan, loaded, left, results, stamped, benches>>
    BY <1>6 DEF Report
  <2>2. exitCode' \in {0, 1} /\ slower' \in BOOLEAN
    BY <1>6 DEF Report, SpeedRegressions, Scalars
  <2>3. KeepsTrueRuns(runs') /\ IsTrueRun(Head(runs))
    BY <2>1, Taking DEF KeepsTrueRuns
  <2>4. KeepsTrueRuns(history')
    BY <2>1, <2>3, Appending DEF KeepsTrueRuns
  <2> QED
    BY <2>1, <2>2, <2>3, <2>4 DEF Scalars, Measuring
<1>7. CASE ProcessEnds
  <2>1. /\ pc' = "idle" /\ loaded' = 0 /\ runs' = <<>>
        /\ stamped' = NoStamp /\ exitCode' = 0
        /\ UNCHANGED <<tree, head, history, benches>>
    BY <1>7 DEF ProcessEnds
  <2>2. plan' \subseteq Plans /\ slower' \in BOOLEAN
    BY <1>7, Zenon DEF ProcessEnds
  <2>3. 0 \in Versions
    BY BenchAssumption DEF Versions
  <2> QED
    BY <2>1, <2>2, <2>3, StampTyped, NothingKept DEF Scalars, Measuring, BenchInv
<1>8. CASE UNCHANGED vars
  BY <1>8 DEF vars, Scalars, Measuring
<1> QED
  BY <1>1, <1>2, <1>3, <1>4, <1>5, <1>6, <1>7, <1>8
  DEF Next, Exit, Interrupted, Done

LEMMA InvHolds == Spec => []BenchInv
  BY InvInit, InvStep, PTL DEF Spec

(***************************************************************************)
(* Every variable keeps its type; every run that is reported or recorded   *)
(* rests on as many samples of each task as it says, wherever the budget   *)
(* has ended it.                                                           *)
(***************************************************************************)
THEOREM BenchTypeCorrect == Spec => []TypeOK
<1>1. BenchInv => TypeOK
  BY DEF BenchInv
<1> QED
  BY <1>1, InvHolds, PTL

(***************************************************************************)
(* A row that reads "contract satisfied, hidden tests failed" is of a      *)
(* repeat that was both.                                                   *)
(***************************************************************************)
THEOREM GamedRowsAreGamed == Spec => []GamedRowIsGamed
<1>1. BenchInv => GamedRowIsGamed
  BY DEF BenchInv, KeepsTrueRuns, IsTrueRun, RowIsTrue, GamedRowIsGamed
<1> QED
  BY <1>1, InvHolds, PTL

-----------------------------------------------------------------------------
(***************************************************************************)
(* The baseline of a run is the last of its kind, and of the tasks both    *)
(* have, those that broke are those that passed then and do not now.       *)
(***************************************************************************)
LEMMA BaselineIsLast ==
  ASSUME KeepsTrueRuns(history), NEW run, NEW old
  PROVE  old \in BaselineFor(run)
           <=> \E n \in DOMAIN history : LastOfKind(n, run) /\ old = history[n]
<1>1. \A n : n \in Candidates(run) <=> n \in DOMAIN history /\ Kind(n, run)
  BY DEF Candidates, Kind
<1> QED
  BY <1>1 DEF BaselineFor, LastOfKind

LEMMA LastIsOne ==
  ASSUME KeepsTrueRuns(history), NEW run,
         NEW n \in DOMAIN history, NEW m \in DOMAIN history,
         LastOfKind(n, run), LastOfKind(m, run)
  PROVE  n = m
<1>1. n \in Nat /\ m \in Nat
  BY Appending DEF KeepsTrueRuns
<1>2. n <= m /\ m <= n
  BY DEF LastOfKind
<1> QED
  BY <1>1, <1>2

LEMMA BrokenIsRegression ==
  ASSUME NEW run, NEW old, IsTrueRun(run), IsTrueRun(old), old.repeat = run.repeat
  PROVE  QualityRegression(run, old) <=> \E t \in DOMAIN run.rows : Broke(t, old, run)
<1>1. ASSUME NEW t \in Shared(run, old)
      PROVE  Broke(t, old, run) <=> old.rows[t].passed /\ ~run.rows[t].passed
  <2>1. t \in DOMAIN run.rows /\ t \in DOMAIN old.rows
    BY DEF Shared
  <2>2. /\ run.rows[t].repeats = run.repeat /\ old.rows[t].repeats = run.repeat
        /\ run.rows[t].passes \in Nat /\ old.rows[t].passes \in Nat
        /\ run.repeat \in Nat
    BY <2>1 DEF IsTrueRun, IsRun, Row
  <2>3. /\ run.rows[t].passes <= run.repeat /\ old.rows[t].passes <= run.repeat
        /\ run.rows[t].passed <=> run.rows[t].passes = run.repeat
        /\ old.rows[t].passed <=> old.rows[t].passes = run.repeat
    BY <2>1, <2>2 DEF IsTrueRun, RowIsTrue
  <2> QED
    BY <2>2, <2>3 DEF Broke
<1>2. \A t : Broke(t, old, run) => t \in Shared(run, old)
  BY DEF Broke
<1>3. Shared(run, old) \subseteq DOMAIN run.rows
  BY DEF Shared
<1> QED
  BY <1>1, <1>2, <1>3 DEF QualityRegression

(* The step that records a run and compares it, speed aside. *)
ReportsWhatBroke ==
  history' # history /\ exitCode = 0 /\ ~slower' =>
    LET run == Head(runs) IN
    exitCode' = 1 <=>
      \E n \in DOMAIN history, t \in DOMAIN run.rows :
        LastOfKind(n, run) /\ Broke(t, history[n], run)

(***************************************************************************)
(* Speed aside, a run is reported as a regression exactly if it broke a    *)
(* task of the last run of its kind.                                       *)
(***************************************************************************)
THEOREM RegressionsAreReported == Spec => RegressionsAreExact
<1>1. ASSUME BenchInv, [Next]_vars PROVE ReportsWhatBroke
  <2> DEFINE run == Head(runs)
             broke == \E n \in DOMAIN history, t \in DOMAIN run.rows :
                        LastOfKind(n, run) /\ Broke(t, history[n], run)
  <2> SUFFICES ASSUME history' # history, exitCode = 0, ~slower'
               PROVE  exitCode' = 1 <=> broke
    BY DEF ReportsWhatBroke
  <2>1. Report
    BY <1>1 DEF Next, Edit, Commit, Start, Sample, SubjectEnds, BudgetExhausted, Exit,
                Interrupted, ProcessEnds, Done, vars
  <2>2. KeepsTrueRuns(history) /\ IsTrueRun(run)
    <3>1. KeepsTrueRuns(runs) /\ KeepsTrueRuns(history) /\ runs # <<>>
      BY <1>1, <2>1 DEF BenchInv, Report
    <3> QED
      BY <3>1, Taking DEF KeepsTrueRuns
  <2> HIDE DEF run
  <2>3. CASE BaselineFor(run) = {}
    <3>1. exitCode' = 0
      BY <2>1, <2>3 DEF Report, run
    <3>2. ~broke
      BY <2>2, <2>3, BaselineIsLast
    <3> QED
      BY <3>1, <3>2
  <2>4. CASE BaselineFor(run) # {}
    <3>1. PICK old \in BaselineFor(run) :
            exitCode' = IF QualityRegression(run, old) \/ slower' THEN 1 ELSE exitCode
      BY <2>1, <2>4 DEF Report, run
    <3>2. PICK n \in DOMAIN history : LastOfKind(n, run) /\ old = history[n]
      BY <2>2, BaselineIsLast
    <3>3. IsTrueRun(old) /\ old.repeat = run.repeat
      BY <2>2, <3>2 DEF KeepsTrueRuns, LastOfKind, Kind
    <3>4. exitCode' = 1 <=> QualityRegression(run, old)
      BY <3>1
    <3>5. broke <=> \E t \in DOMAIN run.rows : Broke(t, old, run)
      BY <2>2, <3>2, LastIsOne
    <3> QED
      BY <2>2, <3>3, <3>4, <3>5, BrokenIsRegression
  <2> QED
    BY <2>3, <2>4
<1> QED
  BY <1>1, InvHolds, PTL DEF Spec, RegressionsAreExact, ReportsWhatBroke
=============================================================================

---------------------------------- MODULE Bench ----------------------------------
(***************************************************************************)
(* The benchmark: scripts/bench.py runs a suite of tasks a number of       *)
(* times, collapses the repeats into one run, compares it with the last    *)
(* clean run of its kind and appends it to a history (bench/history.py).   *)
(*                                                                         *)
(* A sample is one task measured once (bench/runner.py): it passed its     *)
(* hidden tests or did not, and a sprint may satisfy a contract as well.   *)
(* The budget can end a sprint or a call of a hosted model at any point.   *)
(* Meanwhile an operator edits the tree the benchmark was started from,    *)
(* and commits.  A version of the code is a number; a commit is the        *)
(* version it holds.                                                       *)
(***************************************************************************)
EXTENDS Naturals, Sequences, FiniteSets

CONSTANTS
  Plans,        (* the command lines: [arm, subjects, repeat, tasks] *)
  MaxVersions,  (* bound: edits of the tree                      *)
  MaxBenches    (* bound: benchmarks started                     *)

(* A sprint is the one with --contract: without it no contract is satisfied. *)
Arms == {"sprint", "oneshot", "models"}

ASSUME BenchAssumption ==
  /\ \A p \in Plans : /\ DOMAIN p = {"arm", "subjects", "repeat", "tasks"}
                     /\ p.arm \in Arms /\ Len(p.subjects) > 0
                     /\ p.repeat \in Nat \ {0}
                     /\ p.tasks # {} /\ p.tasks \subseteq Nat /\ IsFiniteSet(p.tasks)
  /\ MaxVersions \in Nat /\ MaxBenches \in Nat

VARIABLES
  tree,      (* the version in the working tree                          *)
  head,      (* the version that is committed                            *)
  pc,        (* where the benchmark is                                   *)
  plan,      (* its command line: none or one                            *)
  loaded,    (* the version its modules were imported from               *)
  left,      (* the subjects it has yet to measure, the current one first *)
  results,   (* per task, the samples of the current subject             *)
  stamped,   (* what bench_models stamped the current subject with       *)
  runs,      (* the runs to report                                       *)
  history,   (* bench_history.jsonl                                      *)
  exitCode,  (* report's, which --check makes the exit status               *)
  slower,    (* the last run it reported was a speed regression          *)
  benches    (* benchmarks started                                       *)

repo == <<tree, head>>
measure == <<plan, loaded, left, results, stamped>>
vars == <<repo, pc, measure, runs, history, exitCode, slower, benches>>

NoStamp == [commit |-> 0, dirty |-> FALSE]

(* Run.stamp asks git when it is called. *)
Stamp == [commit |-> head, dirty |-> tree # head]

Init ==
  /\ tree = 0 /\ head = 0
  /\ pc = "idle" /\ plan = {} /\ loaded = 0
  /\ left = <<>> /\ results = <<>> /\ stamped = NoStamp
  /\ runs = <<>> /\ history = <<>>
  /\ exitCode = 0 /\ slower = FALSE
  /\ benches = 0

-----------------------------------------------------------------------------
(* The operator, at any time. *)

Edit ==
  /\ tree < MaxVersions
  /\ tree' = tree + 1
  /\ UNCHANGED <<head, pc, measure, runs, history, exitCode, slower, benches>>

Commit ==
  /\ tree # head
  /\ head' = tree
  /\ UNCHANGED <<tree, pc, measure, runs, history, exitCode, slower, benches>>

-----------------------------------------------------------------------------
(* bench_sprint, bench_oneshot and bench_models *)

NoSamples(tasks) == [t \in tasks |-> <<>>]

(* bench_models stamps a run before it measures, the other two when they
   aggregate. *)
FirstStamp(arm) == IF arm = "models" THEN Stamp ELSE NoStamp

Start ==
  /\ pc = "idle" /\ benches < MaxBenches
  /\ \E p \in Plans :
       /\ plan' = {p}
       /\ left' = p.subjects
       /\ results' = NoSamples(p.tasks)
       /\ stamped' = FirstStamp(p.arm)
  /\ pc' = "bench"
  /\ loaded' = tree
  /\ benches' = benches + 1
  /\ UNCHANGED <<repo, runs, history, exitCode, slower>>

(* The repeats every task has been measured in. *)
CompleteRepeats ==
  CHOOSE n \in {Len(results[t]) : t \in DOMAIN results} :
    \A t \in DOMAIN results : n <= Len(results[t])

(* The next task of the current repeat, in the order of the suite. *)
NextTask ==
  CHOOSE t \in DOMAIN results :
    /\ Len(results[t]) = CompleteRepeats
    /\ \A u \in DOMAIN results : Len(results[u]) = CompleteRepeats => t <= u

(* Only a sprint with a contract can satisfy one. *)
Samples(arm) ==
  [passed : BOOLEAN, satisfied : IF arm = "sprint" THEN BOOLEAN ELSE {FALSE}]

Sample ==
  /\ pc = "bench"
  /\ \E p \in plan :
       /\ CompleteRepeats < p.repeat
       /\ \E s \in Samples(p.arm) :
            results' = [results EXCEPT ![NextTask] = Append(@, s)]
  /\ UNCHANGED <<repo, pc, plan, loaded, left, stamped, runs, history, exitCode,
                 slower, benches>>

Passes(samples) == Cardinality({n \in DOMAIN samples : samples[n].passed})

(* Mutant: a contract satisfied in one repeat is satisfied. *)
RowOfAny(samples) ==
  LET passes == Passes(samples) IN
  [passes |-> passes, repeats |-> Len(samples),
   passed |-> passes = Len(samples),
   satisfied |-> \E n \in DOMAIN samples : samples[n].satisfied,
   gamed |-> \E n \in DOMAIN samples : samples[n].satisfied /\ ~samples[n].passed]

(* Mutant: one pass is enough. *)
RowOfLucky(samples) ==
  LET passes == Passes(samples) IN
  [passes |-> passes, repeats |-> Len(samples),
   passed |-> passes > 0,
   satisfied |-> \A n \in DOMAIN samples : samples[n].satisfied,
   gamed |-> \E n \in DOMAIN samples : samples[n].satisfied /\ ~samples[n].passed]

(***************************************************************************)
(* A task passed if it passed every repeat, and its contract held if it    *)
(* held in every repeat.  gamed is history: a contract held in a repeat    *)
(* that failed, the case the benchmark warns of as it happens.             *)
(***************************************************************************)
RowOf(samples) ==
  LET passes == Passes(samples) IN
  [passes |-> passes, repeats |-> Len(samples),
   passed |-> passes = Len(samples),
   satisfied |-> \A n \in DOMAIN samples : samples[n].satisfied,
   gamed |-> \E n \in DOMAIN samples : samples[n].satisfied /\ ~samples[n].passed]

(* The run of the current subject, over its first n repeats; code is
   history: the version that was measured. *)
Aggregate(samples, n, stamp) ==
  [subject |-> Head(left), repeat |-> n,
   rows |-> [t \in DOMAIN samples |-> RowOf(samples[t])],
   commit |-> stamp.commit, dirty |-> stamp.dirty, code |-> loaded]

StampOf(arm) == IF arm = "models" THEN stamped ELSE Stamp

(* Mutant: what the interrupted repeat has measured is kept. *)
KeepAll(samples) == samples

(* The samples of the repeats that are complete. *)
Cut(samples) == [t \in DOMAIN samples |-> SubSeq(samples[t], 1, CompleteRepeats)]

(* A run of the repeats that are complete is reported; without one, none. *)
Recorded(stamp) ==
  IF CompleteRepeats = 0 THEN runs
  ELSE Append(runs, Aggregate(Cut(results), CompleteRepeats, stamp))

(* Every repeat is done, and the next subject's turn. *)
SubjectEnds ==
  /\ pc = "bench"
  /\ \E p \in plan :
       /\ CompleteRepeats = p.repeat
       /\ runs' = Recorded(StampOf(p.arm))
       /\ results' = NoSamples(p.tasks)
       /\ stamped' = FirstStamp(p.arm)
  /\ left' = Tail(left)
  /\ pc' = IF Len(left) = 1 THEN "report" ELSE "bench"
  /\ UNCHANGED <<repo, plan, loaded, history, exitCode, slower, benches>>

(* A model call is refused: the repeat it was in is discarded, and the
   remaining subjects are not measured. *)
BudgetExhausted ==
  /\ pc = "bench"
  /\ \E p \in plan :
       /\ p.arm # "models" /\ CompleteRepeats < p.repeat
       /\ runs' = Recorded(StampOf(p.arm))
       /\ results' = NoSamples(p.tasks)
  /\ left' = <<>> /\ pc' = "report"
  /\ UNCHANGED <<repo, plan, loaded, stamped, history, exitCode, slower,
                 benches>>

-----------------------------------------------------------------------------
(* report, and bench/history.py *)

(* Mutant: any run of the subject will do. *)
CandidatesOfAnyRepeat(run) ==
  {n \in DOMAIN history : history[n].subject = run.subject /\ ~history[n].dirty}

(* Mutant: so will a run of a dirty tree. *)
CandidatesDirty(run) ==
  {n \in DOMAIN history :
     history[n].subject = run.subject /\ history[n].repeat = run.repeat}

(* Runs of one process are stamped in the order they are recorded, so the
   runs in the history are the earlier ones; each has a task. *)
Candidates(run) ==
  {n \in DOMAIN history :
     /\ history[n].subject = run.subject
     /\ history[n].repeat = run.repeat
     /\ ~history[n].dirty}

(* baseline_for: none, or the candidate recorded last. *)
BaselineFor(run) ==
  {history[n] : n \in {m \in Candidates(run) : \A k \in Candidates(run) : k <= m}}

Shared(run, old) == DOMAIN run.rows \cap DOMAIN old.rows

Passed(run) == Cardinality({t \in DOMAIN run.rows : run.rows[t].passed})

(* Mutant: fewer tasks passed. *)
CountRegression(run, old) == Passed(run) < Passed(old)

(* compare, by the names of the tasks both runs have. *)
QualityRegression(run, old) ==
  \E t \in Shared(run, old) : old.rows[t].passed /\ ~run.rows[t].passed

(* Wall time is compared over the shared tasks; without one the ratio is 1. *)
SpeedRegressions(run, old) == IF Shared(run, old) = {} THEN {FALSE} ELSE BOOLEAN

Report ==
  /\ pc = "report" /\ runs # <<>>
  /\ LET run == Head(runs) IN
     /\ \/ /\ BaselineFor(run) = {}
           /\ slower' = FALSE
           /\ UNCHANGED exitCode
        \/ \E old \in BaselineFor(run) :
             /\ slower' \in SpeedRegressions(run, old)
             /\ exitCode' = IF QualityRegression(run, old) \/ slower' THEN 1
                            ELSE exitCode
     /\ history' = Append(history, run)
  /\ runs' = Tail(runs)
  /\ UNCHANGED <<repo, pc, measure, benches>>

ProcessEnds ==
  /\ pc' = "idle" /\ plan' = {} /\ loaded' = 0
  /\ left' = <<>> /\ results' = <<>> /\ stamped' = NoStamp
  /\ runs' = <<>> /\ exitCode' = 0 /\ slower' = FALSE
  /\ UNCHANGED <<repo, history, benches>>

Exit == pc = "report" /\ runs = <<>> /\ ProcessEnds

(* Ctrl-C, or any exception but the budget's, loses what is not recorded. *)
Interrupted == (pc = "bench" \/ runs # <<>>) /\ ProcessEnds

Done ==
  /\ pc = "idle" /\ benches = MaxBenches /\ tree = MaxVersions /\ head = tree
  /\ UNCHANGED vars

Next ==
  \/ Edit \/ Commit \/ Start \/ Sample \/ SubjectEnds \/ BudgetExhausted
  \/ Report \/ Exit \/ Interrupted \/ Done

Spec == Init /\ [][Next]_vars

-----------------------------------------------------------------------------
Versions == 0 .. MaxVersions
Row == [passes : Nat, repeats : Nat, passed : BOOLEAN, satisfied : BOOLEAN,
        gamed : BOOLEAN]

(* Every run rests on as many samples of each task as it says it repeats,
   wherever the budget has ended it. *)
IsRun(r) ==
  /\ DOMAIN r = {"subject", "repeat", "rows", "commit", "dirty", "code"}
  /\ r.repeat \in Nat \ {0}
  /\ \A t \in DOMAIN r.rows : r.rows[t] \in Row /\ r.rows[t].repeats = r.repeat
  /\ r.commit \in Versions /\ r.dirty \in BOOLEAN /\ r.code \in Versions

(* Every variable keeps its type; a run's samples are even. *)
TypeOK ==
  /\ tree \in Versions /\ head \in Versions /\ loaded \in Versions
  /\ pc \in {"idle", "bench", "report"}
  /\ plan \subseteq Plans
  /\ stamped \in [commit : Versions, dirty : BOOLEAN]
  /\ \A n \in DOMAIN runs : IsRun(runs[n])
  /\ \A n \in DOMAIN history : IsRun(history[n])
  /\ exitCode \in {0, 1} /\ slower \in BOOLEAN
  /\ benches \in Nat

(***************************************************************************)
(* A recorded row that reads "contract satisfied, hidden tests failed" is  *)
(* never put together from two repeats: one repeat was both.               *)
(***************************************************************************)
GamedRowIsGamed ==
  \A n \in DOMAIN history : \A t \in DOMAIN history[n].rows :
    LET row == history[n].rows[t] IN row.satisfied /\ ~row.passed => row.gamed

(***************************************************************************)
(* Speed aside, a run is reported as a regression exactly if a task that   *)
(* passed every repeat of the last run of its kind from a clean tree has   *)
(* failed one of as many repeats now: neither a change of the suite, nor   *)
(* a flaky task, nor a run the budget cut short makes one up, and no run   *)
(* of a dirty tree hides one.                                              *)
(***************************************************************************)
Kind(n, run) ==
  history[n].subject = run.subject /\ history[n].repeat = run.repeat /\ ~history[n].dirty

LastOfKind(n, run) == Kind(n, run) /\ \A m \in DOMAIN history : Kind(m, run) => m <= n

Broke(t, old, run) ==
  /\ t \in Shared(run, old)
  /\ old.rows[t].passes = run.repeat /\ run.rows[t].passes < run.repeat

RegressionsAreExact ==
  [][history' # history /\ exitCode = 0 /\ ~slower' =>
       LET run == Head(runs) IN
       exitCode' = 1 <=>
         \E n \in DOMAIN history, t \in DOMAIN run.rows :
           LastOfKind(n, run) /\ Broke(t, history[n], run)]_vars

-----------------------------------------------------------------------------
(***************************************************************************)
(* bench.py: "Every run is recorded against the current git commit, so a   *)
(* regression can be traced to the change that caused it", and a run of    *)
(* uncommitted code is never a baseline.  A run that is recorded as clean  *)
(* measured the commit it names.                                           *)
(***************************************************************************)
CleanRunsMeasuredTheirCommit ==
  \A n \in DOMAIN history : ~history[n].dirty => history[n].code = history[n].commit
=============================================================================

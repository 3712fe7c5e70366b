# A verification model of multi_hive

TLA+ modules, TLC configurations and TLAPS proofs kept beside
`src/multi_hive`. They model the control of the system: the graph a sprint
runs through, the sharing of stdin between the REPL and a sprint, the journal
and the loop that finds work in it, the budget, the process generated code runs
in, the cache of model clients, and the benchmark with its history. Paths below
are relative to `src/src/multi_hive` unless they say otherwise.

Quick start, in this directory:

    tlc -workers 2 -config HiveSprint.cfg MCHiveSprint
    tlapm GovernorProofs.tla

## 1. The system

A human (or the supervisor) hands an *objective* to `cli.run_sprint`. It runs
a LangGraph graph: a planner and a ticket writer turn the objective into a
queue of tickets, one per file; for each ticket an editor asks a model for
code, a reviewer runs it in a sandbox, a semantic reviewer asks a model
whether it is the right program. Failures go back to the editor, up to a cap;
what cannot be fixed goes to a human gate. The sprint ends with `LOOP.md` and
a record in `journal.jsonl`. The supervisor reads the journal, finds the
objectives that escalated, and replays them on the strong model, under the
ceilings of a governor that meters each model call.

### Inventory

| component | state it keeps | operations | who it talks to |
|---|---|---|---|
| sprint graph: `orchestrator.py`, `nodes/execution/*`, `state.py` | `HiveState`: task, queue, code per file, error, retries, loop health, contract verdict, tier, sticky escalation flag | one per node; two conditional edges | models, sandbox, rejection ledger, stdin event |
| model routing: `core/model_router.py` | none | `select_tier`, `select_plan_tier`, `classify_complexity` | called by nodes |
| ticket writer's parsing: `nodes/execution/ticket_writer.py` | none | extract, legalise, collapse | |
| reviewer's sandbox: `reviewer_node.py`, `core/platform.py`, the grader in `bench/suite.py` | a process tree, a Job Object on Windows | start, confine, wait, time out, kill the tree, drain, release | operating system |
| sprint driver and REPL: `cli.py` | the deltas seen, the broker's queue, the gate event, an acknowledgement task | `run_sprint`, `StdinBroker`, `_acknowledge_on_input`, `main` | graph, journal, governor |
| journal: `core/journal.py` | `journal.jsonl`, shared by processes | append, read, count attempts, resolved? | supervisor, discovery, digest |
| discovery: `discovery.py` | none (reads the journal) | `discover`, `parked` | supervisor, digest |
| supervisor: `supervisor.py` | `attempted`, the round's items | `run`, `_work`, `digest` | discovery, run_sprint, governor |
| governor: `core/governor.py` | `Spend`, the ceilings | check, record, snapshot, breach | every model call, supervisor, run_sprint |
| contracts: `contract.py` | none | parse an objective, choose the contract of a file, render a harness | cli, editor, reviewer |
| model client cache: `core/llm_factory.py` | two dictionaries of clients, one keyed to an event loop | get, invalidate | every node that calls a model, the benchmark |
| workspace files: `core/utils.py`, `core/ast_utils.py` | the file system | `safe_path`, `flush_file`, outlines | nodes |
| rejection ledger: `core/memory.py` | a file, cleared per sprint, shared by processes | append, read recent, escalations | nodes, prompts, cli |
| audit and metrics: `core/loop_audit.py`, `core/metrics.py` | `LOOP.md`, counters | write | retrospector, cli |
| prompts, console, configuration | constants | | |
| benchmark: `bench/*`, `scripts/bench.py` | samples, runs, `bench_history.jsonl` | measure, aggregate, compare, record | graph, models, git |

### What is hard, and what must hold

* **Termination of a sprint.** Retries, fingerprints and escalation flags are
  raised and reset by different nodes. The comments record loops of 10,007
  and 992 iterations. Must hold: a bound on supersteps and on generations.
* **What a report means.** Escalation is per ticket and the flag is reset by
  the next ticket; the CLI keeps what the deltas said, the retrospector reads
  the state; the budget, or an exception, can unwind in mid-node. Must hold:
  reports agree, an escalation is never hidden, CLEAN means that everything
  passed.
* **Staleness.** Code, error and contract verdict a node reads may come from
  an earlier attempt. Must hold: what is retired has run.
* **Concurrency at the terminal.** A thread, two consumers, a timer and an
  event. Must hold: no line lost, one acknowledgement per gate, no wait for ever.
* **An unreliable journal.** Several processes append, two of them perhaps
  supervisors, writes fail, tear, are lost in crashes, and the supervisor's
  termination may not depend on them. Must hold: the loop ends, nothing starves,
  nothing vanishes, the replays that are journalled are bounded.
* **A budget checked before and charged after.** Must hold: bounded overshoot,
  failing closed, complete accounting.
* **Code that does what it likes.** It exits with any status at any time, never
  ends, or leaves processes that hold its output pipe. Must hold: the review
  returns, a timeout takes the process tree with it, a pass is earned.
* **Clients that outlive their event loop or their backend.** Must hold: no node
  is handed a dead one.
* **Numbers compared across runs.** Tasks are flaky, suites grow, the budget
  ends a run early, the tree changes meanwhile. Must hold: a regression is one.

The complete list, each at its line, is under `hazards` in `PROJECT.json`.

## 2. The modules

| module | what it models | its proofs |
|---|---|---|
| `SprintLedger` | abstract: what a sprint promises about its tickets | `SprintLedgerProofs` |
| `HiveSprint`, `MCHiveSprint` | the graph, what `run_sprint` keeps of it and reports, the budget's interruption, crashes | `HiveSprintProofs` |
| `StdinGate` | broker, REPL prompt, acknowledgement task, the gate's wait | `StdinGateProofs` |
| `Backlog` | journal, discovery, supervisors, rejection ledger; a human in another process | `BacklogProofs` |
| `Governor`, `MCGovernor` | ceilings, meter, brackets around a sprint | `GovernorProofs` |
| `Sandbox` | one run of generated code, its descendants, and the caller's verdict | `SandboxProofs` |
| `LlmCache` | the clients of models, the loops they are bound to, the calls on them | `LlmCacheProofs` |
| `Bench`, `MCBench` | a benchmark, its history and the tree it measures | `BenchProofs` |

The modules meet where one leaves something open and another closes it. A gate
in `HiveSprint` is one step; `StdinGate` has the wait inside it, in a sprint
of which only gates are left. A sprint in `Backlog` is a status, whether the
budget stopped it, or a crash: the outcomes `HiveSprint` can reach. The budget
in `HiveSprint` and `Backlog` may strike at any model call or between sprints;
`Governor` says when it does. What `HiveSprint` takes for a verdict of the
sandbox is what `Sandbox` ends with, and a call that fails in it is one of
`LlmCache`'s. A sample of `Bench` is a sprint or a call with a grade from
`Sandbox`.

### HiveSprint

One action per node, or per exit of a node (`EditorIdles`,
`EditorEscalates`, `EditorWrites`, `EditorFails`, ...), because LangGraph runs
one node at a time and applies its delta as a whole. `pc` is the node to run
next, `steps` LangGraph's superstep count. Any node may raise instead
(`Crashes`; `MayRaise` says which can, the driver's own end included): the
sprint is lost without a record. Variables have the names of
`HiveState`'s fields. `ReviewerLogic`, `GateLogic` and `SelectTier` are the
functions of those names.

`final` is what `run_sprint` itself remembers: `cli.py:221-226` and `249-260`
look at each delta as it passes and keep the last error, the last escalation
flag, and whether any delta had the sticky flag. `Sees(fields)` is that, and
every node names the fields its delta has; a field a node leaves out changes
nothing in `final`, though it is in the state. The journal's status
(`JournalStatus`) is computed from `final`, the heading of `LOOP.md`
(`LoopMdStatus`) from the state, so the two can part: a node that changes the
state without saying so, or a sticky flag forgotten, breaks `ReportsAgree`.

Abstractions: a ticket is its file and whether its text is blank; an error is
the node it came from and a fingerprint; code is `works`, `crashes` or
`syntax`; a model's answer is any member of those sets. `Transient` lets
working code fail a review (a loaded machine, the sandbox's timeout, flaky
tests); `MuteExceptions` lets an exception have an empty text, which the
readers of `editor_error` take for no error. Five variables are history, never
read by an action (`planned`, `retired`, `gate_log`, `tries`, `reviewed`).

`HiveSprint` implements `SprintLedger` under the mapping at the end of the
module: open tickets are the current task and the queue, passed tickets those
the semantic reviewer retired, skipped ones those the gate logged. A blank
ticket is an exception the code makes: every node takes it for no task, and the
tickets from there on are abandoned, under a report that may be CLEAN. The
ledger has a step for that, and `Accounted` and `CleanMeansPassed` are stated
for plans without one. `recursion_limit` is chosen when the sprint starts, from
`RecursionLimits`.

### StdinGate

One action per stretch of a coroutine between two awaits. The pump thread, the
operator and the timer interleave with them. `driver` is the way the program
was started (REPL, `--objective`, `--loop`); the last two never read a prompt.
The timer of a gate may fire whether or not the event is set in the same turn
of the event loop. A sprint ends in three steps: the acknowledgement task is
cancelled (`SprintCancels`), dies when the loop runs it again (`AckDies`), and
is waited for (`SprintEnds`). The operator and the pump thread go on in between;
a line that comes then stays in the queue for the prompt.

### Backlog

`journal` holds the records a reader of the file finds, `torn` whether the
file ends in half a line. `RecordSprint` appends, or fails, or tears; an
append to a torn line is lost with it. `Round`, `TakeItem`, `SprintEnds` and
`RoundEnds` are the stretches of `supervisor.run`, each of one process of
`Sups`: there is no lock, so a second `--loop` may be started beside the first,
and discover and work the same item. Between any two steps a human's sprint may
start, escalate, be journalled or crash in another process, and a supervisor may
be killed and another started, without its memory. Keys are numbers because
discovery sorts by key.

`ledger` is the file of rejections, reduced to whose escalations it holds: a
sprint empties it when it starts (`SprintStarts`), a gate adds to it
(`GateLogs`), and a record takes what it finds there (`Escalations`). It is one
file for all processes of a workspace, so two sprints side by side, a human's
and a supervisor's or two supervisors', empty it under each other; `crossed` is
the history of which sprints ran side by side, and `OwnEscalations` is about
the others.

### Governor

`CallStarts` is the callback before a call, `CallRecorded`, `CallUnmetered` and
`CallRaises` its three ends. A response may give one of its two token counts
only: what is recorded is then any part of the cost (`Readable`), and the call
does not count as unmetered. Two variables are history: `billed` is what the
provider charges for the calls that return, metered or not, and `untold` what
such responses have left out of it.

Two brackets are open around a sprint of the supervisor: `_work` takes its
snapshot before it calls `run_sprint` (`SprintBegins`, `workMark`), `run_sprint`
takes its own once its setup is done (`BracketOpens`, `mark`). A sprint that
reports is booked by the inner one (`SprintReports`), a sprint that raises, in
the setup or later, by the outer one (`SprintCrashes`); each call of the model
must be in exactly one of the records. What follows the record in `run_sprint`
(`cli.py:352-375`, prints) is taken not to raise: the outer bracket would then
book the sprint a second time. `SprintBegins` is guarded by the ceilings, as the
supervisor does it. Several callers may be in flight; the graph as wired has one
at a time, the governor is written for more.

### Sandbox

One run: the caller spawns the child, confines it (`Confine`, Windows only, and
it may fail), waits in `communicate()`, and either gets its output
(`CommunicateReturns`) or times out, kills (`KillTree`) and drains, with a
bound of five seconds in the reviewer. `Returns` drops the job's handle and
makes the verdict. Meanwhile the child and its descendants start processes,
leave the process group, close the pipe, and end, in any order. The three
callers are a review with a contract, one without, and the benchmark's grader,
which uses `subprocess.run` and so has neither group nor job. `timedOut` tells
apart a child that was still running from one that had ended with its pipe
held; the code does not. The contract's marker is looked for in what is kept of
the output: whoever holds the pipe may print without end (`Floods`), and
`_bounded` keeps the two ends, so that the marker is lost only with too much on
both sides of it (`MarkerIsKept`).

### LlmCache

`sync` and `async` are the two dictionaries. A client is its place in
`clients`, with the loop its connections are bound to and the kind of call that
last failed on it: on a closed loop's connections or a crashed backend's,
nothing answers. The steps of two callers interleave, so one may hold a client
while the other fails on it and drops it. Only calls of kind "node" (the editor
and the semantic reviewer) drop what they failed on.

### Bench

`Start` to `Exit` is a run of `scripts/bench.py` on one of three arms. A
subject is measured task by task and repeat by repeat (`Sample`), collapsed
(`SubjectEnds`, or `BudgetExhausted` with the repeats that are complete),
compared with its baseline and appended to `history` (`Report`). An operator
edits and commits at any time; a version is a number, `loaded` the one the
process imported. Two pieces are history: `gamed` of a row and `code` of a run.

## 3. What the runs show

| run | module, configuration | instance | checks |
|---|---|---|---|
| `sprint` | `MCHiveSprint`, `HiveSprint.cfg` | two files, up to two tickets, blank ones among them, easy tasks and hard ones with a UI, two fingerprints, three retries, both floors, every set of contracts, recursion limits of 10 and 25 | termination bound, generations bounded, retired code ran, `LOOP.md` and journal agree and hide nothing, CLEAN means passed, breaker and tiers, `SprintEnds`, the sprint implements the ledger |
| `gate` | `StdinGate`, `StdinGate.cfg` | three lines, two sprints, two gates each, three drivers | no line lost, acknowledgements earned, the prompt owns its input from the cancellation on, gates and the REPL end |
| `backlog` | `Backlog`, `Backlog.cfg` | two items, two attempts, a supervisor that may be killed and started again, two human sprints, no ceiling, a journal of four records at most | nothing vanishes, out of rungs means escalated, worked once, no starvation, journalled replays bounded, a record has its own escalations, the loop ends |
| `governor` | `MCGovernor`, `Governor.cfg` | two callers, calls of cost 0 to 2, seven calls, two sprints, five sets of ceilings, usage whole, in part or absent | bounded overshoot, fails closed, the journal accounts across both brackets |
| `sandbox` | `Sandbox`, `Sandbox.cfg` | two descendants, both platforms, three callers, exit statuses 0, 3 and 124 | nobody outlives a timeout, a verdict is earned, the review returns |
| `clients` | `LlmCache`, `LlmCache.cfg` | two callers, two purposes, two tiers, two event loops, three clients | a node is handed a usable client |
| `bench` | `MCBench`, `Bench.cfg` | three benchmarks out of four command lines, one edit | rows are even, a gamed row is one, a regression is one |

Five more runs end with a counterexample on purpose: section 4.

Bounds and why they suffice. Two tickets are the least for anything that is
carried from one to the next; three retries are the default and the least for a
first failure, a tier change and a repeat. Two fingerprints tell a repeated
error from a new one. Of the two recursion limits 25 is `MaxSteps`, so a sprint
just fits in it, and 10 is one that sprints hit. Code with a syntax error is
left out of the run: a review fails on it as it does on code that crashes, the
compile check of a UI task aside. Exceptions without text are left to
`silent_loop`, where they do harm; what else `sprint` checks is proved with
them. In `StdinGate` two gates are the least for an acknowledgement used twice,
two sprints for one that crosses a sprint. In `Backlog` two items are the least
for starvation, two attempts for a replay, two human sprints for one that parks
an item with its predecessor, and two starts for a supervisor that has lost its
memory. `MAX_SPRINTS` is 0, its default, so that nothing but `attempted` can
end the loop: with a `TakeItem` that forgets it, it runs for ever on a journal
that takes no record. Four records are one for each attempt. `MaxWork` caps a
supervisor's count of sprints, one above what `WorkedOnce` lets it reach. Two
supervisors side by side with two items are more states than a run can hold;
the theorems about `Backlog` are for any number of supervisors, and
`ReplaysBounded` has that number in its bound. In `Sandbox` two descendants are
the least for one that is killed and one that got away, and 124 is the status
the code shares with a timeout. In `LlmCache` two loops are the least for a
client of a closed one, two callers for one that holds what the other drops,
and three clients for a replacement of a replacement. In `Bench` three
benchmarks are the least for a baseline hidden by a run that must not be one;
the four command lines have a task the suite gains, two subjects, two repeats
and every arm, and one edit is enough for a dirty tree and for two commits. The
theorems of section 5 hold without these bounds.

Fairness. `HiveSprint`: weak fairness of the next-state relation, since one
asyncio task drives the graph and every wait inside a node has a timeout. It
is only used for `SprintEnds`. `StdinGate`: weak fairness of the pump, the
acknowledgement task and the main coroutine, not of the operator; a gate's
timer is part of the coroutine. `Backlog`: weak fairness of each supervisor's
own steps, not of starting it, and none keeps it from being killed.
`LoopEnds` is claimed without `--watch` only. `Sandbox`: weak fairness of the
caller, whose thread runs and whose timeouts pass; nothing is assumed of the
code it runs. `ItReturns` leaves out the grader on Windows, where
`subprocess.run` drains without a bound. The other modules state no liveness
and assume no fairness.

Deadlock is checked in every run; each module has an explicit stuttering step
for the state in which the program is over.

## 4. Where the code and its documentation part

Each of these is a run that TLC ends with a counterexample.

* `gate_skip`: "An escalation is a statement about ONE task"
  (`human_gate_node.py:96-98`). If a flaky contract check holds in that extra
  review, the ticket is retired, the next becomes current with the flag still
  up, and the gate skips it untried.
* `silent_loop`: the retry counter keeps a persistent exception from looping
  to the recursion limit (`async_editor_node.py:388-389`). Not one whose text
  is empty.
* `unplanned`: "A sprint is journalled FAILED when it never got a fair attempt
  at all: the ticket writer emitted nothing writable" (`discovery.py:143-145`,
  and the repository's `tests/test_discovery.py:210-223` journals one so). A
  ticket writer that gives up leaves an error and no task, the graph goes to
  the human gate (`orchestrator.py:73`), and the journal says ESCALATED, which
  counts as an attempt on the merits.
* `headless_gate`: "Auto-acknowledge every future gate" (`cli.py:129`). Only
  the first: the gate clears the event, and the task that set it is gone.
* `late_stamp`: a run is recorded against "the current git commit, so a
  regression can be traced to the change that caused it", and one of a dirty
  tree is "never used as a baseline" (`src/scripts/bench.py:46-48`). The commit
  is looked up when a run is over: a change edited and committed during a run
  makes it a clean run of a commit it did not measure, and the next baseline.

Met while modelling, without a run of their own.

In the sprint: when the breaker trips on two identical semantic rejections the
reviewer runs once more, the code executes, the error is cleared, and the gate
records "unknown error", though it "records exactly what it got stuck on"
(`discovery.py:11-12`). `state.py:73-74` still has the gate end the sprint.
`select_tier`'s docstring (92-94) has the strong model tried before the human,
which `StrongTriedBeforeHuman` confirms for the default
`ESCALATE_AFTER_FAILURES` of 1 and which fails from 2 on. An objective typed
while a sprint runs is taken for an acknowledgement, as the code means it, and
is lost as an objective. A sprint that crashes under the REPL leaves no record:
the planner and the ticket writer catch nothing their model raises, the reviewer
nothing that starting a process raises (`reviewer_node.py:172, 228`), and no node
what writing the rejection ledger raises.

In the loop: `attempts_for` counts the records that say CLEAN or ESCALATED and
are in the file, so `MAX_DISCOVERY_ATTEMPTS` bounds those and no others. A sprint
that is killed, is FAILED, or whose record is lost or torn may be repeated by
every new supervisor; within one, `attempted` ends that (`WorkedOnce`). Nothing
keeps a second `--loop` from running beside the first, and both may then work an
item's last attempt. After a torn write "the rest of the file really is still good"
(`journal.py:149`), except for the record appended next, which is lost with it.
`discover` says "oldest escalation first" (`discovery.py:109`) and sorts by
hash (135). `parked` says that the item was retried on the tier that had not
failed it (187-188), though two sprints of a human park it as well.
`supervisor.run` says that `watch_sec` keeps the loop alive (79-80), and stops
when all that is left is stuck (156-161). `_work`'s docstring (198-207) makes
the journal the termination argument, the module's docstring makes it the
`attempted` set; the code agrees with the second.

In the budget: `None` "means I could not meter this, the meter counts it, and the
governor stops the run once a ceiling that DEPENDS on the meter can no longer be
trusted" (`governor.py:391-392`), and 413-420 name renamed or dropped token
counts. With one of the two counts dropped the usage is taken for whole (423):
no unmetered call is counted, the ceiling is on, and what is billed exceeds the
bound of `FailsClosed` by the part left out, `untold`, which nothing bounds. A
call that raises is not metered at all.

In the sandbox: code that exits with status 124 under a contract is told that
it timed out. A contract that held is reported as one that never ran when
something prints more than half of the limit before the marker and after it
(`_bounded` keeps "the pass sentinel" by keeping the tail, 128-135). When the
child has ended and a descendant holds the pipe, the process group may no
longer be found, and then the descendant is left. After a review that ends in
time, what the code left running stays, on POSIX. Processes started between the
child's creation and its assignment to the Job Object are outside of it. The
harness is one file for all processes of a workspace (`reviewer_node.py:255`);
the fresh token in its marker makes a mix-up fail, never pass.

In the client cache: `invalidate_llm` drops the entry of both dictionaries,
whichever client failed. The planner, the ticket writer, the benchmark's warm-up
and `run_oneshot` never drop a client that failed, and the next call may fail
on it again. A client of a closed loop is replaced when its key is asked for
again, and kept until then.

In the benchmark: a regression is reported once, since the run that shows it is
recorded after the comparison and is the next baseline. The report of a run
without a baseline says that it becomes one once committed; a run of a dirty
tree never does. `run_sprint` of `bench/runner.py` keeps `contract_satisfied`
from the first delta that has it (527), and grades a delta before the files of
that delta's siblings are written (483-506), so the attempt in which a task of
several files passed may not be told.

## 5. What is proved

Every invariant, every action property and the refinement that a passing run
checks is a theorem too, `THEOREM Spec => ...`, for every value of the constants.

| theorem | what it says for every value of the constants |
|---|---|
| *`HiveSprintProofs`* | |
| `TypeCorrect` | types; the retry counter stays within `MaxRetries + 1` |
| `SprintsAreBounded` | at most `3 + MaxTickets * (3 * MaxRetries + 2)` supersteps |
| `GenerationsAreBounded` | a model is asked for one file at most `MaxRetries` times |
| `EscalationsAreReported` | a sprint that was at the gate is ESCALATED |
| `TheReportsAgree` | what `run_sprint` kept of the deltas gives the status the state gives |
| `TheFloorHolds` | no fast model under a strong floor |
| `RetiredCodeHasRun` | what is retired has passed the reviewer as it is |
| `RepeatsAreItsOwn` | the breaker trips on two errors of one ticket |
| `TheStrongModelHadIt` | the human comes after the strong model, if that is due after one failure |
| `SprintKeepsTheLedger` | the sprint implements `SprintLedger` |
| `SprintsAccountForTickets`, `CleanSprintsHavePassed` | no node loses a ticket; CLEAN means that all of them passed |
| *`SprintLedgerProofs`* | |
| `TicketsAreAccounted`, `CleanSprintsPassed` | the same of the abstract ledger |
| *`StdinGateProofs`* | |
| `GateTypeCorrect`, `EveryLineIsRead`, `EveryAckIsEarned`, `ThePromptOwnsInput` | the terminal, for any number of lines, sprints and gates |
| *`BacklogProofs`* | |
| `BacklogTypeCorrect` | types |
| `TheBacklogLosesNothing`, `ParkedWasEscalated` | an item has passed, is found again, or is parked for its reason |
| `LoopIsOneAttemptShort` | journalled replays of an item and two are at most `MaxAttempts` and the supervisors that may run at a time |
| `NothingIsWorkedTwice`, `NobodyStarves` | a supervisor works each attempt once; one that stops in time has worked everything |
| `EscalationsAreItsOwn` | a sprint alone on the ledger journals its own escalations |
| *`GovernorProofs`* | |
| `GovernorTypeCorrect` | types; what is journalled is never negative |
| `OvershootIsBounded` | `usd < max_usd + callers * cost of the dearest call` |
| `TheGuardFailsClosed` | what is billed, less what partly readable responses leave out, is bounded with an unreadable meter |
| `TheJournalAccounts` | between sprints the records add up to the money recorded, whichever bracket booked each |
| *`SandboxProofs`* | |
| `SandboxTypeCorrect` | types |
| `NobodyIsLeftBehind` | a timeout takes the group and the job with it, however large |
| `EveryVerdictIsEarned` | a pass is a child that ended with 0 after its harness, and is withheld only by the timeout or a buried marker |
| *`LlmCacheProofs`* | |
| `CacheTypeCorrect`, `ClientsAreUsable` | types; no node gets a client of another loop or one a node failed on |
| *`BenchProofs`* | |
| `BenchTypeCorrect`, `GamedRowsAreGamed`, `RegressionsAreReported` | types; a gamed row is one; a regression is reported if and only if it is one |

Assumptions: those each module names. They say that bounds are natural numbers;
that there is at least one retry (`SprintAssumption`), attempt
(`BacklogAssumption`) and repeat (`BenchAssumption`); that callers, keys and the
tasks of a command line are finitely many, and the last not none; that the
platform is POSIX or Windows and exit statuses are numbers
(`SandboxAssumption`); and that an operator's alphabet is the one the model
knows. `SprintsAreBounded` and `GenerationsAreBounded` except exceptions without
text (`MuteExceptions`), as `silent_loop` shows they must, and
`TheStrongModelHadIt` is about the default `ESCALATE_AFTER_FAILURES` and a cap
of at least two.

The arguments. Each specification has one inductive invariant, a conjunction of
the named parts below; a lemma per action shows that it keeps them.

*The sprint.*

* *Supersteps.* `StepBound` is not inductive: it has to know what is still to
  come. The invariant charges the rest of the sprint in advance, as a potential
  of the queue, of the retries the current ticket has left, and of the node
  that runs next, and every node pays for its superstep from it. It needs that
  every round of editor and reviewers that ends in an error raised the retry
  counter, or tripped the breaker, which is why `EditorFails` without its
  increment breaks it.
* *Generations* (`AnswersFailed`). What the current file was asked for is at
  most its retries, plus the answer the reviewers still have in hand. It rests
  on a part of the previous invariant: between editor and reviewers there is
  code or an error.
* *Reports.* `SeenInv` says that what `run_sprint` kept of the deltas is what
  the state holds, the governor's refusal aside: each node returns every field of
  error, health and flag that it changes. Hence the journal's status is a
  function of the state (`JournalIsState`), and everything below is proved of
  that. `EscalationReported` and `ReportsAgree` need besides that a visit of the
  gate sets the sticky flag, that the flag is never cleared, and that the
  retrospector is reached without an error.
* *The floor.* The router's tier is strong under a floor; the editor's own
  choice ignores the floor, and the ratchet repairs that. The invariant is that
  the tier is strong from the first router visit on.
* *Retired code* (`TicketInv`). What is queued is untouched and of other files
  than the current one (`QueueIsNext`), the current ticket has not left
  (`CurrentIsOpen`), and code at the semantic reviewer without an error has
  passed (`PassedHasRun`). The first part is why collapsing tickets by file
  matters: with two tickets of a file the second would change what is retired.
* *Breaker and tiers* (`LadderInv`). After one answer there has been at most
  one failure, and it left the only fingerprint; so both a second equal
  fingerprint and the gate come after a second answer, which is the strong
  model's.
* *The refinement.* Each node is a step of the ledger or a stutter: the ticket
  writer plans, the semantic reviewer passes the current ticket, the gate skips
  it or raises the alarm, the retrospector abandons blank tickets,
  `run_sprint` reports, and a crash or the recursion limit loses the sprint.
  `OutcomeInv` says why the steps match: a sprint without a plan has an error
  until the gate, and what the breaker escalated the sticky flag remembers. The
  ledger's own theorems are then carried over by instantiating
  `SprintLedgerProofs` under the same mapping.

*The ledger* (`LedgerInv`). What is open is a plan of its own, one ticket per
file (`Plans`), so the ticket taken from the front takes its file with it.
Hence the plan is the disjoint union of what passed, was skipped and is open
(`Balanced`), and nothing was skipped without an alarm (`Reported`).

*The terminal.* What was typed is what was read, followed by the queue and by
what the thread has not taken; at the end of input the marker is the last
element of the queue, alone behind whatever is left. The acknowledgement task
is cancelled before its sprint leaves its last await, and reads in neither of
the two steps that are left.

*The backlog* (`BacklogInv`). What is replayed has a human's record first
(`HumanWasFirst`). A supervisor that discovers an item holds it until it has
worked it or its round is over, and adds at most one record to it. Hence the
records of replays and the supervisors that hold the item are bounded together
(`HeldWithinBound`): who takes an item finds room for one more attempt in the
journal, and all but itself may have taken it before, which is where the
supervisors in the bound come from. `attempted` counts the sprints and the item
in hand (`CountsItsWork`), and a round that found something new worked it
(`RoundGotSomewhere`), hence once each and no starvation, for each process. The
rejections in the shared ledger are those of the sprint that cleared it last,
unless two overlapped (`LedgerIsOwn`).

*The budget.*

* *The overshoot.* Calls in flight are charged in advance with the dearest
  call. When the check passes, the spend is below the ceiling and at most all
  callers are in flight.
* *Failing closed.* The same with unmetered calls: `usd` plus the dearest cost
  for every unmetered call and every call in flight stays below the bound, and
  what is billed stays below `usd` plus the dearest cost per unmetered call plus
  `untold`.
* *The journal* (`Bracketed`). While a sprint is under way the journal holds what
  was recorded up to either snapshot: calls are made only past the second, so
  both brackets have the same spend in them, and no call is in flight between
  sprints.

*The sandbox* (`SandboxInv`). `Timeline` relates the caller's step to the
child: draining means that the time was up, returning that the child is not
running, and what the caller read is what is kept of the child's output.
`Confined` is what makes the kill complete: once the group is killed nobody is
in it and nobody is born into it any more, and nobody is in a job that has been
closed. Only then does it not matter how many descendants there are.

*The client cache* (`CacheInv`). A client is under one key only (`OneKeyEach`),
so dropping a key drops the client for every node; and what is under a key of
the running loop is bound to it, or to none, and no node has failed on it
(`UsableHere`).

*The benchmark* (`BenchInv`). The rows of a run, recorded or not, are true of
its samples (`KeepsTrueRuns`), and while it measures there are samples of
exactly the tasks of its command line (`Measuring`). That the baseline is the
last clean run of its kind is a least element of a set of numbers, taken by
well-foundedness.

Only model-checked: the liveness properties `SprintEnds`, `GateEnds`,
`ShutsDown`, `LoopEnds` and `ItReturns`. They need weak fairness, hence
ENABLED, which is out of the prover's reach. `SprintsAreBounded` and
`NothingIsWorkedTwice` are the safety half of the first and the fourth: the
steps they would have to run out of are bounded.

## 6. How it was built, and what is left

1. `SprintLedger`, `HiveSprint` with its proofs.
2. `StdinGate`, `Backlog`, `Governor`, with proofs of the first and last.
3. `Sandbox`, `LlmCache`, `Bench`, and the rejection ledger in `Backlog`.
4. `BacklogProofs`, `SandboxProofs`, `LlmCacheProofs`, `BenchProofs`.
5. The rest of `HiveSprintProofs`, the refinement included, and
   `SprintLedgerProofs`.
6. What `run_sprint` keeps of the deltas, crashes of every node, supervisors side
   by side, the two brackets of a sprint's spend, the cancelled task's last step.

All of it is done. What is left to do is the safety half of the other liveness
properties: what a gate, a REPL and a review that do not end would have to
repeat, as bounds like `SprintsAreBounded`.

## 7. Not modelled

Prompts, console output, metrics and the layout of `LOOP.md` and of the digest:
no control depends on them. `spend.jsonl` is written and never read. The
price table and the shapes in which providers report usage are inputs of
`Governor`. Workspace path checks, file writes and the AST outline are functions
on strings and the file system; so are `_legalise_paths` and `_collapse_by_file`
of the ticket writer, of which `HiveSprint` has the result, one ticket per file.
Reading the environment and the command line.
Of the sandbox: the limits on memory, processes and file size, the peak-memory
reading and the process of the syntax check. Of the rejection ledger: the
recent rejections, which feed prompts only. Of the benchmark: how a sprint
becomes a sample (it drives the graph of `HiveSprint` without a gate event),
the cost and attempt metrics, the tables, the tasks themselves. The release
script is a sequence of shell commands for a maintainer.

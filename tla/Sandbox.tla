--------------------------------- MODULE Sandbox ---------------------------------
(***************************************************************************)
(* One run of generated code in a process of its own, and what its caller  *)
(* makes of it.  The caller is the code reviewer (_run_sandboxed in        *)
(* reviewer_node.py, on the ceilings of core/platform.py) or the           *)
(* benchmark's grader (grade in bench/suite.py, on subprocess.run).        *)
(*                                                                         *)
(* The code may exit at any time with any status, never exit, and start    *)
(* other processes: a descendant is born in the process group and the job  *)
(* of its parent and with its output pipe, and may leave the group and     *)
(* close the pipe.  communicate() returns when the child has exited and no *)
(* process holds the pipe, or raises when its timeout has passed.          *)
(***************************************************************************)
EXTENDS Naturals

CONSTANTS
  Descendants,  (* the processes the code may start                         *)
  Systems,      (* the platforms it runs on: posix, windows                 *)
  Statuses      (* bound: the exit statuses of the code                     *)

ASSUME SandboxAssumption == Systems \subseteq {"posix", "windows"} /\ Statuses \subseteq Nat

(* A review with a contract, a review without, and the benchmark. *)
Callers == {"contract", "script", "grade"}

TimeoutRC == 124

VARIABLES
  os, caller,  (* fixed at the start                                         *)
  pc,          (* the caller: spawned, communicating, draining, returning,
                  done, or dead with its process                             *)
  child,       (* its life, exit status, and whether its harness has printed
                  the marker: the contract's last line, with a fresh token;
                  and if more than half of what a review keeps of the output
                  came before that line, and after it                        *)
  desc,        (* per descendant: its life and what it is in and holds       *)
  job,         (* whether there is a Job Object, and whether the child is in it *)
  timedOut,    (* TimeoutExpired was raised: no, or the child was then
                  running or had ended (history tells these two apart)       *)
  code,        (* the return code                                            *)
  seen,        (* the marker is in the output that was read                  *)
  verdict      (* none, pass, fail or timeout                                *)

processes == <<child, desc>>
result == <<timedOut, code, seen, verdict>>
vars == <<os, caller, pc, processes, job, result>>

NotAlive(life) == [life |-> life, group |-> FALSE, pipe |-> FALSE, job |-> FALSE]

Init ==
  /\ os \in Systems /\ caller \in Callers
  /\ pc = "spawned"
  /\ child = [life |-> "running", status |-> 0, marker |-> FALSE,
              before |-> FALSE, after |-> FALSE]
  /\ desc = [d \in Descendants |-> NotAlive("unborn")]
  /\ job = [open |-> FALSE, child |-> FALSE]
  /\ timedOut = "no" /\ code = 0 /\ seen = FALSE /\ verdict = "none"

Running == child.life = "running"
Alive == {d \in Descendants : desc[d].life = "alive"}

Terminated(set) ==
  [d \in Descendants |-> IF d \in set THEN NotAlive("dead") ELSE desc[d]]

Killed == IF Running THEN [child EXCEPT !.life = "killed"] ELSE child

-----------------------------------------------------------------------------
(* The code, at any time *)

(* Every assert has survived.  The token keeps the code from printing it. *)
HarnessPasses ==
  /\ Running /\ caller # "script"
  /\ child' = [child EXCEPT !.marker = TRUE]
  /\ UNCHANGED <<os, caller, pc, desc, job, result>>

(* The code, or whoever it has left the pipe to, prints without end. *)
Floods ==
  /\ caller = "contract" /\ pc \in {"spawned", "communicating", "draining"}
  /\ Running \/ \E d \in Alive : desc[d].pipe
  /\ child' = IF child.marker THEN [child EXCEPT !.after = TRUE]
              ELSE [child EXCEPT !.before = TRUE]
  /\ UNCHANGED <<os, caller, pc, desc, job, result>>

(* By itself, from the harness, or from an exit() anywhere in the code. *)
ChildExits ==
  /\ Running
  /\ \E s \in Statuses : child' = [child EXCEPT !.life = "exited", !.status = s]
  /\ UNCHANGED <<os, caller, pc, desc, job, result>>

(* What a process that the child or a descendant starts inherits. *)
Inherited ==
  {desc[d] : d \in Alive} \cup
    IF Running THEN {[life |-> "alive", group |-> TRUE, pipe |-> TRUE, job |-> job.child]}
    ELSE {}

Starts ==
  /\ \E d \in Descendants, inherited \in Inherited :
       /\ desc[d].life = "unborn"
       /\ desc' = [desc EXCEPT ![d] = inherited]
  /\ UNCHANGED <<os, caller, pc, child, job, result>>

LeavesGroup ==
  /\ \E d \in Alive : desc' = [desc EXCEPT ![d].group = FALSE]
  /\ UNCHANGED <<os, caller, pc, child, job, result>>

ClosesPipe ==
  /\ \E d \in Alive : desc' = [desc EXCEPT ![d].pipe = FALSE]
  /\ UNCHANGED <<os, caller, pc, child, job, result>>

DescendantEnds ==
  /\ \E d \in Alive : desc' = Terminated({d})
  /\ UNCHANGED <<os, caller, pc, child, job, result>>

Code ==
  \/ HarnessPasses \/ Floods \/ ChildExits
  \/ Starts \/ LeavesGroup \/ ClosesPipe \/ DescendantEnds

-----------------------------------------------------------------------------
(* The caller *)

(* Mutant: the handle of the job is dropped at once. *)
ConfineAndDrop ==
  /\ pc = "spawned" /\ pc' = "communicating"
  /\ \/ UNCHANGED child
     \/ os = "windows" /\ caller # "grade" /\ child' = Killed
  /\ UNCHANGED <<os, caller, desc, job, result>>

(***************************************************************************)
(* confine: on Windows the child is put into a Job Object, which fails if  *)
(* it has ended, and may fail anyway.  What it has started before is not   *)
(* in the job.  The grader has none.                                       *)
(***************************************************************************)
Confine ==
  /\ pc = "spawned" /\ pc' = "communicating"
  /\ \/ UNCHANGED job
     \/ /\ os = "windows" /\ caller # "grade" /\ Running
        /\ job' = [open |-> TRUE, child |-> TRUE]
  /\ UNCHANGED <<os, caller, processes, result>>

(* No process holds the pipe any more, and the child has ended. *)
EndOfOutput == ~Running /\ \A d \in Alive : ~desc[d].pipe

ReturnCode == IF child.life = "exited" THEN child.status ELSE 1

(* Mutant: of a long output only the head is kept. *)
HeadIsKept == child.marker /\ ~child.before

(* _bounded cuts the middle out of a review's output, and the grader cuts
   nothing: the marker is lost when there is too much on both sides of it. *)
MarkerIsKept == child.marker /\ ~(child.before /\ child.after)

CommunicateReturns ==
  /\ pc = "communicating" /\ EndOfOutput
  /\ pc' = "returning"
  /\ code' = ReturnCode /\ seen' = MarkerIsKept
  /\ UNCHANGED <<os, caller, processes, job, timedOut, verdict>>

(* Mutant: only the child is killed. *)
KillChildOnly == child' = Killed /\ UNCHANGED desc

(***************************************************************************)
(* _kill_tree.  On POSIX the group dies; looking it up may fail when the   *)
(* child has ended, and then only the child is signalled.  On Windows, and *)
(* by subprocess.run, the child is killed and nothing else.                *)
(***************************************************************************)
KillTree ==
  /\ child' = Killed
  /\ \/ /\ os = "posix" /\ caller # "grade"
        /\ desc' = Terminated({d \in Alive : desc[d].group})
     \/ /\ os = "windows" \/ caller = "grade" \/ ~Running
        /\ UNCHANGED desc

TimesOut ==
  /\ pc = "communicating"
  /\ timedOut' = IF Running THEN "running" ELSE "ended"
  /\ KillTree
  /\ pc' = "draining"
  /\ code' = TimeoutRC
  /\ UNCHANGED <<os, caller, job, seen, verdict>>

(* The second communicate(), or the wait() of subprocess.run on POSIX. *)
DrainReturns ==
  /\ pc = "draining"
  /\ \/ EndOfOutput /\ seen' = MarkerIsKept
     \/ caller = "grade" /\ os = "posix" /\ ~Running /\ UNCHANGED seen
  /\ pc' = "returning"
  /\ UNCHANGED <<os, caller, processes, job, timedOut, code, verdict>>

(* Mutant: the drain waits for the end of the output. *)
DrainIsUnbounded == FALSE

(* subprocess.run's communicate() on Windows has no timeout. *)
DrainIsBounded == caller # "grade"

DrainTimesOut ==
  /\ pc = "draining" /\ DrainIsBounded
  /\ pc' = "returning"
  /\ UNCHANGED <<os, caller, processes, job, result>>

(* The last handle of a job takes its processes with it. *)
JobCloses ==
  /\ job' = [job EXCEPT !.open = FALSE]
  /\ child' = IF job.open /\ job.child THEN Killed ELSE child
  /\ desc' = IF job.open THEN Terminated({d \in Alive : desc[d].job}) ELSE desc

(* Mutant: the exit status is believed. *)
PassedByStatus == code = 0

(* Mutant: the marker is believed. *)
PassedByMarker == IF caller = "script" THEN code = 0 ELSE seen

(* Exit 0 alone is believed only of the code's own script. *)
Passed == code = 0 /\ (caller # "script" => seen)

(* A review with a contract tells the timeout by the return code, which the
   code may also have exited with. *)
ToldOfTimeout == IF caller = "contract" THEN code = TimeoutRC ELSE timedOut # "no"

(* Mutant: every status has a message of its own. *)
VerdictOfTable ==
  CASE Passed -> "pass" [] ToldOfTimeout -> "timeout" [] code \in 2 .. 5 -> "fail"
    [] OTHER -> "none"

Verdict == CASE Passed -> "pass" [] ToldOfTimeout -> "timeout" [] OTHER -> "fail"

(* release, and what the caller makes of the result. *)
Returns ==
  /\ pc = "returning" /\ pc' = "done"
  /\ JobCloses
  /\ verdict' = Verdict
  /\ UNCHANGED <<os, caller, timedOut, code, seen>>

(* The caller's process ends, and its handles are closed. *)
CallerDies ==
  /\ pc \notin {"done", "dead"}
  /\ pc' = "dead"
  /\ JobCloses
  /\ UNCHANGED <<os, caller, result>>

Caller ==
  \/ Confine \/ CommunicateReturns \/ TimesOut \/ DrainReturns \/ DrainTimesOut
  \/ Returns

Stopped == pc \in {"done", "dead"} /\ UNCHANGED vars

Next == Code \/ Caller \/ CallerDies \/ Stopped

(* The caller keeps running, and so do the clocks of its timeouts. *)
Spec == Init /\ [][Next]_vars /\ WF_vars(Caller)

-----------------------------------------------------------------------------
(* Every variable keeps its type, only the living hold anything, and whatever
   the code exits with there is a verdict in the end. *)
TypeOK ==
  /\ os \in Systems /\ caller \in Callers
  /\ pc \in {"spawned", "communicating", "draining", "returning", "done", "dead"}
  /\ child \in [life : {"running", "exited", "killed"}, status : Statuses \cup {0},
                marker : BOOLEAN, before : BOOLEAN, after : BOOLEAN]
  /\ desc \in [Descendants -> [life : {"unborn", "alive", "dead"}, group : BOOLEAN,
                               pipe : BOOLEAN, job : BOOLEAN]]
  /\ \A d \in Descendants \ Alive : desc[d] = NotAlive(desc[d].life)
  /\ job \in [open : BOOLEAN, child : BOOLEAN]
  /\ timedOut \in {"no", "running", "ended"}
  /\ code \in Statuses \cup {0, 1, TimeoutRC} /\ seen \in BOOLEAN
  /\ verdict \in {"none", "pass", "fail", "timeout"}
  /\ verdict = "none" <=> pc # "done"

(***************************************************************************)
(* Whatever the code does, and whoever is left holding its output pipe, a  *)
(* review ends, and so does a grade where subprocess.run does not drain.   *)
(***************************************************************************)
ItReturns ==
  <>(pc \in {"done", "dead"} \/ (caller = "grade" /\ os = "windows"))

(***************************************************************************)
(* When a review that ran into its timeout has returned, nothing of it is  *)
(* left in the process group of the child it killed, or in the child's Job *)
(* Object; nor in the job when the hive itself has died.                   *)
(***************************************************************************)
NobodyOutlivesATimeout ==
  /\ pc = "done" /\ timedOut # "no" /\ caller # "grade" => ~Running
  /\ pc = "done" /\ timedOut = "running" /\ caller # "grade" /\ os = "posix" =>
       \A d \in Alive : ~desc[d].group
  /\ pc \in {"done", "dead"} => \A d \in Alive : ~desc[d].job

(***************************************************************************)
(* A pass is earned: the child ended by itself, in time, with status 0 and *)
(* with its harness run to the end.  And it is not withheld: such a child  *)
(* passes unless the timeout passed, or its marker was in the middle of an *)
(* output too long to keep; and only the timeout ever kills one.           *)
(***************************************************************************)
EarnedIt ==
  /\ child.life = "exited" /\ child.status = 0
  /\ caller # "script" => child.marker

VerdictIsEarned ==
  pc = "done" =>
    /\ verdict = "pass" => EarnedIt /\ timedOut = "no"
    /\ EarnedIt /\ timedOut = "no" /\ ~(child.before /\ child.after) => verdict = "pass"
    /\ child.life = "killed" => timedOut = "running"
    /\ timedOut # "no" => verdict = "timeout"
=============================================================================

----------------------------- MODULE SandboxProofs -----------------------------
(***************************************************************************)
(* Theorems of Sandbox, for any number of descendants and any set of exit  *)
(* statuses, on both platforms and for all three callers.                  *)
(***************************************************************************)
EXTENDS Sandbox, TLAPS

Lives == [life : {"unborn", "alive", "dead"}, group : BOOLEAN, pipe : BOOLEAN,
          job : BOOLEAN]
Children == [life : {"running", "exited", "killed"}, status : Statuses \cup {0},
             marker : BOOLEAN, before : BOOLEAN, after : BOOLEAN]

(***************************************************************************)
(* The processes keep their types, and the dead hold nothing.              *)
(***************************************************************************)
ProcessesTyped(c, ds) ==
  /\ c \in Children
  /\ ds \in [Descendants -> Lives]
  /\ \A d \in Descendants : ds[d].life # "alive" => ds[d] = NotAlive(ds[d].life)

StateTyped ==
  /\ os \in Systems /\ caller \in Callers
  /\ pc \in {"spawned", "communicating", "draining", "returning", "done", "dead"}
  /\ ProcessesTyped(child, desc)
  /\ job \in [open : BOOLEAN, child : BOOLEAN]
  /\ timedOut \in {"no", "running", "ended"}
  /\ code \in Statuses \cup {0, 1, TimeoutRC} /\ seen \in BOOLEAN
  /\ verdict \in {"none", "pass", "fail", "timeout"}
  /\ verdict = "none" <=> pc # "done"

LEMMA TypeParts == TypeOK <=> StateTyped
  BY DEF TypeOK, StateTyped, ProcessesTyped, Lives, Children, Alive

LEMMA TypeInit == Init => TypeOK
<1> SUFFICES ASSUME Init PROVE TypeOK
  OBVIOUS
<1>1. ProcessesTyped(child, desc)
  BY DEF Init, ProcessesTyped, Lives, Children, NotAlive
<1>2. job \in [open : BOOLEAN, child : BOOLEAN]
  BY DEF Init
<1> QED
  BY <1>1, <1>2, TypeParts DEF Init, StateTyped, TimeoutRC

(* Whatever is terminated, the rest keeps its type; so does a killed child. *)
LEMMA TerminatedTyped ==
  ASSUME NEW set \in SUBSET Descendants, ProcessesTyped(child, desc)
  PROVE  ProcessesTyped(child, Terminated(set))
  BY DEF ProcessesTyped, Terminated, NotAlive, Lives

LEMMA KilledTyped ==
  ASSUME ProcessesTyped(child, desc)
  PROVE  Killed \in Children
  BY DEF ProcessesTyped, Killed, Children

LEMMA KeptTyped ==
  ASSUME child \in Children
  PROVE  MarkerIsKept \in BOOLEAN
  BY DEF MarkerIsKept

(***************************************************************************)
(* What the code does leaves every process typed.                          *)
(***************************************************************************)
LEMMA CodeTyped ==
  ASSUME ProcessesTyped(child, desc), job \in [open : BOOLEAN, child : BOOLEAN], Code
  PROVE  ProcessesTyped(child', desc')
<1>1. CASE HarnessPasses
  BY <1>1 DEF HarnessPasses, ProcessesTyped, Children
<1>7. CASE Floods
  BY <1>7 DEF Floods, ProcessesTyped, Children
<1>2. CASE ChildExits
  BY <1>2 DEF ChildExits, ProcessesTyped, Children
<1>3. CASE Starts
  <2>1. PICK d \in Descendants, inherited \in Inherited :
          desc' = [desc EXCEPT ![d] = inherited]
    BY <1>3 DEF Starts
  <2>2. \A e \in Alive : desc[e] \in Lives /\ desc[e].life = "alive"
    BY DEF Alive, ProcessesTyped
  <2>3. inherited \in Lives /\ inherited.life = "alive"
    <3>1. CASE \E e \in Alive : inherited = desc[e]
      BY <2>2, <3>1
    <3>2. CASE inherited = [life |-> "alive", group |-> TRUE, pipe |-> TRUE,
                            job |-> job.child]
      BY <3>2 DEF Lives
    <3> QED
      BY <3>1, <3>2 DEF Inherited
  <2> QED
    BY <1>3, <2>1, <2>3 DEF Starts, ProcessesTyped
<1>4. CASE LeavesGroup
  <2>1. PICK d \in Alive : desc' = [desc EXCEPT ![d].group = FALSE]
    BY <1>4 DEF LeavesGroup
  <2>2. [desc[d] EXCEPT !.group = FALSE] \in Lives /\ desc[d].life = "alive"
    BY DEF Alive, ProcessesTyped, Lives
  <2> QED
    BY <1>4, <2>1, <2>2 DEF LeavesGroup, ProcessesTyped, Alive, Lives
<1>5. CASE ClosesPipe
  <2>1. PICK d \in Alive : desc' = [desc EXCEPT ![d].pipe = FALSE]
    BY <1>5 DEF ClosesPipe
  <2>2. [desc[d] EXCEPT !.pipe = FALSE] \in Lives /\ desc[d].life = "alive"
    BY DEF Alive, ProcessesTyped, Lives
  <2> QED
    BY <1>5, <2>1, <2>2 DEF ClosesPipe, ProcessesTyped, Alive, Lives
<1>6. CASE DescendantEnds
  BY <1>6, TerminatedTyped DEF DescendantEnds, Alive
<1> QED
  BY <1>1, <1>2, <1>3, <1>4, <1>5, <1>6, <1>7 DEF Code

(* And so does every way the caller has of killing them. *)
LEMMA KillTyped ==
  ASSUME ProcessesTyped(child, desc), KillTree \/ JobCloses
  PROVE  ProcessesTyped(child', desc')
<1>1. child' \in Children
  BY KilledTyped DEF KillTree, JobCloses, ProcessesTyped
<1>2. ProcessesTyped(child, desc')
  BY TerminatedTyped DEF KillTree, JobCloses, Alive
<1> QED
  BY <1>1, <1>2 DEF ProcessesTyped

LEMMA TypeStep ==
  ASSUME TypeOK, [Next]_vars
  PROVE  TypeOK'
<1>0. StateTyped /\ (TypeOK' <=> StateTyped')
  BY TypeParts, PTL
<1> USE <1>0 DEF StateTyped, processes, result
<1>1. CASE Code
  <2>1. UNCHANGED <<os, caller, pc, job, result>>
    BY <1>1 DEF Code, HarnessPasses, Floods, ChildExits, Starts, LeavesGroup, ClosesPipe,
                DescendantEnds
  <2> QED
    BY <1>1, <2>1, CodeTyped
<1>2. CASE Confine
  <2>1. job' \in [open : BOOLEAN, child : BOOLEAN]
    <3>1. job' = job \/ job' = [open |-> TRUE, child |-> TRUE]
      BY <1>2 DEF Confine
    <3>2. [open |-> TRUE, child |-> TRUE] \in [open : BOOLEAN, child : BOOLEAN]
      OBVIOUS
    <3> QED
      BY <3>1, <3>2, Zenon
  <2>2. /\ pc = "spawned" /\ pc' = "communicating"
        /\ UNCHANGED <<os, caller, processes, result>>
    BY <1>2 DEF Confine
  <2> QED
    BY <1>2, <2>1, <2>2
<1>3. CASE CommunicateReturns
  <2>1. seen' \in BOOLEAN
    BY <1>3, KeptTyped DEF CommunicateReturns, ProcessesTyped
  <2> QED
    BY <1>3, <2>1 DEF CommunicateReturns, ReturnCode, ProcessesTyped, Children
<1>4. CASE TimesOut
  BY <1>4, KillTyped DEF TimesOut
<1>5. CASE DrainReturns
  <2>1. seen' \in BOOLEAN
    BY <1>5, KeptTyped DEF DrainReturns, ProcessesTyped
  <2> QED
    BY <1>5, <2>1 DEF DrainReturns
<1>6. CASE DrainTimesOut
  BY <1>6 DEF DrainTimesOut
<1>7. CASE Returns
  <2>1. verdict' \in {"pass", "fail", "timeout"}
    BY <1>7 DEF Returns, Verdict
  <2>2. job' \in [open : BOOLEAN, child : BOOLEAN]
    BY <1>7 DEF Returns, JobCloses
  <2> QED
    BY <1>7, <2>1, <2>2, KillTyped DEF Returns
<1>8. CASE CallerDies
  <2>1. job' \in [open : BOOLEAN, child : BOOLEAN]
    BY <1>8 DEF CallerDies, JobCloses
  <2> QED
    BY <1>8, <2>1, KillTyped DEF CallerDies
<1>9. CASE UNCHANGED vars
  BY <1>9 DEF vars
<1> QED
  BY <1>1, <1>2, <1>3, <1>4, <1>5, <1>6, <1>7, <1>8, <1>9
     DEF Next, Caller, Stopped

(***************************************************************************)
(* Every variable keeps its type, and there is a verdict exactly when the  *)
(* run is over, whatever status the code exits with.                       *)
(***************************************************************************)
THEOREM SandboxTypeCorrect == Spec => []TypeOK
  BY TypeInit, TypeStep, PTL DEF Spec
-----------------------------------------------------------------------------
(***************************************************************************)
(* Where the caller is, and what it knows of the child.  A timeout is only *)
(* raised while it waits for the output, and kills the child; what it      *)
(* returns on is a child that has ended.                                   *)
(***************************************************************************)
Timeline ==
  /\ pc \in {"spawned", "communicating"} => timedOut = "no"
  /\ pc = "draining" => timedOut # "no"
  /\ timedOut # "no" => ~Running /\ code = TimeoutRC
  /\ pc \in {"draining", "returning", "done"} => ~Running
  /\ child.life = "killed" => timedOut = "running" \/ pc = "dead"
  /\ pc \in {"returning", "done"} /\ timedOut = "no" =>
       code = ReturnCode /\ seen = MarkerIsKept
  /\ pc = "done" => verdict = Verdict

(***************************************************************************)
(* What a descendant can be in.  The group dies with a child that timed    *)
(* out, and nobody is born into it any more; the job closes with the       *)
(* caller, and who was in it has died.                                     *)
(***************************************************************************)
Confined ==
  /\ timedOut = "running" /\ caller # "grade" /\ os = "posix" =>
       \A d \in Descendants : ~desc[d].group
  /\ pc \notin {"done", "dead"} /\ job.child => job.open
  /\ pc \in {"done", "dead"} /\ job.child => ~Running
  /\ \A d \in Descendants : desc[d].job => job.child /\ pc \notin {"done", "dead"}

SandboxInv == TypeOK /\ Timeline /\ Confined

LEMMA SandboxInit == Init => SandboxInv
<1> SUFFICES ASSUME Init PROVE Timeline /\ Confined
  BY TypeInit DEF SandboxInv
<1> QED
  BY DEF Init, Timeline, Confined, NotAlive, Running

(* The code may end the child, but it starts no other, and when the child has
   ended nothing changes it but what is printed while the output is read. *)
LEMMA TimelineCode ==
  ASSUME SandboxInv, Code
  PROVE  Timeline'
<1>1. UNCHANGED <<os, caller, pc, job, result>>
  BY DEF Code, HarnessPasses, Floods, ChildExits, Starts, LeavesGroup, ClosesPipe,
         DescendantEnds
<1>2. CASE ~Running
  <2>1. CASE Floods
    <3>1. /\ pc \notin {"returning", "done", "dead"}
          /\ child'.life = child.life
      BY <2>1, TypeParts DEF SandboxInv, StateTyped, ProcessesTyped, Children, Floods
    <3> QED
      BY <1>1, <1>2, <3>1 DEF SandboxInv, Timeline, result, Running
  <2>2. CASE ~Floods
    <3>1. UNCHANGED child
      BY <1>2, <2>2 DEF Code, HarnessPasses, ChildExits, Starts, LeavesGroup, ClosesPipe,
                        DescendantEnds
    <3> QED
      BY <1>1, <3>1 DEF SandboxInv, Timeline, result, Running, ReturnCode, MarkerIsKept,
                        Verdict, Passed, ToldOfTimeout
  <2> QED
    BY <2>1, <2>2
<1>3. CASE Running
  <2>1. child'.life # "killed"
    BY <1>3, TypeParts DEF SandboxInv, StateTyped, ProcessesTyped, Children, Running,
         Code, HarnessPasses, Floods, ChildExits, Starts, LeavesGroup, ClosesPipe,
         DescendantEnds
  <2> QED
    BY <1>1, <1>3, <2>1, TypeParts DEF SandboxInv, StateTyped, Timeline, result
<1> QED
  BY <1>2, <1>3

LEMMA TimelineCaller ==
  ASSUME SandboxInv, Caller \/ CallerDies
  PROVE  Timeline'
<1> USE TypeParts DEF SandboxInv, StateTyped, ProcessesTyped, Children, Timeline, Running,
                      processes, result
<1>1. CASE Confine
  BY <1>1 DEF Confine
<1>2. CASE CommunicateReturns
  BY <1>2 DEF CommunicateReturns, EndOfOutput, ReturnCode, MarkerIsKept
<1>3. CASE TimesOut
  <2>1. child' = Killed
    BY <1>3 DEF TimesOut, KillTree
  <2>2. child'.life # "running" /\ (child'.life = "killed" => timedOut' = "running")
    BY <1>3, <2>1 DEF TimesOut, Killed
  <2> QED
    BY <1>3, <2>2 DEF TimesOut
<1>4. CASE DrainReturns
  BY <1>4 DEF DrainReturns, ReturnCode, MarkerIsKept
<1>5. CASE DrainTimesOut
  BY <1>5 DEF DrainTimesOut
<1>6. CASE Returns
  <2>1. UNCHANGED child
    BY <1>6 DEF Returns, JobCloses, Killed
  <2> QED
    BY <1>6, <2>1 DEF Returns, ReturnCode, MarkerIsKept, Verdict, Passed, ToldOfTimeout
<1>7. CASE CallerDies
  <2>1. child' = child \/ child' = Killed
    BY <1>7 DEF CallerDies, JobCloses
  <2>2. child'.life = "running" => child.life = "running"
    BY <2>1 DEF Killed
  <2> QED
    BY <1>7, <2>2 DEF CallerDies
<1> QED
  BY <1>1, <1>2, <1>3, <1>4, <1>5, <1>6, <1>7 DEF Caller

LEMMA ConfinedCode ==
  ASSUME SandboxInv, Code
  PROVE  Confined'
<1> USE DEF Confined, Running
<1>1. UNCHANGED <<os, caller, pc, job, result>>
  BY DEF Code, HarnessPasses, Floods, ChildExits, Starts, LeavesGroup, ClosesPipe,
         DescendantEnds
<1>2. Running' => Running
  BY TypeParts DEF SandboxInv, StateTyped, ProcessesTyped, Children, Code,
         HarnessPasses, Floods, ChildExits, Starts, LeavesGroup, ClosesPipe, DescendantEnds
<1>3. CASE Starts
  <2>1. PICK d \in Descendants, inherited \in Inherited :
          desc' = [desc EXCEPT ![d] = inherited]
    BY <1>3 DEF Starts
  <2>2. CASE \E e \in Alive : inherited = desc[e]
    BY <1>1, <1>2, <2>1, <2>2, TypeParts
       DEF SandboxInv, StateTyped, ProcessesTyped, Alive, result
  <2>3. CASE Running /\ inherited = [life |-> "alive", group |-> TRUE, pipe |-> TRUE,
                                     job |-> job.child]
    <3>1. timedOut = "no"
      BY <2>3, TypeParts DEF SandboxInv, StateTyped, Timeline
    <3>2. inherited.job => job.child /\ pc \notin {"done", "dead"}
      BY <2>3 DEF SandboxInv
    <3> QED
      BY <1>1, <1>2, <2>1, <3>1, <3>2, TypeParts
         DEF SandboxInv, StateTyped, ProcessesTyped, result
  <2> QED
    BY <2>2, <2>3 DEF Inherited
<1>4. CASE ~Starts
  <2>1. \A d \in Descendants : /\ desc'[d].group => desc[d].group
                               /\ desc'[d].job => desc[d].job
    <3>1. CASE HarnessPasses \/ Floods \/ ChildExits
      BY <3>1 DEF HarnessPasses, Floods, ChildExits
    <3>2. CASE LeavesGroup \/ ClosesPipe
      BY <3>2, TypeParts DEF SandboxInv, StateTyped, ProcessesTyped, Lives, Alive,
                             LeavesGroup, ClosesPipe
    <3>3. CASE DescendantEnds
      BY <3>3 DEF DescendantEnds, Terminated, NotAlive
    <3> QED
      BY <1>4, <3>1, <3>2, <3>3 DEF Code
  <2> QED
    BY <1>1, <1>2, <2>1, TypeParts DEF SandboxInv, StateTyped, result
<1> QED
  BY <1>3, <1>4

(* What closing the job does to those in it. *)
LEMMA ClosedJob ==
  ASSUME SandboxInv, JobCloses, pc \notin {"done", "dead"}
  PROVE  /\ job.child => ~Running'
         /\ job'.child = job.child
         /\ Running' => Running
         /\ \A d \in Descendants : desc'[d].group => desc[d].group
         /\ \A d \in Descendants : ~desc'[d].job
<1> USE TypeParts DEF SandboxInv, StateTyped, ProcessesTyped, Children, Confined, Running
<1>1. /\ job.child => ~Running'
      /\ job'.child = job.child
      /\ Running' => Running
  BY DEF JobCloses, Killed
<1>2. CASE job.open
  <2>1. desc' = Terminated({d \in Alive : desc[d].job})
    BY <1>2 DEF JobCloses
  <2> QED
    BY <1>1, <2>1 DEF Terminated, NotAlive, Alive
<1>3. CASE ~job.open
  BY <1>1, <1>3 DEF JobCloses
<1> QED
  BY <1>2, <1>3

LEMMA ConfinedCaller ==
  ASSUME SandboxInv, Caller \/ CallerDies
  PROVE  Confined'
<1> USE TypeParts DEF SandboxInv, StateTyped, ProcessesTyped, Confined, processes, result
<1>1. CASE Confine
  BY <1>1 DEF Confine, Running
<1>2. CASE CommunicateReturns
  BY <1>2 DEF CommunicateReturns, Running
<1>3. CASE TimesOut
  <2>1. /\ pc = "communicating" /\ pc' = "draining" /\ UNCHANGED <<os, caller, job>>
        /\ timedOut' = "running" => Running
    BY <1>3 DEF TimesOut
  <2>2. \A d \in Descendants : desc'[d].job => desc[d].job
    BY <1>3 DEF TimesOut, KillTree, Terminated, NotAlive
  <2>3. ASSUME timedOut' = "running", caller # "grade", os = "posix",
               NEW d \in Descendants
        PROVE  ~desc'[d].group
    <3>1. desc' = Terminated({e \in Alive : desc[e].group})
      BY <1>3, <2>1, <2>3 DEF TimesOut, KillTree
    <3>2. desc[d].life # "alive" => ~desc[d].group
      BY DEF NotAlive
    <3> QED
      BY <3>1, <3>2 DEF Terminated, NotAlive, Alive
  <2> QED
    BY <2>1, <2>2, <2>3
<1>4. CASE DrainReturns
  BY <1>4 DEF DrainReturns, Running
<1>5. CASE DrainTimesOut
  BY <1>5 DEF DrainTimesOut, Running
<1>6. CASE Returns
  <2>1. pc \notin {"done", "dead"} /\ UNCHANGED <<os, caller, timedOut>> /\ JobCloses
    BY <1>6 DEF Returns
  <2> QED
    BY <2>1, ClosedJob, <1>6 DEF Returns
<1>7. CASE CallerDies
  <2>1. pc \notin {"done", "dead"} /\ UNCHANGED <<os, caller, timedOut>> /\ JobCloses
    BY <1>7 DEF CallerDies
  <2> QED
    BY <2>1, ClosedJob, <1>7 DEF CallerDies
<1> QED
  BY <1>1, <1>2, <1>3, <1>4, <1>5, <1>6, <1>7 DEF Caller

LEMMA SandboxStep ==
  ASSUME SandboxInv, [Next]_vars
  PROVE  SandboxInv'
<1>1. TypeOK'
  BY TypeStep DEF SandboxInv
<1>2. CASE Code
  BY <1>1, <1>2, TimelineCode, ConfinedCode DEF SandboxInv
<1>3. CASE Caller \/ CallerDies
  BY <1>1, <1>3, TimelineCaller, ConfinedCaller DEF SandboxInv
<1>4. CASE UNCHANGED vars
  BY <1>1, <1>4 DEF vars, processes, result, SandboxInv, Timeline, Confined, Running,
                    ReturnCode, MarkerIsKept, Verdict, Passed, ToldOfTimeout
<1> QED
  BY <1>2, <1>3, <1>4 DEF Next, Stopped

LEMMA SandboxAlways == Spec => []SandboxInv
  BY SandboxInit, SandboxStep, PTL DEF Spec

(***************************************************************************)
(* No review leaves a process behind in the group of a child it killed, or *)
(* in its job, in whatever order the code starts, orphans and ends its     *)
(* processes, and however many there are.                                  *)
(***************************************************************************)
THEOREM NobodyIsLeftBehind == Spec => []NobodyOutlivesATimeout
<1>1. SandboxInv => NobodyOutlivesATimeout
  BY DEF SandboxInv, Timeline, Confined, NobodyOutlivesATimeout, Alive
<1> QED
  BY <1>1, SandboxAlways, PTL

(***************************************************************************)
(* A pass is earned and never withheld, whatever the code exits with and   *)
(* whenever its harness is done.                                           *)
(***************************************************************************)
THEOREM EveryVerdictIsEarned == Spec => []VerdictIsEarned
<1>1. SandboxInv => VerdictIsEarned
  <2> SUFFICES ASSUME SandboxInv, pc = "done" PROVE VerdictIsEarned
    BY DEF VerdictIsEarned
  <2>1. CASE timedOut # "no"
    BY <2>1 DEF SandboxInv, Timeline, VerdictIsEarned, Verdict, Passed, ToldOfTimeout,
                TimeoutRC
  <2>2. CASE timedOut = "no"
    <3>1. child.life = "exited" /\ code = child.status /\ seen = MarkerIsKept
      BY <2>2, TypeParts DEF SandboxInv, StateTyped, ProcessesTyped, Children, Timeline,
                             Running, ReturnCode
    <3>2. verdict = "pass" <=> Passed
      BY <2>2 DEF SandboxInv, Timeline, Verdict, Passed, ToldOfTimeout, TimeoutRC
    <3> QED
      BY <2>2, <3>1, <3>2 DEF VerdictIsEarned, EarnedIt, Passed, MarkerIsKept
  <2> QED
    BY <2>1, <2>2
<1> QED
  BY <1>1, SandboxAlways, PTL
=============================================================================

-------------------------------- MODULE Governor --------------------------------
(***************************************************************************)
(* The budget of a process: the meter every model call passes through, the *)
(* ceilings (core/governor.py), and the two brackets that put a sprint's   *)
(* share of the spend in the journal: run_sprint's (cli.py), for a sprint  *)
(* that reports, and _work's around it (supervisor.py), for one that       *)
(* crashes.                                                                *)
(*                                                                         *)
(* The meter checks the ceilings before a call and records after it; what  *)
(* happens in between, another caller's calls included, it does not see.   *)
(* Money and tokens are counted in some unit, and a call uses one of a few *)
(* amounts of them.  How a model's price is looked up is left out, and so  *)
(* is the rounding of a sprint's share to a millionth of a dollar.  The    *)
(* process is the supervisor's; the REPL starts a sprint without looking   *)
(* at the ceilings, and has its first call refused.                        *)
(***************************************************************************)
EXTENDS Naturals, FiniteSets

CONSTANTS
  Callers,   (* nodes that may have a model call in flight at once       *)
  MaxCost,   (* the most one call can cost                               *)
  MaxUse,    (* the most tokens one call can use                         *)
  Limits,    (* the ceilings a process may be started with, 0 for none   *)
  MaxCalls,  (* bound: calls that end                                    *)
  MaxClock,  (* bound: the wall clock                                    *)
  MaxRuns    (* bound: sprints                                           *)

Limit == [usd : Nat, tokens : Nat, wall : Nat, sprints : Nat, unmetered : Nat]

ASSUME GovernorAssumption ==
  /\ IsFiniteSet(Callers)
  /\ MaxCost \in Nat /\ MaxUse \in Nat
  /\ Limits \subseteq Limit
  /\ MaxCalls \in Nat /\ MaxClock \in Nat /\ MaxRuns \in Nat

VARIABLES
  max,        (* the ceilings                                            *)
  usd,        (* Spend: the money recorded                               *)
  tokens,     (* Spend: the tokens recorded                              *)
  unmetered,  (* Spend: calls whose response told no usage               *)
  calls,      (* Spend: calls recorded                                   *)
  sprints,    (* Spend: sprints recorded                                 *)
  clock,      (* seconds since the process started                       *)
  call,       (* per caller: "idle", "calling" or "refused"              *)
  sprint,     (* "none", "working": in _work, "running": in run_sprint,  *)
              (* past its snapshot                                       *)
  workMark,   (* _work's spend_before                                    *)
  mark,       (* run_sprint's spend_before                               *)
  booked,     (* the money in the records handed to the journal, which  *)
              (* may fail to write them: see module Backlog             *)
  (* history, read by properties only *)
  billed,     (* what the calls that returned have really cost           *)
  untold      (* the part of it that responses read as whole left out    *)

meter == <<usd, tokens, unmetered, calls, billed, untold>>
bracket == <<sprint, workMark, mark, booked, sprints>>
vars == <<max, meter, clock, call, bracket>>

Init ==
  /\ max \in Limits
  /\ usd = 0 /\ tokens = 0 /\ unmetered = 0 /\ calls = 0
  /\ billed = 0 /\ untold = 0
  /\ clock = 0
  /\ call = [c \in Callers |-> "idle"]
  /\ sprint = "none" /\ workMark = 0 /\ mark = 0 /\ booked = 0 /\ sprints = 0

Reached(ceiling, amount) == ceiling # 0 /\ amount >= ceiling

MeterIsLoadBearing == max.usd # 0 \/ max.tokens # 0

(* Mutant: a response that cannot be read is a free call. *)
BreachOpen ==
  \/ Reached(max.usd, usd)
  \/ Reached(max.tokens, tokens)
  \/ Reached(max.wall, clock)
  \/ Reached(max.sprints, sprints)

Breach ==
  \/ Reached(max.usd, usd)
  \/ Reached(max.tokens, tokens)
  \/ Reached(max.wall, clock)
  \/ Reached(max.sprints, sprints)
  \/ MeterIsLoadBearing /\ Reached(max.unmetered, unmetered)

InFlight == {c \in Callers : call[c] = "calling"}

Tick ==
  /\ clock < MaxClock
  /\ clock' = clock + 1
  /\ UNCHANGED <<max, meter, call, bracket>>

(* Mutant: a check against the ceiling that is one call behind. *)
CallStartsLate(c) ==
  /\ sprint = "running" /\ call[c] = "idle"
  /\ calls + Cardinality(InFlight) < MaxCalls
  /\ call' = [call EXCEPT ![c] =
       IF Breach /\ ~(max.usd # 0 /\ usd = max.usd) THEN "refused" ELSE "calling"]
  /\ UNCHANGED <<max, meter, clock, bracket>>

(***************************************************************************)
(* on_llm_start: the check.  BudgetExhausted unwinds the caller, and with  *)
(* it the sprint.                                                          *)
(***************************************************************************)
CallStarts(c) ==
  /\ sprint = "running" /\ call[c] = "idle"
  /\ calls + Cardinality(InFlight) < MaxCalls
  /\ call' = [call EXCEPT ![c] = IF Breach THEN "refused" ELSE "calling"]
  /\ UNCHANGED <<max, meter, clock, bracket>>

CallReturns(c) ==
  /\ call[c] = "calling"
  /\ call' = [call EXCEPT ![c] = "idle"]
  /\ UNCHANGED <<max, clock, bracket>>

(* What _tokens_from reads of a call that cost this much: the counts it
   does not find are zero, and what is left is taken for the whole. *)
Readable(cost) == 0..cost

(***************************************************************************)
(* on_llm_end: the usage is recorded, or that it could not be read.        *)
(***************************************************************************)
CallRecorded(c) ==
  /\ CallReturns(c)
  /\ \E cost \in 0..MaxCost, use \in 1..MaxUse :
       /\ \E read \in Readable(cost) :
            usd' = usd + read /\ untold' = untold + (cost - read)
       /\ billed' = billed + cost
       /\ tokens' = tokens + use
  /\ calls' = calls + 1
  /\ UNCHANGED unmetered

(* Mutant: what cannot be read is recorded as nothing used. *)
RecordedAsFree(c) ==
  /\ CallReturns(c)
  /\ \E cost \in 0..MaxCost : billed' = billed + cost
  /\ calls' = calls + 1
  /\ UNCHANGED <<usd, tokens, unmetered, untold>>

CallUnmetered(c) ==
  /\ CallReturns(c)
  /\ \E cost \in 0..MaxCost : billed' = billed + cost
  /\ unmetered' = unmetered + 1
  /\ calls' = calls + 1
  /\ UNCHANGED <<usd, tokens, untold>>

(***************************************************************************)
(* A call that raises, a timeout among them, fires no on_llm_end: the      *)
(* meter learns nothing of it.                                             *)
(***************************************************************************)
CallRaises(c) == CallReturns(c) /\ UNCHANGED meter

(* _work takes its snapshot, and calls run_sprint. *)
SprintBegins ==
  /\ sprint = "none" /\ sprints < MaxRuns
  /\ ~Breach
  /\ sprint' = "working"
  /\ workMark' = usd
  /\ UNCHANGED <<max, meter, clock, call, mark, booked, sprints>>

(* run_sprint takes its own, and starts the graph. *)
BracketOpens ==
  /\ sprint = "working"
  /\ sprint' = "running"
  /\ mark' = usd
  /\ UNCHANGED <<max, meter, clock, call, workMark, booked, sprints>>

(* The sprint's record is handed to the journal with this spend, and the
   supervisor counts the sprint. *)
Booked(spend) ==
  /\ InFlight = {}
  /\ sprint' = "none"
  /\ booked' = booked + spend
  /\ sprints' = sprints + 1
  /\ call' = [c \in Callers |-> "idle"]
  /\ UNCHANGED <<max, meter, clock, workMark, mark>>

(* Mutant: the difference is taken the wrong way round. *)
SprintReportsSwapped == sprint = "running" /\ Booked(mark - usd)

(***************************************************************************)
(* run_sprint returns, and has journalled what was spent since its         *)
(* snapshot, whether it came to its end or the budget stopped it.          *)
(***************************************************************************)
SprintReports == sprint = "running" /\ Booked(usd - mark)

(* Mutant: a sprint that crashes is booked from run_sprint's snapshot. *)
SprintCrashesMarked == sprint \in {"working", "running"} /\ Booked(usd - mark)

(* Mutant: a sprint that crashes is journalled without its spend. *)
SprintCrashesUnbooked == sprint \in {"working", "running"} /\ Booked(0)

(***************************************************************************)
(* run_sprint raises, before its snapshot or after it, and has journalled  *)
(* nothing: _work journals what was spent since its own.                   *)
(***************************************************************************)
SprintCrashes == sprint \in {"working", "running"} /\ Booked(usd - workMark)

Call(c) == CallStarts(c) \/ CallRecorded(c) \/ CallUnmetered(c) \/ CallRaises(c)

(***************************************************************************)
(* The supervisor stops at a ceiling.                                      *)
(***************************************************************************)
Stopped == sprint = "none" /\ (Breach \/ sprints = MaxRuns) /\ UNCHANGED vars

Next ==
  \/ Tick
  \/ \E c \in Callers : Call(c)
  \/ SprintBegins \/ BracketOpens
  \/ SprintReports \/ SprintCrashes
  \/ Stopped

Spec == Init /\ [][Next]_vars

-----------------------------------------------------------------------------
(* Every variable keeps its type; what the journal adds up to is never
   negative. *)
TypeOK ==
  /\ max \in Limits
  /\ usd \in Nat /\ tokens \in Nat /\ unmetered \in Nat /\ calls \in Nat
  /\ billed \in Nat /\ untold \in Nat /\ clock \in Nat
  /\ call \in [Callers -> {"idle", "calling", "refused"}]
  /\ sprint \in {"none", "working", "running"}
  /\ workMark \in Nat /\ mark \in Nat /\ booked \in Nat /\ sprints \in Nat

K == Cardinality(Callers)

(***************************************************************************)
(* "the governor can overshoot by at most one call": by one per caller,    *)
(* each of which may have passed the check before the others recorded.     *)
(***************************************************************************)
OvershootBounded ==
  max.usd # 0 => usd + Cardinality(InFlight) * MaxCost < max.usd + K * MaxCost

(***************************************************************************)
(* The guard does not fail open: with a ceiling on the spend, and the      *)
(* guard on the meter, what is really billed stays within a bound, however *)
(* many of the responses cannot be read.  Beyond the bound goes only what  *)
(* responses that could be read in part left out: nothing counts those.    *)
(***************************************************************************)
FailsClosed ==
  max.usd # 0 /\ max.unmetered # 0 =>
    billed < max.usd + (max.unmetered - 1 + K) * MaxCost + untold

(***************************************************************************)
(* Between sprints the records handed to the journal account for all the   *)
(* money recorded, and account for it once: the snapshot a sprint is       *)
(* booked from is the one its way of ending calls for, whether it crashed  *)
(* before run_sprint took its own, in the graph, or not at all.            *)
(***************************************************************************)
SpendIsJournalled == sprint = "none" => booked = usd
=============================================================================

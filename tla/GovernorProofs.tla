----------------------------- MODULE GovernorProofs -----------------------------
(***************************************************************************)
(* What the budget guard guarantees for any number of callers, any         *)
(* ceilings and any cost of a call.                                        *)
(***************************************************************************)
EXTENDS Governor, FiniteSetTheorems, TLAPS

LEMMA GovernorBounds ==
  IsFiniteSet(Callers) /\ MaxCost \in Nat /\ MaxUse \in Nat /\ Limits \subseteq Limit
BY Zenon, GovernorAssumption DEF GovernorAssumption

LEMMA MaxTyped ==
  ASSUME max \in Limits
  PROVE  /\ max.usd \in Nat /\ max.tokens \in Nat /\ max.wall \in Nat
         /\ max.sprints \in Nat /\ max.unmetered \in Nat
BY GovernorBounds DEF Limit

(***************************************************************************)
(* SpendOK is the numeric part of TypeOK.  The brackets need that what is  *)
(* recorded never falls below a snapshot.                                  *)
(***************************************************************************)
SpendOK ==
  /\ usd \in Nat /\ tokens \in Nat /\ unmetered \in Nat /\ calls \in Nat
  /\ billed \in Nat /\ untold \in Nat /\ clock \in Nat
  /\ workMark \in Nat /\ mark \in Nat /\ booked \in Nat /\ sprints \in Nat

TypeInv ==
  /\ TypeOK
  /\ workMark <= usd /\ mark <= usd

LEMMA TypeInit == Init => TypeInv
<1>1. Init => SpendOK /\ workMark <= usd /\ mark <= usd
  BY DEF Init, SpendOK
<1>2. Init => max \in Limits /\ sprint \in {"none", "working", "running"}
              /\ call \in [Callers -> {"idle", "calling", "refused"}]
  BY DEF Init
<1> QED BY <1>1, <1>2 DEF TypeInv, TypeOK, SpendOK

LEMMA TypeNext == TypeInv /\ [Next]_vars => TypeInv'
<1> SUFFICES ASSUME TypeInv, [Next]_vars PROVE TypeInv'
  OBVIOUS
<1> USE GovernorBounds DEF TypeInv, TypeOK, meter, bracket
<1>1. CASE Tick
  BY <1>1 DEF Tick
<1>2. ASSUME NEW c \in Callers, CallStarts(c) PROVE TypeInv'
  BY <1>2 DEF CallStarts
<1>3. ASSUME NEW c \in Callers, CallRecorded(c) PROVE TypeInv'
  <2>1. PICK cost \in 0..MaxCost, use \in 1..MaxUse :
          /\ \E read \in Readable(cost) :
               usd' = usd + read /\ untold' = untold + (cost - read)
          /\ billed' = billed + cost /\ tokens' = tokens + use
    BY <1>3 DEF CallRecorded
  <2>2. PICK read \in Readable(cost) :
          usd' = usd + read /\ untold' = untold + (cost - read)
    BY <2>1
  <2>3. cost \in Nat /\ use \in Nat /\ read \in Nat /\ cost - read \in Nat
    BY <2>2 DEF Readable
  <2> QED BY <1>3, <2>1, <2>2, <2>3 DEF CallRecorded, CallReturns
<1>4. ASSUME NEW c \in Callers, CallUnmetered(c) PROVE TypeInv'
  <2>1. PICK cost \in 0..MaxCost : billed' = billed + cost
    BY <1>4 DEF CallUnmetered
  <2>2. cost \in Nat
    OBVIOUS
  <2> QED BY <1>4, <2>1, <2>2 DEF CallUnmetered, CallReturns
<1>5. ASSUME NEW c \in Callers, CallRaises(c) PROVE TypeInv'
  BY <1>5 DEF CallRaises, CallReturns
<1>6. CASE SprintBegins
  BY <1>6 DEF SprintBegins
<1>7. CASE BracketOpens
  BY <1>7 DEF BracketOpens
<1>8. CASE SprintReports
  <2>1. booked' = booked + (usd - mark) /\ booked' \in Nat
    BY <1>8 DEF SprintReports, Booked
  <2> QED BY <1>8, <2>1 DEF SprintReports, Booked
<1>9. CASE SprintCrashes
  <2>1. booked' = booked + (usd - workMark) /\ booked' \in Nat
    BY <1>9 DEF SprintCrashes, Booked
  <2> QED BY <1>9, <2>1 DEF SprintCrashes, Booked
<1>10. CASE UNCHANGED vars
  BY <1>10 DEF vars
<1> QED BY <1>1, <1>2, <1>3, <1>4, <1>5, <1>6, <1>7, <1>8, <1>9, <1>10
        DEF Next, Call, Stopped

(***************************************************************************)
(* Every variable keeps its type.                                          *)
(***************************************************************************)
THEOREM GovernorTypeCorrect == Spec => []TypeOK
<1>1. TypeInv => TypeOK
  BY DEF TypeInv
<1> QED BY <1>1, TypeInit, TypeNext, PTL DEF Spec

-----------------------------------------------------------------------------
(***************************************************************************)
(* The callers in flight, before and after a call starts or returns.       *)
(***************************************************************************)
LEMMA InFlightFinite ==
  /\ IsFiniteSet(InFlight) /\ Cardinality(InFlight) \in Nat
  /\ K \in Nat /\ Cardinality(InFlight) <= K
BY GovernorBounds, FS_Subset, FS_CardinalityType DEF InFlight, K

LEMMA CallReturnsCount ==
  ASSUME TypeOK, NEW c \in Callers, CallReturns(c)
  PROVE  Cardinality(InFlight') = Cardinality(InFlight) - 1
<1>1. c \in InFlight /\ InFlight' = InFlight \ {c}
  BY DEF TypeOK, InFlight, CallReturns
<1> QED BY <1>1, InFlightFinite, FS_RemoveElement

LEMMA MulMonotone ==
  ASSUME NEW m \in Nat, NEW n \in Nat, NEW C \in Nat, m <= n
  PROVE  m * C <= n * C /\ m * C \in Nat /\ n * C \in Nat
OBVIOUS

LEMMA MulStep ==
  ASSUME NEW n \in Nat, NEW C \in Nat, n >= 1
  PROVE  (n - 1) * C = n * C - C
OBVIOUS

LEMMA CallStartsCount ==
  ASSUME TypeOK, NEW c \in Callers, CallStarts(c)
  PROVE  ~Breach \/ InFlight' = InFlight
<1>1. CASE Breach
  BY <1>1 DEF TypeOK, InFlight, CallStarts
<1> QED BY <1>1

(* No more is recorded of a call than it can cost. *)
LEMMA RecordedWithin ==
  ASSUME NEW c, CallRecorded(c)
  PROVE  \E read \in 0..MaxCost : usd' = usd + read
<1>1. PICK cost \in 0..MaxCost : \E read \in Readable(cost) : usd' = usd + read
  BY DEF CallRecorded
<1>2. PICK read \in Readable(cost) : usd' = usd + read
  BY <1>1
<1>3. read \in 0..MaxCost
  BY GovernorBounds DEF Readable
<1> QED BY <1>2, <1>3

LEMMA NotBreached ==
  ASSUME TypeOK, ~Breach
  PROVE  /\ max.usd # 0 => usd < max.usd
         /\ max.usd # 0 /\ max.unmetered # 0 => unmetered < max.unmetered
BY MaxTyped DEF TypeOK, Breach, Reached, MeterIsLoadBearing

-----------------------------------------------------------------------------
(***************************************************************************)
(* The overshoot.  The invariant is inductive: the calls in flight are     *)
(* charged in advance, at what the dearest of them could cost.             *)
(***************************************************************************)
LEMMA OvershootNext == TypeInv /\ OvershootBounded /\ [Next]_vars => OvershootBounded'
<1> SUFFICES ASSUME TypeInv, OvershootBounded, [Next]_vars, max'.usd # 0
             PROVE  usd' + Cardinality(InFlight') * MaxCost < max'.usd + K * MaxCost
  BY DEF OvershootBounded
<1>t. TypeOK /\ TypeInv'
  BY TypeNext DEF TypeInv
<1>n. /\ usd \in Nat /\ max.usd \in Nat /\ usd' \in Nat
      /\ Cardinality(InFlight) \in Nat /\ Cardinality(InFlight') \in Nat
      /\ K \in Nat /\ MaxCost \in Nat /\ Cardinality(InFlight') <= K
  <2>1. IsFiniteSet(InFlight') /\ Cardinality(InFlight') \in Nat /\ Cardinality(InFlight') <= K
    BY GovernorBounds, FS_Subset, FS_CardinalityType DEF InFlight, K
  <2> QED BY <1>t, <2>1, InFlightFinite, GovernorBounds, MaxTyped DEF TypeInv, TypeOK
<1>0. max' = max
  BY DEF Next, Call, Tick, CallStarts, CallRecorded, CallUnmetered, CallRaises, CallReturns,
         SprintBegins, BracketOpens, SprintReports, SprintCrashes, Booked, Stopped, vars
<1>b. usd + Cardinality(InFlight) * MaxCost < max.usd + K * MaxCost
  BY <1>0 DEF OvershootBounded
<1>1. ASSUME usd' = usd, InFlight' = InFlight
      PROVE  usd' + Cardinality(InFlight') * MaxCost < max'.usd + K * MaxCost
  BY <1>0, <1>1, <1>b
<1>2. ASSUME NEW c \in Callers, CallStarts(c)
      PROVE  usd' + Cardinality(InFlight') * MaxCost < max'.usd + K * MaxCost
  <2>1. usd' = usd
    BY <1>2 DEF CallStarts, meter
  <2>2. CASE InFlight' = InFlight
    BY <1>1, <2>1, <2>2
  <2>3. CASE ~Breach
    <3>1. usd < max.usd
      BY <1>0, <1>t, <2>3, NotBreached
    <3>2. Cardinality(InFlight') * MaxCost <= K * MaxCost
          /\ Cardinality(InFlight') * MaxCost \in Nat /\ K * MaxCost \in Nat
      BY <1>n, MulMonotone
    <3> QED BY <1>0, <1>n, <2>1, <3>1, <3>2
  <2> QED BY <1>2, <1>t, <2>2, <2>3, CallStartsCount
<1>3. ASSUME NEW c \in Callers, CallReturns(c), NEW cost \in 0..MaxCost, usd' = usd + cost
      PROVE  usd' + Cardinality(InFlight') * MaxCost < max'.usd + K * MaxCost
  <2>1. Cardinality(InFlight') = Cardinality(InFlight) - 1
    BY <1>3, <1>t, CallReturnsCount
  <2>2. Cardinality(InFlight') * MaxCost = Cardinality(InFlight) * MaxCost - MaxCost
    BY <2>1, <1>n, MulStep
  <2>3. K * MaxCost \in Nat /\ Cardinality(InFlight) * MaxCost \in Nat
    BY <1>n, MulMonotone
  <2> QED BY <1>0, <1>3, <1>b, <1>n, <2>2, <2>3
<1>4. ASSUME NEW c \in Callers, CallRecorded(c)
      PROVE  usd' + Cardinality(InFlight') * MaxCost < max'.usd + K * MaxCost
  BY <1>3, <1>4, RecordedWithin DEF CallRecorded
<1>5. ASSUME NEW c \in Callers, CallUnmetered(c) \/ CallRaises(c)
      PROVE  usd' + Cardinality(InFlight') * MaxCost < max'.usd + K * MaxCost
  <2>1. 0 \in 0..MaxCost /\ usd' = usd + 0 /\ CallReturns(c)
    BY <1>5, <1>n DEF CallUnmetered, CallRaises, meter
  <2> QED BY <1>3, <2>1
<1>6. CASE SprintReports \/ SprintCrashes
  BY <1>1, <1>6 DEF SprintReports, SprintCrashes, Booked, InFlight, meter
<1>7. CASE Tick \/ SprintBegins \/ BracketOpens \/ UNCHANGED vars
  BY <1>1, <1>7 DEF Tick, SprintBegins, BracketOpens, InFlight, vars, meter
<1> QED BY <1>2, <1>4, <1>5, <1>6, <1>7 DEF Next, Call, Stopped

(***************************************************************************)
(* The ceiling on the spend is overshot by less than one call per caller,  *)
(* whatever the number of callers and the cost of a call.                  *)
(***************************************************************************)
THEOREM OvershootIsBounded == Spec => []OvershootBounded
<1>1. Init => OvershootBounded
  <2> SUFFICES ASSUME Init, max.usd # 0
               PROVE  usd + Cardinality(InFlight) * MaxCost < max.usd + K * MaxCost
    BY DEF OvershootBounded
  <2>1. InFlight = {} /\ usd = 0 /\ max \in Limits
    BY DEF Init, InFlight
  <2>2. Cardinality(InFlight) = 0 /\ max.usd \in Nat
    BY <2>1, FS_EmptySet, MaxTyped
  <2>3. K * MaxCost \in Nat /\ 0 * MaxCost = 0
    BY InFlightFinite, GovernorBounds, MulMonotone
  <2> QED BY <2>1, <2>2, <2>3
<1> QED BY <1>1, TypeInit, TypeNext, OvershootNext, PTL DEF Spec
-----------------------------------------------------------------------------
(***************************************************************************)
(* What is really billed.  Calls nobody could meter are charged at what    *)
(* they could cost, and so are the calls in flight; what is read of a call *)
(* is never more than it cost.                                             *)
(***************************************************************************)
Billed == billed <= usd + unmetered * MaxCost + untold

Charged ==
  max.usd # 0 /\ max.unmetered # 0 =>
    usd + (unmetered + Cardinality(InFlight)) * MaxCost
      < max.usd + (max.unmetered - 1 + K) * MaxCost

LEMMA MulAdd ==
  ASSUME NEW n \in Nat, NEW C \in Nat
  PROVE  (n + 1) * C = n * C + C
OBVIOUS

LEMMA BilledNext ==
  ASSUME TypeInv, Billed, [Next]_vars
  PROVE  Billed'
<1>n. /\ usd \in Nat /\ billed \in Nat /\ untold \in Nat
      /\ unmetered \in Nat /\ MaxCost \in Nat
      /\ unmetered * MaxCost \in Nat
  BY GovernorBounds, MulMonotone DEF TypeInv, TypeOK
<1>1. ASSUME NEW c \in Callers, CallRecorded(c) PROVE Billed'
  <2>1. PICK cost \in 0..MaxCost, read \in 0..MaxCost :
          /\ usd' = usd + read /\ untold' = untold + (cost - read)
          /\ billed' = billed + cost
    BY <1>1, <1>n DEF CallRecorded, Readable
  <2> QED BY <1>1, <1>n, <2>1 DEF CallRecorded, Billed
<1>2. ASSUME NEW c \in Callers, CallUnmetered(c) PROVE Billed'
  <2>1. PICK cost \in 0..MaxCost : billed' = billed + cost
    BY <1>2 DEF CallUnmetered
  <2>2. (unmetered + 1) * MaxCost = unmetered * MaxCost + MaxCost
    BY <1>n, MulAdd
  <2>3. usd' = usd /\ untold' = untold /\ unmetered' = unmetered + 1
    BY <1>2 DEF CallUnmetered
  <2>4. unmetered' * MaxCost = unmetered * MaxCost + MaxCost
    BY <2>2, <2>3
  <2> QED BY <1>n, <2>1, <2>3, <2>4 DEF Billed
<1>3. ASSUME NEW c \in Callers, CallStarts(c) \/ CallRaises(c) PROVE Billed'
  BY <1>3 DEF CallStarts, CallRaises, meter, Billed
<1>4. CASE \/ Tick \/ SprintBegins \/ BracketOpens \/ SprintReports \/ SprintCrashes
           \/ UNCHANGED vars
  BY <1>4 DEF Tick, SprintBegins, BracketOpens, SprintReports, SprintCrashes, Booked,
              vars, meter, Billed
<1> QED BY <1>1, <1>2, <1>3, <1>4 DEF Next, Call, Stopped

LEMMA ChargedNext == TypeInv /\ Charged /\ [Next]_vars => Charged'
<1> SUFFICES ASSUME TypeInv, Charged, [Next]_vars, max'.usd # 0, max'.unmetered # 0
             PROVE  usd' + (unmetered' + Cardinality(InFlight')) * MaxCost
                      < max'.usd + (max'.unmetered - 1 + K) * MaxCost
  BY DEF Charged
<1> DEFINE Goal == usd' + (unmetered' + Cardinality(InFlight')) * MaxCost
                     < max'.usd + (max'.unmetered - 1 + K) * MaxCost
<1>t. TypeOK /\ TypeInv'
  BY TypeNext DEF TypeInv
<1>0. max' = max
  BY DEF Next, Call, Tick, CallStarts, CallRecorded, CallUnmetered, CallRaises, CallReturns,
         SprintBegins, BracketOpens, SprintReports, SprintCrashes, Booked, Stopped, vars
<1>n. /\ usd \in Nat /\ max.usd \in Nat /\ usd' \in Nat
      /\ unmetered \in Nat /\ unmetered' \in Nat /\ max.unmetered \in Nat
      /\ Cardinality(InFlight) \in Nat /\ Cardinality(InFlight') \in Nat
      /\ K \in Nat /\ MaxCost \in Nat /\ Cardinality(InFlight') <= K
  <2>1. IsFiniteSet(InFlight') /\ Cardinality(InFlight') \in Nat /\ Cardinality(InFlight') <= K
    BY GovernorBounds, FS_Subset, FS_CardinalityType DEF InFlight, K
  <2> QED BY <1>t, <2>1, InFlightFinite, GovernorBounds, MaxTyped DEF TypeInv, TypeOK
<1>p. /\ max.unmetered - 1 + K \in Nat
      /\ (max.unmetered - 1 + K) * MaxCost \in Nat
      /\ (unmetered + Cardinality(InFlight)) * MaxCost \in Nat
  <2>1. max.unmetered - 1 + K \in Nat
    BY <1>0, <1>n
  <2> QED BY <1>n, <2>1, MulMonotone
<1>b. usd + (unmetered + Cardinality(InFlight)) * MaxCost
        < max.usd + (max.unmetered - 1 + K) * MaxCost
  BY <1>0 DEF Charged
<1>1. ASSUME usd' = usd, unmetered' = unmetered, InFlight' = InFlight PROVE Goal
  BY <1>0, <1>1, <1>b
<1>2. ASSUME NEW c \in Callers, CallStarts(c) PROVE Goal
  <2>1. usd' = usd /\ unmetered' = unmetered
    BY <1>2 DEF CallStarts, meter
  <2>2. CASE InFlight' = InFlight
    BY <1>1, <2>1, <2>2
  <2>3. CASE ~Breach
    <3>1. usd < max.usd /\ unmetered < max.unmetered
      BY <1>0, <1>t, <2>3, NotBreached
    <3>2. /\ unmetered + Cardinality(InFlight') \in Nat
          /\ unmetered + Cardinality(InFlight') <= max.unmetered - 1 + K
      BY <1>n, <3>1
    <3>3. (unmetered + Cardinality(InFlight')) * MaxCost <= (max.unmetered - 1 + K) * MaxCost
          /\ (unmetered + Cardinality(InFlight')) * MaxCost \in Nat
      BY <1>n, <1>p, <3>2, MulMonotone
    <3> QED BY <1>0, <1>n, <1>p, <2>1, <3>1, <3>3
  <2> QED BY <1>2, <1>t, <2>2, <2>3, CallStartsCount
<1>3. ASSUME NEW c \in Callers, CallReturns(c), NEW cost \in 0..MaxCost,
             usd' = usd + cost, unmetered' = unmetered
      PROVE  Goal
  <2>1. Cardinality(InFlight') = Cardinality(InFlight) - 1
    BY <1>3, <1>t, CallReturnsCount
  <2>2. /\ unmetered + Cardinality(InFlight) \in Nat /\ unmetered + Cardinality(InFlight) >= 1
        /\ unmetered' + Cardinality(InFlight') = (unmetered + Cardinality(InFlight)) - 1
    BY <1>3, <1>n, <2>1
  <2>3. (unmetered' + Cardinality(InFlight')) * MaxCost
          = (unmetered + Cardinality(InFlight)) * MaxCost - MaxCost
    BY <1>n, <2>2, MulStep
  <2> QED BY <1>0, <1>3, <1>b, <1>n, <1>p, <2>3
<1>4. ASSUME NEW c \in Callers, CallRecorded(c) PROVE Goal
  BY <1>3, <1>4, RecordedWithin DEF CallRecorded
<1>5. ASSUME NEW c \in Callers, CallUnmetered(c) PROVE Goal
  <2>1. Cardinality(InFlight') = Cardinality(InFlight) - 1
    BY <1>5, <1>t, CallReturnsCount DEF CallUnmetered
  <2>2. usd' = usd /\ unmetered' = unmetered + 1
    BY <1>5 DEF CallUnmetered
  <2>3. unmetered' + Cardinality(InFlight') = unmetered + Cardinality(InFlight)
    BY <1>n, <2>1, <2>2
  <2> QED BY <1>0, <1>b, <2>2, <2>3
<1>6. ASSUME NEW c \in Callers, CallRaises(c) PROVE Goal
  <2>1. 0 \in 0..MaxCost /\ usd' = usd + 0 /\ unmetered' = unmetered /\ CallReturns(c)
    BY <1>6, <1>n DEF CallRaises, meter
  <2> QED BY <1>3, <2>1
<1>7. CASE SprintReports \/ SprintCrashes
  <2>1. InFlight' = InFlight /\ usd' = usd /\ unmetered' = unmetered
    BY <1>7 DEF SprintReports, SprintCrashes, Booked, InFlight, meter
  <2> QED BY <1>1, <2>1
<1>8. CASE Tick \/ SprintBegins \/ BracketOpens \/ UNCHANGED vars
  <2>1. InFlight' = InFlight /\ usd' = usd /\ unmetered' = unmetered
    BY <1>8 DEF Tick, SprintBegins, BracketOpens, InFlight, vars, meter
  <2> QED BY <1>1, <2>1
<1> QED BY <1>2, <1>4, <1>5, <1>6, <1>7, <1>8 DEF Next, Call, Stopped

(***************************************************************************)
(* With a ceiling on the spend and a guard on the meter, what is really    *)
(* billed is bounded, even if no response can ever be read; only what      *)
(* responses that can be read in part leave out comes on top.              *)
(***************************************************************************)
THEOREM TheGuardFailsClosed == Spec => []FailsClosed
<1>1. Init => Billed /\ Charged
  <2> SUFFICES ASSUME Init PROVE Billed /\ Charged
    OBVIOUS
  <2>1. InFlight = {} /\ usd = 0 /\ unmetered = 0 /\ billed = 0 /\ untold = 0
        /\ max \in Limits
    BY DEF Init, InFlight
  <2>2. Cardinality(InFlight) = 0 /\ max.usd \in Nat /\ max.unmetered \in Nat
    BY <2>1, FS_EmptySet, MaxTyped
  <2>3. 0 * MaxCost = 0 /\ MaxCost \in Nat /\ K \in Nat
    BY GovernorBounds, InFlightFinite
  <2>4. Billed
    BY <2>1, <2>3 DEF Billed
  <2>5. ASSUME max.usd # 0, max.unmetered # 0
        PROVE  usd + (unmetered + Cardinality(InFlight)) * MaxCost
                 < max.usd + (max.unmetered - 1 + K) * MaxCost
    <3>1. max.unmetered - 1 + K \in Nat
      BY <2>2, <2>3, <2>5
    <3>2. (max.unmetered - 1 + K) * MaxCost \in Nat
      BY <2>3, <3>1, MulMonotone
    <3> QED BY <2>1, <2>2, <2>3, <2>5, <3>2
  <2> QED BY <2>4, <2>5 DEF Charged
<1>2. TypeInv /\ Billed /\ Charged => FailsClosed
  <2> SUFFICES ASSUME TypeInv, Billed, Charged, max.usd # 0, max.unmetered # 0
               PROVE  billed < max.usd + (max.unmetered - 1 + K) * MaxCost + untold
    BY DEF FailsClosed
  <2>1. /\ usd \in Nat /\ billed \in Nat /\ untold \in Nat /\ unmetered \in Nat /\ max.usd \in Nat
        /\ max.unmetered - 1 + K \in Nat /\ MaxCost \in Nat
        /\ Cardinality(InFlight) \in Nat
    BY GovernorBounds, InFlightFinite, MaxTyped DEF TypeInv, TypeOK
  <2>2. /\ unmetered * MaxCost <= (unmetered + Cardinality(InFlight)) * MaxCost
        /\ unmetered * MaxCost \in Nat
        /\ (unmetered + Cardinality(InFlight)) * MaxCost \in Nat
        /\ (max.unmetered - 1 + K) * MaxCost \in Nat
    BY <2>1, MulMonotone
  <2> QED BY <2>1, <2>2 DEF Billed, Charged
<1>3. TypeInv /\ Billed /\ [Next]_vars => Billed'
  BY BilledNext
<1> QED BY <1>1, <1>2, <1>3, TypeInit, TypeNext, ChargedNext, PTL DEF Spec

-----------------------------------------------------------------------------
(***************************************************************************)
(* The journal.  While a sprint is under way, the journal holds what was   *)
(* recorded up to either snapshot: nothing is spent between the two, for   *)
(* calls are made only past the second.                                    *)
(***************************************************************************)
Bracketed ==
  /\ sprint = "none" => booked = usd /\ InFlight = {}
  /\ sprint = "working" => booked = usd /\ workMark = usd /\ InFlight = {}
  /\ sprint = "running" => booked = mark /\ booked = workMark

LEMMA BracketedNext == TypeInv /\ Bracketed /\ [Next]_vars => Bracketed'
<1> SUFFICES ASSUME TypeInv, Bracketed, [Next]_vars PROVE Bracketed'
  OBVIOUS
<1> USE DEF bracket
<1>1. ASSUME NEW c \in Callers, CallStarts(c) PROVE Bracketed'
  BY <1>1 DEF CallStarts, Bracketed
<1>2. ASSUME NEW c \in Callers, CallReturns(c) PROVE Bracketed'
  <2>1. c \in InFlight
    BY <1>2 DEF CallReturns, InFlight
  <2> QED BY <1>2, <2>1 DEF CallReturns, Bracketed, TypeInv, TypeOK
<1>3. CASE Tick
  BY <1>3 DEF Tick, Bracketed, InFlight, meter
<1>4. CASE SprintBegins
  BY <1>4 DEF SprintBegins, Bracketed, InFlight, meter
<1>5. CASE BracketOpens
  BY <1>5 DEF BracketOpens, Bracketed, meter
<1>6. CASE SprintReports \/ SprintCrashes
  <2>1. /\ \/ booked' = booked + (usd - mark) /\ booked = mark
           \/ booked' = booked + (usd - workMark) /\ booked = workMark
        /\ usd' = usd /\ sprint' = "none"
    BY <1>6 DEF SprintReports, SprintCrashes, Booked, Bracketed, meter
  <2>2. booked' = usd'
    BY <2>1 DEF TypeInv, TypeOK
  <2>3. InFlight' = {}
    BY <1>6 DEF SprintReports, SprintCrashes, Booked, InFlight
  <2> QED BY <2>1, <2>2, <2>3 DEF Bracketed
<1>7. CASE UNCHANGED vars
  BY <1>7 DEF vars, meter, Bracketed, InFlight
<1> QED BY <1>1, <1>2, <1>3, <1>4, <1>5, <1>6, <1>7
        DEF Next, Call, CallRecorded, CallUnmetered, CallRaises, Stopped

(***************************************************************************)
(* Between sprints the journal's records add up to the money recorded: no  *)
(* call falls outside the brackets, and none is in two of them, however    *)
(* the sprints end.                                                        *)
(***************************************************************************)
THEOREM TheJournalAccounts == Spec => []SpendIsJournalled
<1>1. Init => Bracketed
  BY DEF Init, Bracketed, InFlight
<1>2. Bracketed => SpendIsJournalled
  BY DEF Bracketed, SpendIsJournalled
<1> QED BY <1>1, <1>2, TypeInit, TypeNext, BracketedNext, PTL DEF Spec
=============================================================================

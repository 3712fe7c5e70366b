---------------------------- MODULE LlmCacheProofs ----------------------------
(***************************************************************************)
(* Theorems of LlmCache, for any number of callers, purposes, tiers, event *)
(* loops and clients.                                                      *)
(***************************************************************************)
EXTENDS LlmCache, SequenceTheorems, TLAPS

Kinds == {"sync", "node", "bench", "own"}
Client == [loop : 0 .. MaxLoops, failed : {"none"} \cup Kinds]
Call == [kind : Kinds, key : Keys, client : 1 .. Len(clients)]

LEMMA BoundsAreNumbers == MaxLoops \in Nat /\ MaxClients \in Nat
  BY LlmCacheAssumption DEF LlmCacheAssumption

(* The two parts of a key are all there is to it. *)
LEMMA KeyParts ==
  ASSUME NEW k \in Keys, NEW l \in Keys, k[1] = l[1], k[2] = l[2]
  PROVE  k = l
  BY DEF Keys

(* What is left of a caller and of an entry once their types are known. *)
LEMMA IdleOrNot == Idle.kind = "idle" /\ NoEntry.loop = 0 /\ NoEntry.client = 0
  BY DEF Idle, NoEntry

(***************************************************************************)
(* What the types alone do not say: an entry of the async cache holds a    *)
(* client, bound to a loop that has been opened; a client that is cached   *)
(* is cached for one key; and a node that is in a call has its client from *)
(* the entry of its own key, if the client is in the cache at all.         *)
(***************************************************************************)
Opened ==
  /\ loop <= loops
  /\ \A k \in Keys : async[k].loop <= loops /\ (async[k].loop # 0 => async[k].client # 0)

OneKeyEach ==
  /\ \A k, l \in Keys : async[k].client = async[l].client /\ async[k].client # 0 => k = l
  /\ \A c \in Callers, k \in Keys :
       calls[c].kind = "node" /\ calls[c].client = async[k].client => calls[c].key = k

(***************************************************************************)
(* What the async cache holds for the running loop is good on it.          *)
(***************************************************************************)
UsableHere ==
  \A k \in Keys : loop # 0 /\ async[k].loop = loop =>
    /\ clients[async[k].client].loop \in {0, loop}
    /\ clients[async[k].client].failed # "node"

CacheInv ==
  /\ TypeOK
  /\ DOMAIN calls = Callers
  /\ Opened /\ OneKeyEach /\ UsableHere

LEMMA CacheInit == Init => CacheInv
<1> SUFFICES ASSUME Init PROVE CacheInv
  OBVIOUS
<1>1. Len(clients) = 0 /\ clients \in Seq(Client)
  BY DEF Init
<1> QED
  BY <1>1, BoundsAreNumbers
     DEF Init, CacheInv, TypeOK, Opened, OneKeyEach, UsableHere, NoEntry, Idle, Client, Kinds

(***************************************************************************)
(* A client that is built is the last of a longer list, and no entry and   *)
(* no call has it yet.                                                     *)
(***************************************************************************)
LEMMA BuiltLast ==
  ASSUME CacheInv, Build
  PROVE  /\ clients' \in Seq(Client) /\ Len(clients') = Fresh /\ Fresh \in Nat \ {0}
         /\ \A n \in 1 .. Len(clients) : clients'[n] = clients[n]
         /\ clients'[Fresh] = [loop |-> 0, failed |-> "none"]
         /\ Fresh \notin 0 .. Len(clients) /\ Len(clients) \in Nat
<1>1. clients \in Seq(Client) /\ [loop |-> 0, failed |-> "none"] \in Client
  BY BoundsAreNumbers DEF CacheInv, TypeOK, Client, Kinds
<1> QED
  BY <1>1, AppendProperties DEF Build, Fresh

LEMMA LoopsStep ==
  ASSUME CacheInv, OpenLoop \/ CloseLoop
  PROVE  CacheInv'
<1> USE BoundsAreNumbers DEF CacheInv, TypeOK
<1>1. CASE OpenLoop
  BY <1>1 DEF OpenLoop, Opened, OneKeyEach, UsableHere
<1>2. CASE CloseLoop
  BY <1>2 DEF CloseLoop, Opened, OneKeyEach, UsableHere, Idle
<1> QED
  BY <1>1, <1>2

(* The new call of a caller that was idle, with a client of the list. *)
LEMMA Begun ==
  ASSUME CacheInv, NEW c \in Callers, NEW kind \in Kinds, NEW key \in Keys,
         NEW client \in 1 .. Len(clients'), Begin(c, kind, key, client),
         Len(clients) <= Len(clients'), Len(clients) \in Nat, Len(clients') \in Nat
  PROVE  /\ DOMAIN calls' = Callers
         /\ \A d \in Callers : calls'[d] = Idle \/ calls'[d] \in Call'
         /\ \A d \in Callers : d # c => calls'[d] = calls[d]
         /\ calls'[c] = [kind |-> kind, key |-> key, client |-> client]
<1>1. /\ DOMAIN calls' = Callers
      /\ \A d \in Callers : d # c => calls'[d] = calls[d]
      /\ calls'[c] = [kind |-> kind, key |-> key, client |-> client]
  BY DEF Begin, CacheInv
<1>2. \A d \in Callers : calls[d] = Idle \/ calls[d] \in Call
  BY DEF CacheInv, TypeOK, Call, Kinds
<1>3. \A d \in Callers : calls[d] \in Call => calls[d] \in Call'
  BY DEF Call
<1>4. calls'[c] \in Call'
  BY <1>1 DEF Call
<1> QED
  BY <1>1, <1>2, <1>3, <1>4

(* What Begun and an unchanged list leave typed. *)
LEMMA CallsTyped ==
  ASSUME CacheInv, NEW c \in Callers, NEW kind \in Kinds, NEW key \in Keys,
         NEW client \in 1 .. Len(clients'), Begin(c, kind, key, client),
         UNCHANGED clients \/ Build,
         UNCHANGED <<loop, loops>>,
         sync' \in [Keys -> 0 .. Len(clients')],
         async' \in [Keys -> [loop : 0 .. MaxLoops, client : 0 .. Len(clients')]]
  PROVE  TypeOK' /\ DOMAIN calls' = Callers
<1>1. clients' \in Seq(Client) /\ Len(clients) <= Len(clients')
        /\ Len(clients) \in Nat /\ Len(clients') \in Nat
  <2>1. CASE UNCHANGED clients
    BY <2>1 DEF CacheInv, TypeOK, Client, Kinds
  <2>2. CASE Build
    BY <2>2, BuiltLast DEF Fresh
  <2> QED
    BY <2>1, <2>2
<1>2. DOMAIN calls' = Callers /\ \A d \in Callers : calls'[d] = Idle \/ calls'[d] \in Call'
  BY <1>1, Begun
<1> QED
  BY <1>1, <1>2 DEF CacheInv, TypeOK, Call, Client, Kinds

(* A longer list has room for what the shorter one had. *)
LEMMA RoomForAll ==
  ASSUME CacheInv, Build
  PROVE  /\ sync \in [Keys -> 0 .. Len(clients')]
         /\ async \in [Keys -> [loop : 0 .. MaxLoops, client : 0 .. Len(clients')]]
         /\ Fresh \in 1 .. Len(clients')
         /\ \A k \in Keys : async[k].client # Fresh
         /\ \A d \in Callers : calls[d].kind # "idle" => calls[d].client # Fresh
<1>1. 0 .. Len(clients) \subseteq 0 .. Len(clients') /\ Fresh \in 1 .. Len(clients')
        /\ Fresh \notin 0 .. Len(clients)
  BY BuiltLast DEF Fresh
<1> QED
  BY <1>1 DEF CacheInv, TypeOK, Idle

(* A call with a client that the async cache has under its own key or not at
   all leaves one key to each client. *)
LEMMA OneKeyBegun ==
  ASSUME CacheInv, NEW c \in Callers, NEW kind \in Kinds, NEW key \in Keys, NEW client,
         DOMAIN calls = Callers, Begin(c, kind, key, client), UNCHANGED async,
         kind = "node" => \A k \in Keys : async[k].client = client => k = key
  PROVE  OneKeyEach'
  BY DEF Begin, CacheInv, OneKeyEach

(* The cache is as good after a client is built as it was before. *)
LEMMA UsableBuilt ==
  ASSUME CacheInv, UNCHANGED <<loop, loops, async>>, UNCHANGED clients \/ Build
  PROVE  Opened' /\ UsableHere'
<1>1. \A k \in Keys : async[k].loop # 0 => async[k].client \in 1 .. Len(clients)
  BY DEF CacheInv, TypeOK, Opened
<1>2. \A n \in 1 .. Len(clients) : clients'[n] = clients[n]
  BY BuiltLast
<1>3. loop # 0 => \A k \in Keys : async[k].loop = loop => clients'[async[k].client] = clients[async[k].client]
  BY <1>1, <1>2
<1> QED
  BY <1>3 DEF CacheInv, Opened, UsableHere

LEMMA GetSyncStep ==
  ASSUME CacheInv, NEW c \in Callers, NEW key \in Keys, GetSync(c, key)
  PROVE  CacheInv'
<1>0. UNCHANGED <<loop, loops, async>>
  BY DEF GetSync
<1>1. CASE sync[key] # 0 /\ Begin(c, "sync", key, sync[key]) /\ UNCHANGED <<clients, sync>>
  <2>1. sync[key] \in 1 .. Len(clients')
    BY <1>1 DEF CacheInv, TypeOK
  <2>2. TypeOK' /\ DOMAIN calls' = Callers
    BY <1>0, <1>1, <2>1, CallsTyped DEF CacheInv, TypeOK, Kinds
  <2> QED
    BY <1>0, <1>1, <2>2, UsableBuilt, OneKeyBegun DEF CacheInv, Kinds
<1>2. CASE /\ Build /\ sync' = [sync EXCEPT ![key] = Fresh]
           /\ Begin(c, "sync", key, Fresh)
  <2>1. TypeOK' /\ DOMAIN calls' = Callers
    BY <1>0, <1>2, RoomForAll, CallsTyped DEF Kinds
  <2> QED
    BY <1>0, <1>2, <2>1, UsableBuilt, OneKeyBegun DEF CacheInv, Kinds
<1> QED
  BY <1>1, <1>2 DEF GetSync

LEMMA GetAsyncStep ==
  ASSUME CacheInv, NEW c \in Callers, NEW kind \in {"node", "bench"}, NEW key \in Keys,
         GetAsync(c, kind, key)
  PROVE  CacheInv'
<1>0. UNCHANGED <<loop, loops, sync>> /\ loop # 0 /\ kind \in Kinds
  BY DEF GetAsync, Kinds
<1>1. CASE ~Stale(key) /\ Begin(c, kind, key, async[key].client) /\ UNCHANGED <<clients, async>>
  <2>1. async[key].client \in 1 .. Len(clients')
    BY <1>0, <1>1 DEF Stale, CacheInv, TypeOK, Opened
  <2>2. TypeOK' /\ DOMAIN calls' = Callers
    BY <1>0, <1>1, <2>1, CallsTyped DEF CacheInv, TypeOK
  <2>3. OneKeyEach'
    BY <1>0, <1>1, <2>1, OneKeyBegun DEF CacheInv, OneKeyEach
  <2> QED
    BY <1>0, <1>1, <2>2, <2>3, UsableBuilt DEF CacheInv
<1>2. CASE /\ Build /\ async' = [async EXCEPT ![key] = [loop |-> loop, client |-> Fresh]]
           /\ Begin(c, kind, key, Fresh)
  <2>1. /\ async'[key] = [loop |-> loop, client |-> Fresh]
        /\ \A k \in Keys : k # key => async'[k] = async[k] /\ async[k].client # Fresh
    BY <1>2, RoomForAll DEF CacheInv, TypeOK
  <2>2. async' \in [Keys -> [loop : 0 .. MaxLoops, client : 0 .. Len(clients')]]
    BY <1>2, RoomForAll, BoundsAreNumbers DEF CacheInv, TypeOK
  <2>3. TypeOK' /\ DOMAIN calls' = Callers
    BY <1>0, <1>2, <2>2, RoomForAll, CallsTyped
  <2>4. Opened'
    BY <1>0, <2>1, <1>2, BuiltLast DEF CacheInv, TypeOK, Opened
  <2>5. UsableHere'
    <3>1. ASSUME NEW k \in Keys, async'[k].loop = loop'
          PROVE  /\ clients'[async'[k].client].loop \in {0, loop'}
                 /\ clients'[async'[k].client].failed # "node"
      <4>1. CASE k = key
        BY <1>0, <1>2, <2>1, <4>1, BuiltLast
      <4>2. CASE k # key
        <5>1. async[k].client \in 1 .. Len(clients)
          BY <1>0, <2>1, <3>1, <4>2 DEF CacheInv, TypeOK, Opened
        <5> QED
          BY <1>0, <1>2, <2>1, <3>1, <4>2, <5>1, BuiltLast DEF CacheInv, UsableHere
      <4> QED
        BY <4>1, <4>2
    <3> QED
      BY <3>1 DEF UsableHere
  <2>6. OneKeyEach'
    <3>1. \A k, l \in Keys : async'[k].client = async'[l].client /\ async'[k].client # 0 => k = l
      BY <2>1 DEF CacheInv, OneKeyEach
    <3>2. ASSUME NEW d \in Callers, NEW k \in Keys, calls'[d].kind = "node",
                 calls'[d].client = async'[k].client
          PROVE  calls'[d].key = k
      <4>1. CASE d = c
        BY <1>2, <2>1, <3>2, <4>1 DEF Begin, CacheInv
      <4>2. CASE d # c
        <5>1. calls'[d] = calls[d] /\ calls[d].client # Fresh
          BY <1>2, <3>2, <4>2, RoomForAll DEF Begin, CacheInv
        <5> QED
          BY <2>1, <3>2, <5>1 DEF CacheInv, OneKeyEach
      <4> QED
        BY <4>1, <4>2
    <3> QED
      BY <3>1, <3>2 DEF OneKeyEach
  <2> QED
    BY <2>3, <2>4, <2>5, <2>6 DEF CacheInv
<1> QED
  BY <1>1, <1>2 DEF GetAsync

LEMMA GetOutsideStep ==
  ASSUME CacheInv, NEW c \in Callers, NEW key \in Keys, GetOutside(c, key)
  PROVE  CacheInv'
<1>1. Build /\ Begin(c, "own", key, Fresh) /\ UNCHANGED <<loop, loops, sync, async>>
  BY DEF GetOutside
<1>2. TypeOK' /\ DOMAIN calls' = Callers
  BY <1>1, RoomForAll, CallsTyped DEF Kinds
<1> QED
  BY <1>1, <1>2, UsableBuilt, OneKeyBegun DEF CacheInv, Kinds

(***************************************************************************)
(* A client is overwritten in place, when a call answers or fails.         *)
(***************************************************************************)
LEMMA Rewritten ==
  ASSUME CacheInv, NEW n \in 1 .. Len(clients), NEW new \in Client,
         clients' = [clients EXCEPT ![n] = new]
  PROVE  /\ clients' \in Seq(Client) /\ Len(clients') = Len(clients)
         /\ clients'[n] = new
         /\ \A m \in 1 .. Len(clients) : m # n => clients'[m] = clients[m]
<1>1. clients \in Seq(Client)
  BY DEF CacheInv, TypeOK, Client, Kinds
<1> QED
  BY <1>1

LEMMA InCallTyped ==
  ASSUME CacheInv, NEW c \in Callers, InCall(c)
  PROVE  /\ calls[c] \in Call /\ calls[c].client \in 1 .. Len(clients)
         /\ clients[calls[c].client] \in Client
         /\ Bound(c) \in 0 .. MaxLoops
<1>1. calls[c] \in Call /\ calls[c].client \in 1 .. Len(clients)
  BY DEF CacheInv, TypeOK, InCall, Idle, Call, Kinds
<1>2. clients[calls[c].client] \in Client
  <2>1. clients \in Seq(Client)
    BY DEF CacheInv, TypeOK, Client, Kinds
  <2> QED
    BY <1>1, <2>1
<1>3. Bound(c) \in 0 .. MaxLoops
  BY <1>2 DEF Bound, Client, CacheInv, TypeOK
<1> QED
  BY <1>1, <1>2, <1>3

LEMMA CallOver ==
  ASSUME CacheInv, NEW c \in Callers, calls' = [calls EXCEPT ![c] = Idle]
  PROVE  /\ DOMAIN calls' = Callers
         /\ \A d \in Callers : calls'[d] = Idle \/ calls'[d] = calls[d]
  BY DEF CacheInv

(* A call that is over, beside caches that have lost entries at most. *)
LEMMA CallEnds ==
  ASSUME CacheInv, UNCHANGED <<loop, loops>>, DOMAIN calls' = Callers,
         \A d \in Callers : calls'[d] = Idle \/ calls'[d] = calls[d],
         clients' \in Seq(Client), Len(clients') = Len(clients),
         sync' \in [Keys -> 0 .. Len(clients)],
         DOMAIN async' = Keys /\ async' = [k \in Keys |-> async'[k]],
         \A k \in Keys : async'[k] = async[k] \/ async'[k] = NoEntry
  PROVE  TypeOK' /\ DOMAIN calls' = Callers /\ Opened' /\ OneKeyEach'
<1> USE IdleOrNot, BoundsAreNumbers
<1>1. \A k \in Keys : async'[k] \in [loop : 0 .. MaxLoops, client : 0 .. Len(clients)]
  BY DEF CacheInv, TypeOK, NoEntry
<1>2. TypeOK'
  BY <1>1 DEF CacheInv, TypeOK, Client, Kinds
<1>3. Opened'
  <2>1. loop <= loops /\ 0 <= loops
    BY DEF CacheInv, TypeOK, Opened
  <2>2. ASSUME NEW k \in Keys
        PROVE  async'[k].loop <= loops /\ (async'[k].loop # 0 => async'[k].client # 0)
    BY <2>1 DEF CacheInv, Opened
  <2> QED
    BY <2>1, <2>2 DEF Opened
<1>4. OneKeyEach'
  <2>1. ASSUME NEW k \in Keys, NEW l \in Keys,
               async'[k].client = async'[l].client, async'[k].client # 0
        PROVE  k = l
    BY <2>1 DEF CacheInv, OneKeyEach
  <2>2. ASSUME NEW d \in Callers, NEW k \in Keys, calls'[d].kind = "node",
               calls'[d].client = async'[k].client
        PROVE  calls'[d].key = k
    <3>1. calls'[d] = calls[d] /\ calls[d].client # 0
      BY <2>2 DEF CacheInv, TypeOK
    <3> QED
      BY <2>2, <3>1 DEF CacheInv, OneKeyEach
  <2> QED
    BY <2>1, <2>2 DEF OneKeyEach
<1> QED
  BY <1>2, <1>3, <1>4

LEMMA AnswersStep ==
  ASSUME CacheInv, NEW c \in Callers, Answers(c)
  PROVE  CacheInv'
<1> DEFINE n == calls[c].client
           new == [clients[n] EXCEPT !.loop = Bound(c)]
<1>1. InCall(c) /\ UNCHANGED <<loop, loops, sync, async>>
  BY DEF Answers
<1>2. n \in 1 .. Len(clients) /\ clients[n] \in Client /\ Bound(c) \in {0, loop}
        /\ new \in Client
  BY <1>1, InCallTyped DEF Answers, Dead, Client
<1>3. clients' = [clients EXCEPT ![n] = new]
  BY DEF Answers
<1>4. TypeOK' /\ DOMAIN calls' = Callers /\ Opened' /\ OneKeyEach'
  <2>1. clients' \in Seq(Client) /\ Len(clients') = Len(clients)
    BY <1>2, <1>3, Rewritten
  <2> QED
    BY <1>1, <2>1, CallEnds, CallOver DEF Answers, CacheInv, TypeOK
<1>5. UsableHere'
  <2>1. \A k \in Keys : loop # 0 /\ async[k].loop = loop => async[k].client \in 1 .. Len(clients)
    BY DEF CacheInv, TypeOK, Opened
  <2>2. new.loop \in {0, loop} /\ new.failed = clients[n].failed
    BY <1>2 DEF Client
  <2> QED
    BY <1>1, <1>2, <1>3, <2>1, <2>2, Rewritten DEF CacheInv, UsableHere
<1> QED
  BY <1>4, <1>5 DEF CacheInv

(* Dropping entries: what is gone is NoEntry, the rest is as it was. *)
LEMMA Dropped ==
  ASSUME CacheInv, NEW purpose \in Purposes, NEW tiers \in SUBSET Tiers,
         Invalidate(purpose, tiers)
  PROVE  /\ sync' \in [Keys -> 0 .. Len(clients)]
         /\ DOMAIN async' = Keys /\ async' = [k \in Keys |-> async'[k]]
         /\ \A k \in Keys :
              async'[k] = IF k[1] = purpose /\ k[2] \in tiers THEN NoEntry ELSE async[k]
<1>1. \A k \in Keys : sync[k] \in 0 .. Len(clients) /\ Len(clients) \in Nat
  BY DEF CacheInv, TypeOK
<1> QED
  BY <1>1 DEF Invalidate

LEMMA FailsStep ==
  ASSUME CacheInv, NEW c \in Callers, Fails(c)
  PROVE  CacheInv'
<1> DEFINE n == calls[c].client
           new == [loop |-> Bound(c), failed |-> calls[c].kind]
<1>1. InCall(c) /\ UNCHANGED <<loop, loops>>
  BY DEF Fails
<1>2. n \in 1 .. Len(clients) /\ clients[n] \in Client /\ Bound(c) \in 0 .. MaxLoops
        /\ calls[c].kind \in Kinds /\ calls[c].key \in Keys
  BY <1>1, InCallTyped DEF Call
<1>3. clients' = [clients EXCEPT ![n] = new] /\ new \in Client
  BY <1>2 DEF Fails, Client
<1>4. /\ sync' \in [Keys -> 0 .. Len(clients)]
      /\ DOMAIN async' = Keys /\ async' = [k \in Keys |-> async'[k]]
      /\ \A k \in Keys : async'[k] = async[k] \/ async'[k] = NoEntry
      /\ calls[c].kind = "node" => async'[calls[c].key] = NoEntry
  <2>1. CASE calls[c].kind = "node"
    <3>1. Invalidate(calls[c].key[1], {calls[c].key[2]})
      BY <2>1 DEF Fails, OnFailure
    <3>2. calls[c].key[1] \in Purposes /\ {calls[c].key[2]} \in SUBSET Tiers
      BY <1>2 DEF Keys
    <3> QED
      BY <1>2, <3>1, <3>2, Dropped
  <2>2. CASE calls[c].kind # "node"
    BY <2>2 DEF Fails, OnFailure, CacheInv, TypeOK
  <2> QED
    BY <2>1, <2>2
<1>5. clients' \in Seq(Client) /\ Len(clients') = Len(clients)
  BY <1>2, <1>3, Rewritten
<1>6. TypeOK' /\ DOMAIN calls' = Callers /\ Opened' /\ OneKeyEach'
  BY <1>1, <1>4, <1>5, CallEnds, CallOver DEF Fails
<1>7. UsableHere'
  <2>1. SUFFICES ASSUME NEW k \in Keys, loop # 0, async'[k].loop = loop
                 PROVE  /\ clients'[async'[k].client].loop \in {0, loop}
                        /\ clients'[async'[k].client].failed # "node"
    BY <1>1 DEF UsableHere
  <2>2. async'[k] = async[k] /\ async[k].client \in 1 .. Len(clients)
    BY <1>4, <2>1, IdleOrNot DEF CacheInv, TypeOK, Opened
  <2>3. clients[async[k].client].loop \in {0, loop} /\ clients[async[k].client].failed # "node"
    BY <2>1, <2>2 DEF CacheInv, UsableHere
  <2>4. CASE async[k].client # n
    BY <1>2, <1>3, <2>2, <2>3, <2>4, Rewritten
  <2>5. CASE async[k].client = n
    <3>1. calls[c].kind # "node"
      BY <1>4, <2>1, <2>5, IdleOrNot DEF CacheInv, OneKeyEach
    <3>2. Bound(c) \in {0, loop}
      BY <2>3, <2>5 DEF Bound
    <3> QED
      BY <1>2, <1>3, <2>2, <2>5, <3>1, <3>2, Rewritten
  <2> QED
    BY <2>4, <2>5
<1> QED
  BY <1>6, <1>7 DEF CacheInv

LEMMA InvalidateStep ==
  ASSUME CacheInv, NEW purpose \in Purposes, InvalidateAll(purpose)
  PROVE  CacheInv'
<1>1. UNCHANGED <<loop, loops, clients, calls>> /\ Invalidate(purpose, Tiers)
  BY DEF InvalidateAll
<1>2. /\ sync' \in [Keys -> 0 .. Len(clients)]
      /\ DOMAIN async' = Keys /\ async' = [k \in Keys |-> async'[k]]
      /\ \A k \in Keys : async'[k] = async[k] \/ async'[k] = NoEntry
  BY <1>1, Dropped
<1>3. TypeOK' /\ DOMAIN calls' = Callers /\ Opened' /\ OneKeyEach'
  BY <1>1, <1>2, CallEnds DEF CacheInv, TypeOK, Client, Kinds
<1>4. UsableHere'
  BY <1>1, <1>2, IdleOrNot DEF CacheInv, UsableHere
<1> QED
  BY <1>3, <1>4 DEF CacheInv

LEMMA CacheStep ==
  ASSUME CacheInv, [Next]_vars
  PROVE  CacheInv'
<1>1. CASE UNCHANGED vars
  BY <1>1 DEF vars, CacheInv, TypeOK, Opened, OneKeyEach, UsableHere
<1>2. CASE Next
  BY <1>2, LoopsStep, GetSyncStep, GetAsyncStep, GetOutsideStep, AnswersStep, FailsStep,
     InvalidateStep DEF Next
<1> QED
  BY <1>1, <1>2

LEMMA CacheAlways == Spec => []CacheInv
  BY CacheInit, CacheStep, PTL DEF Spec

(***************************************************************************)
(* Every variable keeps its type: what is cached or held was built.        *)
(***************************************************************************)
THEOREM CacheTypeCorrect == Spec => []TypeOK
<1>1. CacheInv => TypeOK
  BY DEF CacheInv
<1> QED
  BY <1>1, CacheAlways, PTL

(* What a node is handed is fresh, or cached for its loop and not failed. *)
LEMMA HandedIsUsable ==
  ASSUME CacheInv, Next, NEW c \in Callers, Handed(c)
  PROVE  LET client == clients'[calls'[c].client] IN
         client.loop \in {0, loop} /\ client.failed # "node"
<1>1. PICK key \in Keys : GetAsync(c, "node", key)
  <2>1. ASSUME NEW d \in Callers, NEW key \in Keys, NEW kind \in Kinds, NEW client,
               Begin(d, kind, key, client)
        PROVE  d = c /\ kind = "node"
    BY <2>1 DEF Handed, Begin, CacheInv
  <2>2. ~UNCHANGED calls /\ \A d \in Callers : calls' # [calls EXCEPT ![d] = Idle]
    BY IdleOrNot DEF Handed, CacheInv
  <2>3. ~CloseLoop
    BY IdleOrNot DEF CloseLoop, Handed
  <2>4. ASSUME NEW d \in Callers, NEW key \in Keys PROVE ~GetSync(d, key) /\ ~GetOutside(d, key)
    BY <2>1 DEF GetSync, GetOutside, Kinds
  <2>5. ASSUME NEW d \in Callers, NEW kind \in {"node", "bench"}, NEW key \in Keys,
               GetAsync(d, kind, key)
        PROVE  d = c /\ kind = "node"
    BY <2>1, <2>5 DEF GetAsync, Kinds
  <2> QED
    BY <2>2, <2>3, <2>4, <2>5 DEF Next, OpenLoop, Answers, Fails, InvalidateAll
<1>2. CASE ~Stale(key) /\ Begin(c, "node", key, async[key].client) /\ UNCHANGED clients
  BY <1>1, <1>2 DEF GetAsync, Stale, Begin, CacheInv, UsableHere
<1>3. CASE Build /\ Begin(c, "node", key, Fresh)
  <2>1. calls'[c].client = Fresh /\ clients'[Fresh] = [loop |-> 0, failed |-> "none"]
    BY <1>3, BuiltLast DEF Begin, CacheInv
  <2> QED
    BY <2>1
<1> QED
  BY <1>1, <1>2, <1>3 DEF GetAsync

(***************************************************************************)
(* A node is handed a client that it can use, for any number of callers,   *)
(* loops and clients, however their gets, answers and failures interleave. *)
(***************************************************************************)
THEOREM ClientsAreUsable == Spec => ClientIsUsable
<1>1. CacheInv /\ [Next]_vars =>
        [\A c \in Callers : Handed(c) =>
           LET client == clients'[calls'[c].client] IN
           client.loop \in {0, loop} /\ client.failed # "node"]_vars
  BY HandedIsUsable
<1> QED
  BY <1>1, CacheAlways, PTL DEF Spec, ClientIsUsable
=============================================================================

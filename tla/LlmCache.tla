-------------------------------- MODULE LlmCache --------------------------------
(***************************************************************************)
(* The model clients of core/llm_factory.py: one cache for the sync nodes, *)
(* one for the async nodes and the benchmark, both keyed by what the       *)
(* client is for and the tier that runs it.                                *)
(*                                                                         *)
(* An async client's connections belong to the event loop it is first      *)
(* used on, and are dead once that loop is closed.  A client's backend may *)
(* also crash under it: a call then raises, and every later call on the    *)
(* same connections does.  Callers run one event loop after another (one   *)
(* per asyncio.run), and the steps of two callers interleave.              *)
(***************************************************************************)
EXTENDS Naturals, Sequences

CONSTANTS
  Callers,     (* tasks and threads that call models                     *)
  Purposes,    (* planner, ticket, editor, reviewer                      *)
  Tiers,       (* fast, strong                                           *)
  MaxLoops,    (* bound: event loops opened                              *)
  MaxClients   (* bound: clients built                                   *)

ASSUME LlmCacheAssumption == MaxLoops \in Nat /\ MaxClients \in Nat

Keys == Purposes \X Tiers

VARIABLES
  loop,      (* the running event loop, 0 for none                         *)
  loops,     (* event loops opened so far                                  *)
  clients,   (* the clients built so far: the loop each is bound to, 0 for
                none yet, and the kind of call that failed on it last      *)
  sync,      (* _sync_cache: a client, or 0                                *)
  async,     (* _async_cache: a loop and a client, or [loop, client] of 0  *)
  calls      (* per caller: idle, or the call it is in                     *)

vars == <<loop, loops, clients, sync, async, calls>>

Idle == [kind |-> "idle"]
NoEntry == [loop |-> 0, client |-> 0]

Init ==
  /\ loop = 0 /\ loops = 0 /\ clients = <<>>
  /\ sync = [k \in Keys |-> 0]
  /\ async = [k \in Keys |-> NoEntry]
  /\ calls = [c \in Callers |-> Idle]

(* A client built now is the next one. *)
Fresh == Len(clients) + 1
Build == /\ Len(clients) < MaxClients
         /\ clients' = Append(clients, [loop |-> 0, failed |-> "none"])

Begin(c, kind, key, client) ==
  calls' = [calls EXCEPT ![c] = [kind |-> kind, key |-> key, client |-> client]]

-----------------------------------------------------------------------------
(* asyncio.run *)

OpenLoop ==
  /\ loop = 0 /\ loops < MaxLoops
  /\ loop' = loops + 1 /\ loops' = loops + 1
  /\ UNCHANGED <<clients, sync, async, calls>>

(* asyncio.run cancels what is still running before it closes the loop: a
   cancelled call raises no Exception, so its handler does not run. *)
CloseLoop ==
  /\ loop # 0
  /\ loop' = 0
  /\ calls' = [c \in Callers |-> IF calls[c].kind \in {"node", "bench"} THEN Idle
                                 ELSE calls[c]]
  /\ UNCHANGED <<loops, clients, sync, async>>

-----------------------------------------------------------------------------
(* get_llm: the planner and the ticket writer *)
GetSync(c, key) ==
  /\ calls[c] = Idle
  /\ \/ /\ sync[key] # 0
        /\ Begin(c, "sync", key, sync[key])
        /\ UNCHANGED <<clients, sync>>
     \/ /\ sync[key] = 0
        /\ Build
        /\ sync' = [sync EXCEPT ![key] = Fresh]
        /\ Begin(c, "sync", key, Fresh)
  /\ UNCHANGED <<loop, loops, async>>

(* Mutant: an entry is good while it is there. *)
StaleAny(key) == async[key] = NoEntry

(* No entry, or one of another loop; a closed loop is never the running one. *)
Stale(key) == async[key] = NoEntry \/ async[key].loop # loop

(* get_async_llm inside a loop: a node of the graph, or the benchmark. *)
GetAsync(c, kind, key) ==
  /\ calls[c] = Idle /\ loop # 0
  /\ \/ /\ ~Stale(key)
        /\ Begin(c, kind, key, async[key].client)
        /\ UNCHANGED <<clients, async>>
     \/ /\ Stale(key)
        /\ Build
        /\ async' = [async EXCEPT ![key] = [loop |-> loop, client |-> Fresh]]
        /\ Begin(c, kind, key, Fresh)
  /\ UNCHANGED <<loop, loops, sync>>

(* get_async_llm outside of one: a client of the caller's own, which it can
   only use once it has a loop. *)
GetOutside(c, key) ==
  /\ calls[c] = Idle /\ loop = 0
  /\ Build
  /\ Begin(c, "own", key, Fresh)
  /\ UNCHANGED <<loop, loops, sync, async>>

-----------------------------------------------------------------------------
(* The call itself *)

InCall(c) == calls[c].kind # "idle" /\ (calls[c].kind = "sync" \/ loop # 0)

(* A client is bound on first use; sync clients have no loop. *)
Bound(c) == IF calls[c].kind = "sync" \/ clients[calls[c].client].loop # 0
            THEN clients[calls[c].client].loop ELSE loop

(* Nothing answers on the connections of a closed loop or of a failure. *)
Dead(c) == clients[calls[c].client].failed # "none" \/ Bound(c) \notin {0, loop}

Answers(c) ==
  /\ InCall(c) /\ ~Dead(c)
  /\ clients' = [clients EXCEPT ![calls[c].client].loop = Bound(c)]
  /\ calls' = [calls EXCEPT ![c] = Idle]
  /\ UNCHANGED <<loop, loops, sync, async>>

(* Mutant: the entries are gone, and get_llm does not look for them first. *)
InvalidatePops(purpose, tiers) ==
  LET kept == {k \in Keys : k[1] # purpose \/ k[2] \notin tiers} IN
  /\ sync' = [k \in kept |-> sync[k]]
  /\ async' = [k \in kept |-> async[k]]

(* The two caches without what is for the purpose on one of the tiers. *)
Invalidate(purpose, tiers) ==
  /\ sync' = [k \in Keys |-> IF k[1] = purpose /\ k[2] \in tiers THEN 0 ELSE sync[k]]
  /\ async' = [k \in Keys |-> IF k[1] = purpose /\ k[2] \in tiers THEN NoEntry
                              ELSE async[k]]

(* Mutant: the failure is only logged. *)
FailureIsLogged(c) == UNCHANGED <<sync, async>>

(* async_editor_node and semantic_reviewer_node drop the client they failed
   on; the planner, the ticket writer and run_oneshot do not. *)
OnFailure(c) ==
  IF calls[c].kind = "node" THEN Invalidate(calls[c].key[1], {calls[c].key[2]})
  ELSE UNCHANGED <<sync, async>>

Fails(c) ==
  /\ InCall(c)
  /\ clients' = [clients EXCEPT ![calls[c].client] =
                   [loop |-> Bound(c), failed |-> calls[c].kind]]
  /\ OnFailure(c)
  /\ calls' = [calls EXCEPT ![c] = Idle]
  /\ UNCHANGED <<loop, loops>>

(* invalidate_llm without a tier *)
InvalidateAll(purpose) ==
  /\ Invalidate(purpose, Tiers)
  /\ UNCHANGED <<loop, loops, clients, calls>>

Next ==
  \/ OpenLoop \/ CloseLoop
  \/ \E c \in Callers, key \in Keys :
       \/ GetSync(c, key)
       \/ \E kind \in {"node", "bench"} : GetAsync(c, kind, key)
       \/ GetOutside(c, key)
  \/ \E c \in Callers : Answers(c) \/ Fails(c)
  \/ \E purpose \in Purposes : InvalidateAll(purpose)

Spec == Init /\ [][Next]_vars

-----------------------------------------------------------------------------
(* Every variable keeps its type: a cached or held client is one that was built. *)
TypeOK ==
  /\ loop \in 0 .. MaxLoops /\ loops \in 0 .. MaxLoops
  /\ clients \in Seq([loop : 0 .. MaxLoops,
                     failed : {"none", "sync", "node", "bench", "own"}])
  /\ sync \in [Keys -> 0 .. Len(clients)]
  /\ async \in [Keys -> [loop : 0 .. MaxLoops, client : 0 .. Len(clients)]]
  /\ \A c \in Callers :
       \/ calls[c] = Idle
       \/ calls[c] \in [kind : {"sync", "node", "bench", "own"}, key : Keys,
                        client : 1 .. Len(clients)]

(***************************************************************************)
(* A node is never handed a client that belongs to another event loop than *)
(* the one it runs on, nor one that a node's call has failed on, whoever   *)
(* else holds it and in whatever order their calls end.                    *)
(***************************************************************************)
Handed(c) == calls[c] = Idle /\ calls'[c] # Idle /\ calls'[c].kind = "node"

ClientIsUsable ==
  [][\A c \in Callers : Handed(c) =>
       LET client == clients'[calls'[c].client] IN
       client.loop \in {0, loop} /\ client.failed # "node"]_vars
=============================================================================

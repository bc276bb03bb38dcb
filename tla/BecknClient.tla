------------------------------ MODULE BecknClient ------------------------------
(***************************************************************************)
(* The Beckn BAP client (services/beckn-bap-client/src/handler.py and      *)
(* beckn/client.py) with the parties around it: its callers, the sellers   *)
(* that answer through the ONIX adapters, and the MCP sidecar, which asks  *)
(* for a discovery and hears its callback through Redis                    *)
(* (services/mcp-sidecar/bap_client.py).                                   *)
(*                                                                         *)
(* A call registers its key, POSTs, collects until its queue has been      *)
(* quiet for the timeout, cleans up and parses.  Calls of one key may      *)
(* overlap: two status polls of an order, two confirms of a transaction.   *)
(***************************************************************************)
EXTENDS CallbackCollector, Naturals, FiniteSets

CONSTANTS
  Probes,      \* calls of search_bpp_catalog; a probe names its own transaction
  MaxRestarts, \* bound on restarts of the client
  MaxSaid      \* bound on callbacks

ASSUME ProbesAssumption == Probes \subseteq Txns /\ (Probes # {} => "discover" \in Actions)
ASSUME ActionsAssumption == Actions \subseteq {"select", "discover", "init", "confirm", "status"}
ASSUME MaxRestartsAssumption == MaxRestarts \in Nat

VARIABLES
  call,        \* call[c]: stage, key, queue collected from, callbacks taken
  said,        \* callbacks sellers have sent
  wire,        \* of these, the ones under way to the client
  publishing,  \* on_discover handlers between their publish and the collector
  probe,       \* probe[p]: where the sidecar's probe is
  inbox,       \* inbox[p]: messages on its subscription
  restarts,    \* restarts so far
  heard,       \* history: callbacks of c's key that came in while c was on
  alone,       \* history: no other call of c's key was on at the same time
  published    \* history: on_discover callbacks that went out on Redis

clientVars == <<call, heard, alone>>
sellerVars == <<said, wire>>
probeVars == <<probe, inbox, published>>
vars == <<collectorVars, clientVars, sellerVars, publishing, probeVars, restarts>>

Stages == {"idle", "posting", "collecting", "done", "failed"}

(* What the caller is told.  "no_terms", "created" and "no_offers" are     *)
(* answers like any other to it; "nack" and "error" are not.               *)
Told == {"nothing", "answer", "ack", "no_offers", "no_terms", "nack", "created", "error"}

Call == [stage : Stages, key : Key \cup {None}, queue : Calls \cup {None},
         got : SUBSET Callback, told : Told]

NoCall == [stage |-> "idle", key |-> None, queue |-> None, got |-> {}, told |-> "nothing"]

ProbeStages == {"idle", "waiting", "found", "empty", "timeout"}

TypeOK ==
  /\ CollectorTypeOK
  /\ call \in [Calls -> Call]
  /\ said \subseteq Callback
  /\ wire \subseteq said
  /\ publishing \subseteq said
  /\ probe \in [Probes -> ProbeStages]
  /\ inbox \in [Probes -> SUBSET Callback]
  /\ restarts \in 0..MaxRestarts
  /\ heard \in [Calls -> SUBSET Callback]
  /\ alone \in [Calls -> BOOLEAN]
  /\ published \subseteq said

Init ==
  /\ CollectorInit
  /\ call = [c \in Calls |-> NoCall]
  /\ said = {}
  /\ wire = {}
  /\ publishing = {}
  /\ probe = [p \in Probes |-> "idle"]
  /\ inbox = [p \in Probes |-> {}]
  /\ restarts = 0
  /\ heard = [c \in Calls |-> {}]
  /\ alone = [c \in Calls |-> TRUE]
  /\ published = {}

-----------------------------------------------------------------------------
(* BecknClient: discover_async, select, init, confirm, status, each with   *)
(* the handler that calls it.                                              *)

On(c) == call[c].stage \in {"posting", "collecting"}

OnKey(k) == {c \in Calls : On(c) /\ call[c].key = k}

(* select is answered by the ACK of its POST: its on_select has no queue.  *)
Awaits(k) == k.action # "select"

RegistersDiscoverOnly(k) == k.action = "discover"

RegistersFirst(k) == Awaits(k)

Begins(c, k) ==
  /\ call[c].stage = "idle"
  /\ IF RegistersFirst(k) THEN Register(k, c) ELSE UNCHANGED collectorVars
  /\ call' = [call EXCEPT ![c] = [NoCall EXCEPT !.stage = "posting", !.key = k]]
  /\ alone' = [d \in Calls |-> IF d = c THEN OnKey(k) = {} ELSE alone[d] /\ d \notin OnKey(k)]
  /\ UNCHANGED <<heard, sellerVars, publishing, restarts>>

(* A request of the orchestrator; a probe's transaction is its own. *)
Request(c, k) ==
  /\ k.txn \notin Probes
  /\ Begins(c, k)
  /\ UNCHANGED probeVars

(* What an empty collection is told as: confirm raises, and its handler    *)
(* makes that a NACK; the parsers of the others answer all the same.       *)
Silence(action) ==
  CASE action = "discover" -> "no_offers"
    [] action = "init"     -> "no_terms"
    [] action = "confirm"  -> "nack"
    [] action = "status"   -> "created"

Parsed(k, got) == IF got = {} THEN Silence(k.action) ELSE "answer"

Ends(c, stage, told) == call' = [call EXCEPT ![c].stage = stage, ![c].told = told]

(* The POST of a select returns. *)
Selected(c) ==
  /\ call[c].stage = "posting"
  /\ ~Awaits(call[c].key)
  /\ Ends(c, "done", "ack")
  /\ UNCHANGED <<collectorVars, heard, alone, sellerVars, publishing, probeVars, restarts>>

(* The POST returns: collect looks its queue up now, not at register, and  *)
(* without one it returns at once.                                         *)
PostReturns(c) ==
  /\ call[c].stage = "posting"
  /\ Awaits(call[c].key)
  /\ LET k == call[c].key
     IN  IF queues[k] # None
         THEN /\ call' = [call EXCEPT ![c].stage = "collecting", ![c].queue = queues[k]]
              /\ UNCHANGED collectorVars
         ELSE /\ Ends(c, "done", Parsed(k, {}))
              /\ Cleanup(k)
  /\ UNCHANGED <<heard, alone, sellerVars, publishing, probeVars, restarts>>

(* The POST raises: an error of ONIX, or request_timeout.  The queue stays *)
(* where it is; status answers all the same, the others with a 500.        *)
PostFails(c) ==
  /\ call[c].stage = "posting"
  /\ Ends(c, "failed", IF call[c].key.action = "status" THEN "created" ELSE "error")
  /\ UNCHANGED <<collectorVars, heard, alone, sellerVars, publishing, probeVars, restarts>>

Take(c) ==
  /\ call[c].stage = "collecting"
  /\ \E cb \in items[call[c].queue] :
       /\ Get(call[c].queue, cb)
       /\ call' = [call EXCEPT ![c].got = @ \cup {cb}]
  /\ UNCHANGED <<heard, alone, sellerVars, publishing, probeVars, restarts>>

(* The timeout passes on an empty queue. *)
SilentOnceAnswered(c) == items[call[c].queue] = {} /\ call[c].got # {}

Silent(c) == items[call[c].queue] = {}

(* Nothing came for the timeout: cleanup, parse, answer. *)
Quiet(c) ==
  /\ call[c].stage = "collecting"
  /\ Silent(c)
  /\ Cleanup(call[c].key)
  /\ Ends(c, "done", Parsed(call[c].key, call[c].got))
  /\ UNCHANGED <<heard, alone, sellerVars, publishing, probeVars, restarts>>

-----------------------------------------------------------------------------
(* Sellers and ONIX: a request is lost or answered, once or more often,    *)
(* also after its call has ended; answers arrive in any order, or never.   *)

(* A callback echoes the context of its request, so it has its key. *)
CallbackOf(c, n) == [key |-> call[c].key, call |-> c, copy |-> n]

Answers(c, n) ==
  LET cb == CallbackOf(c, n)
  IN  /\ call[c].stage # "idle"
      /\ Cardinality(said) < MaxSaid
      /\ cb \notin said
      /\ said' = said \cup {cb}
      /\ wire' = wire \cup {cb}
      /\ UNCHANGED <<collectorVars, clientVars, publishing, probeVars, restarts>>

-----------------------------------------------------------------------------
(* The callback routes. *)

Hear(cb) ==
  heard' = [c \in Calls |-> IF c \in OnKey(cb.key) THEN heard[c] \cup {cb} ELSE heard[c]]

(* /bap/receiver/{action}: every callback but on_discover. *)
BapReceiver(cb) ==
  /\ cb \in wire
  /\ cb.key.action # "discover"
  /\ wire' = wire \ {cb}
  /\ HandleCallback(cb)
  /\ Hear(cb)
  /\ UNCHANGED <<call, alone, said, publishing, probeVars, restarts>>

(* /on_discover: Redis first (subscribers of the channel get it; Redis     *)
(* down is logged), then, after the await, the collector.                  *)
OnDiscover(cb) ==
  /\ cb \in wire
  /\ cb.key.action = "discover"
  /\ wire' = wire \ {cb}
  /\ publishing' = publishing \cup {cb}
  /\ \/ /\ inbox' = [p \in Probes |-> IF cb.key.txn = p /\ probe[p] = "waiting"
                                     THEN inbox[p] \cup {cb} ELSE inbox[p]]
        /\ published' = IF cb.key.txn \in Probes THEN published \cup {cb} ELSE published
     \/ UNCHANGED <<inbox, published>>
  /\ UNCHANGED <<collectorVars, clientVars, said, probe, restarts>>

OnDiscoverCollects(cb) ==
  /\ cb \in publishing
  /\ publishing' = publishing \ {cb}
  /\ HandleCallback(cb)
  /\ Hear(cb)
  /\ UNCHANGED <<call, alone, sellerVars, probeVars, restarts>>

(* MaxSaid bounds what sellers have to say, not how often: what a call has *)
(* been given is sent again, and its timeout starts over.  Here the repeat *)
(* needs no name of its own, since the call has the queue to itself, and   *)
(* what it is on Redis is left out: a publication that fails.              *)
Repeat(c, cb) ==
  /\ call[c].stage = "collecting"
  /\ cb \in call[c].got
  /\ OnKey(cb.key) = {c}
  /\ queues[cb.key] = call[c].queue
  /\ HandleCallback(cb)
  /\ Hear(cb)
  /\ UNCHANGED <<call, alone, sellerVars, publishing, probeVars, restarts>>

-----------------------------------------------------------------------------
(* The sidecar: probe_bap_network.  It subscribes before it fires POST     *)
(* /discover as a task, which its end cancels if it has not been sent; a   *)
(* request that was received goes on without its client.                   *)

Subscribe(p) ==
  /\ probe[p] = "idle"
  /\ probe' = [probe EXCEPT ![p] = "waiting"]
  /\ UNCHANGED <<collectorVars, clientVars, sellerVars, publishing, inbox, published, restarts>>

FiresUnsubscribed(p) == probe[p] = "idle"

Fires(p) == probe[p] = "waiting"

FireHttp(p, c) ==
  /\ Fires(p)
  /\ \A d \in Calls : call[d].key # [txn |-> p, action |-> "discover"]
  /\ Begins(c, [txn |-> p, action |-> "discover"])
  /\ UNCHANGED probeVars

(* The first message decides; its items may be none that parse. *)
ProbeHears(p) ==
  /\ probe[p] = "waiting"
  /\ inbox[p] # {}
  /\ \E end \in {"found", "empty"} : probe' = [probe EXCEPT ![p] = end]
  /\ UNCHANGED <<collectorVars, clientVars, sellerVars, publishing, inbox, published, restarts>>

ProbeTimesOut(p) ==
  /\ probe[p] = "waiting"
  /\ inbox[p] = {}
  /\ probe' = [probe EXCEPT ![p] = "timeout"]
  /\ UNCHANGED <<collectorVars, clientVars, sellerVars, publishing, inbox, published, restarts>>

-----------------------------------------------------------------------------
(* The client restarts: queues, calls and handlers are gone, their callers *)
(* see an error, and what is under way arrives at the new process.         *)
Restart ==
  /\ restarts < MaxRestarts
  /\ restarts' = restarts + 1
  /\ queues' = [k \in Key |-> None]
  /\ items' = [q \in Calls |-> {}]
  /\ call' = [c \in Calls |-> IF On(c) THEN [call[c] EXCEPT !.stage = "failed", !.told = "error"]
                              ELSE call[c]]
  /\ publishing' = {}
  /\ UNCHANGED <<heard, alone, sellerVars, probeVars>>

Next ==
  \/ \E c \in Calls :
       \/ \E k \in Key : Request(c, k)
       \/ \E p \in Probes : FireHttp(p, c)
       \/ Selected(c)
       \/ PostReturns(c)
       \/ PostFails(c)
       \/ Take(c)
       \/ Quiet(c)
       \/ \E n \in Copies : Answers(c, n)
       \/ \E cb \in said : Repeat(c, cb)
  \/ \E cb \in said : BapReceiver(cb) \/ OnDiscover(cb) \/ OnDiscoverCollects(cb)
  \/ \E p \in Probes : Subscribe(p) \/ ProbeHears(p) \/ ProbeTimesOut(p)
  \/ Restart

Spec == Init /\ [][Next]_vars

(* Awaits end: request_timeout bounds a POST, the callback timeout a quiet *)
(* queue, REDIS_RESULT_TIMEOUT a probe; a callback in a queue wakes its    *)
(* collector.  Sellers owe nothing.                                        *)
Fairness ==
  /\ \A c \in Calls : /\ WF_vars(Selected(c) \/ PostReturns(c) \/ PostFails(c))
                      /\ WF_vars(Take(c))
                      /\ WF_vars(Quiet(c))
  /\ \A p \in Probes : WF_vars(ProbeHears(p) \/ ProbeTimesOut(p))

FairSpec == Spec /\ Fairness

-----------------------------------------------------------------------------
(* A call that no other call of its key overlaps misses nothing: it takes  *)
(* every callback that comes in between its register and its timeout,      *)
(* however early (before its POST has returned) or reordered.              *)
LoneCallMissesNothing ==
  \A c \in Calls :
    call[c].stage = "done" /\ alone[c] /\ Awaits(call[c].key) => call[c].got = heard[c]

(* ARCHITECTURE.md calls the collector safe for concurrent use: then a     *)
(* call would be told of silence only if its key was silent.               *)
SilenceIsTrue ==
  \A c \in Calls :
    call[c].stage = "done" /\ call[c].got = {} /\ Awaits(call[c].key) => heard[c] = {}

(* A queue left in the dictionary is one whose call is still on, or one    *)
(* whose POST failed: nothing else leaks.                                  *)
QueuesAreOwned ==
  \A k \in Key :
    queues[k] # None =>
      /\ call[queues[k]].key = k
      /\ On(queues[k]) \/ call[queues[k]].stage = "failed"

(* A probe that waits has every callback of its transaction that went out  *)
(* on Redis, however fast the sellers are: it subscribes before it asks.   *)
ProbeMissesNothing ==
  \A p \in Probes :
    probe[p] = "waiting" => inbox[p] = {cb \in published : cb.key.txn = p}

(* A call that never ends is one to which sellers send for ever: a lost or *)
(* late callback, another call of its key or a queue cleaned up under it   *)
(* keeps no call on, nor one that a probe leaves behind.  A probe ends.    *)
KeptOnBySellers ==
  /\ \A c \in Calls : <>[]On(c) => []<><<\E cb \in said : Repeat(c, cb)>>_vars
  /\ \A p \in Probes : probe[p] = "waiting" ~> probe[p] # "waiting"

(* What API_REFERENCE.md says of CALLBACK_TIMEOUT, a "ceiling" for the     *)
(* wait: every call would end, however often sellers send.                 *)
TimeoutIsCeiling == \A c \in Calls : On(c) ~> ~On(c)

(* The promise to callers, read off the client's state. *)
E == INSTANCE Exchange WITH
       Keys <- Key,
       Callbacks <- Callback,
       asked <- [c \in Calls |-> call[c].key],
       open <- {c \in Calls : On(c)},
       taken <- [c \in Calls |-> call[c].got]

ImplementsExchange == E!Spec
=============================================================================

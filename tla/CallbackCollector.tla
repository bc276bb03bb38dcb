--------------------------- MODULE CallbackCollector ---------------------------
(***************************************************************************)
(* CallbackCollector (services/beckn-bap-client/src/beckn/callbacks.py):   *)
(* the queues in which a Beckn request awaits its on_* callbacks.  A key   *)
(* is a transaction and an action; register puts a fresh queue under it,   *)
(* whatever was there before, so a queue is an object with an identity of  *)
(* its own: it is named by the call that registered it.                    *)
(***************************************************************************)
CONSTANTS
  Txns,      \* transaction ids
  Actions,   \* of select, discover, init, confirm, status: the ones in use
  Calls,     \* calls of BecknClient, each of which registers at most once
  Copies,    \* bound: how many answers a call may get
  None       \* no queue

ASSUME NoneAssumption == None \notin Calls

VARIABLES
  queues,    \* _queues: the queue object under a key
  items      \* items[q]: the callbacks in queue object q; which is first is left open

collectorVars == <<queues, items>>

Key == [txn : Txns, action : Actions]

(* A callback: the key it carries, the call it answers, and which of the   *)
(* answers to that call it is (several sellers, or one delivered again).   *)
Callback == [key : Key, call : Calls, copy : Copies]

CollectorTypeOK ==
  /\ queues \in [Key -> Calls \cup {None}]
  /\ items \in [Calls -> SUBSET Callback]

CollectorInit ==
  /\ queues = [k \in Key |-> None]
  /\ items = [q \in Calls |-> {}]

Register(k, q) ==
  /\ queues' = [queues EXCEPT ![k] = q]
  /\ items' = [items EXCEPT ![q] = {}]

(* The queue a callback goes to, if any. *)
QueueOfTxn(cb) == LET k == CHOOSE x \in Key : x.txn = cb.key.txn /\ queues[x] # None
                  IN  IF \E x \in Key : x.txn = cb.key.txn /\ queues[x] # None THEN queues[k] ELSE None

QueueOf(cb) == queues[cb.key]

HandleCallback(cb) ==
  /\ items' = IF QueueOf(cb) = None THEN items
              ELSE [items EXCEPT ![QueueOf(cb)] = @ \cup {cb}]
  /\ UNCHANGED queues

(* One await of collect. *)
Get(q, cb) ==
  /\ cb \in items[q]
  /\ items' = [items EXCEPT ![q] = @ \ {cb}]
  /\ UNCHANGED queues

CleanupIfFull(k) ==
  /\ queues' = IF queues[k] # None /\ items[queues[k]] = {} THEN queues
               ELSE [queues EXCEPT ![k] = None]
  /\ UNCHANGED items

(* Whatever queue stands under the key goes, also another call's. *)
Cleanup(k) ==
  /\ queues' = [queues EXCEPT ![k] = None]
  /\ UNCHANGED items
=============================================================================

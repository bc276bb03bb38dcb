------------------------------ MODULE ErpOutbox ------------------------------
(***************************************************************************)
(* The transactional outbox of the ERP adapter: the route that enqueues a  *)
(* purchase order, the workers that claim rows under a lease and push them *)
(* to the vendor, the vendor's idempotent create, the vendor's webhook and *)
(* the operator's replay of a dead row.                                    *)
(*                                                                         *)
(*   services/erp-adapter/src/outbox/worker.py   OutboxWorker              *)
(*   services/erp-adapter/src/outbox/repo.py     the table, see OutboxRow  *)
(*   services/erp-adapter/src/routes.py          po_sync, webhook, replay  *)
(*   services/erp-mock/src/po_routes.py          the vendor                *)
(*                                                                         *)
(* A replica is one process of the adapter, with one worker task.  A push  *)
(* is an await of unbounded length: between the claim and the UPDATE that  *)
(* settles it the lease may run out, another replica may claim the row,    *)
(* the process may die and the request may arrive after its sender gave up.*)
(***************************************************************************)
EXTENDS OutboxRow, Integers, FiniteSets

CONSTANTS
  Keys,          \* idempotency keys: sha256(transaction_id|vendor|sync_type)
  Replicas,      \* processes of the adapter
  MaxAttempts,   \* len(BACKOFF_SCHEDULE)
  Concurrency,   \* rows per claim
  MarkMayFail,   \* may the UPDATE that settles a push raise?
  MaxFaults,     \* bound: crashes, lost claims, failed UPDATEs, overrun leases
  MaxReplays     \* bound: replays by an operator

ASSUME ConstantsAssumption ==
  /\ MaxAttempts \in Nat \ {0}
  /\ Concurrency \in Nat \ {0}
  /\ MarkMayFail \in BOOLEAN
  /\ MaxFaults \in Nat
  /\ MaxReplays \in Nat

VARIABLES
  row,        \* row[k]: the outbox row of key k
  worker,     \* worker[p]: the worker task of replica p
  job,        \* job[p][k]: where _process of row k stands in replica p
  minted,     \* minted[k]: purchase orders the vendor created for key k
  wire,       \* keys of requests that still travel, their sender gone
  announced,  \* keys whose po.committed event was published
  overrun,    \* history: keys of which some push outlived its lease
  doubted,    \* history: keys of which some push's outcome was lost
  faults,     \* faults so far
  replays     \* replays so far

vars == <<row, worker, job, minted, wire, announced, overrun, doubted, faults, replays>>

(* "dead" is a task that an exception ended inside a live process; "down"  *)
(* is a process that stopped.                                              *)
WorkerState == {"running", "dead", "down"}
Outcome     == {"none", "ok", "transient", "permanent"}
Stage       == {"idle", "pushing", "answered", "marked"}

Job   == [stage : Stage, attempt : Nat, outcome : Outcome, ref : Nat]
NoJob == [stage |-> "idle", attempt |-> 0, outcome |-> "none", ref |-> NoRef]

(* The replica still has the row in hand: its UPDATE is to come. *)
Holds(p, k) == job[p][k].stage \in {"pushing", "answered"}

TypeOK ==
  /\ row \in [Keys -> Row]
  /\ worker \in [Replicas -> WorkerState]
  /\ job \in [Replicas -> [Keys -> Job]]
  /\ minted \in [Keys -> Nat]
  /\ wire \in SUBSET Keys
  /\ announced \in SUBSET Keys
  /\ overrun \in SUBSET Keys
  /\ doubted \in SUBSET Keys
  /\ faults \in Nat
  /\ replays \in Nat

Init ==
  /\ row = [k \in Keys |-> Absent]
  /\ worker = [p \in Replicas |-> "running"]
  /\ job = [p \in Replicas |-> [k \in Keys |-> NoJob]]
  /\ minted = [k \in Keys |-> 0]
  /\ wire = {}
  /\ announced = {}
  /\ overrun = {}
  /\ doubted = {}
  /\ faults = 0
  /\ replays = 0

Fault == faults < MaxFaults /\ faults' = faults + 1

-----------------------------------------------------------------------------
(* Routes. *)

(* POST /po/sync, one vendor of it. *)
PoSync(k) ==
  /\ row' = [row EXCEPT ![k] = InsertPending(@)]
  /\ UNCHANGED <<worker, job, minted, wire, announced, faults, replays, overrun, doubted>>

(* POST /admin/outbox/{sync_id}/replay. *)
AdminReplay(k) ==
  /\ replays < MaxReplays
  /\ row' = [row EXCEPT ![k] = Replay(@)]
  /\ replays' = replays + 1
  /\ UNCHANGED <<worker, job, minted, wire, announced, faults, overrun, doubted>>

(* The vendor's status webhook; it is sent once the order exists, and may  *)
(* come before, after or between the worker's own writes.                  *)
Webhook(k) ==
  /\ minted[k] > 0
  /\ row' = [row EXCEPT ![k] = UpdateInboundState(@, minted[k])]
  /\ UNCHANGED <<worker, job, minted, wire, announced, faults, replays, overrun, doubted>>

-----------------------------------------------------------------------------
(* The vendor: a key that was seen gets the order it already has.          *)
CreateOnce(k) == IF minted[k] = 0 THEN [minted EXCEPT ![k] = 1] ELSE minted

-----------------------------------------------------------------------------
(* The clock. *)

(* next_attempt_at is reached. *)
BackoffElapses(k) ==
  /\ row[k].status = "pending" /\ ~row[k].due
  /\ row' = [row EXCEPT ![k].due = TRUE]
  /\ UNCHANGED <<worker, job, minted, wire, announced, faults, replays, overrun, doubted>>

(* lease_until is reached and nobody is working on the row any more.       *)
LeaseExpires(k) ==
  /\ row[k].lease = "live"
  /\ \A p \in Replicas : ~Holds(p, k)
  /\ row' = [row EXCEPT ![k].lease = "expired"]
  /\ UNCHANGED <<worker, job, minted, wire, announced, faults, replays, overrun, doubted>>

(* lease_until is reached under a push that is still running: the session  *)
(* of the vendor calls has aiohttp's 5 minute limit per request, the lease *)
(* is 5 minutes from the claim, and a SAP push makes up to three requests. *)
LeaseOverrun(k) ==
  /\ Fault
  /\ row[k].lease = "live"
  /\ \E p \in Replicas : Holds(p, k)
  /\ row' = [row EXCEPT ![k].lease = "expired"]
  /\ overrun' = overrun \cup {k}
  /\ UNCHANGED <<worker, job, minted, wire, announced, replays, doubted>>

-----------------------------------------------------------------------------
(* The worker task: _run. *)

SetJob(p, k, j) == job' = [job EXCEPT ![p][k] = j]

(* SELECT ... FOR UPDATE SKIP LOCKED LIMIT: as many eligible rows as fit.  *)
Batches ==
  LET eligible == {k \in Keys : Eligible(row[k])}
  IN  {S \in SUBSET eligible :
         /\ S # {}
         /\ \/ Cardinality(S) = Concurrency
            \/ S = eligible /\ Cardinality(S) < Concurrency}

(* gather() returned: every _process of the last batch is over.            *)
BatchDone(p) == \A k \in Keys : job[p][k] = NoJob

ClaimRows(S) == row' = [k \in Keys |-> IF k \in S THEN Claim(row[k]) ELSE row[k]]

ClaimBatch(p, S) ==
  /\ worker[p] = "running"
  /\ BatchDone(p)
  /\ ClaimRows(S)
  /\ job' = [job EXCEPT ![p] =
               [k \in Keys |-> IF k \in S
                               THEN [NoJob EXCEPT !.stage = "pushing",
                                                  !.attempt = row[k].attempts + 1]
                               ELSE NoJob]]
  /\ UNCHANGED <<worker, minted, wire, announced, faults, replays, overrun, doubted>>

(* The transaction commits and its answer is lost: the task logs, sleeps   *)
(* and polls again, and nobody works on the rows.                          *)
ClaimLost(p, S) ==
  /\ Fault
  /\ worker[p] = "running"
  /\ BatchDone(p)
  /\ ClaimRows(S)
  /\ UNCHANGED <<worker, job, minted, wire, announced, replays, overrun, doubted>>

-----------------------------------------------------------------------------
(* One row: _process. *)

Answered(p, k, outcome, r) ==
  SetJob(p, k, [job[p][k] EXCEPT !.stage = "answered", !.outcome = outcome, !.ref = r])

(* The vendor takes the order and says so. *)
PushAccepted(p, k) ==
  /\ job[p][k].stage = "pushing"
  /\ minted' = CreateOnce(k)
  /\ Answered(p, k, "ok", minted'[k])
  /\ UNCHANGED <<row, worker, wire, announced, faults, replays, overrun, doubted>>

(* No order is made: a 4xx, or a payload that no longer validates, is      *)
(* permanent; a 5xx or an open circuit is transient.                       *)
PushRefused(p, k, outcome) ==
  /\ job[p][k].stage = "pushing"
  /\ Answered(p, k, outcome, NoRef)
  /\ UNCHANGED <<row, worker, minted, wire, announced, faults, replays, overrun, doubted>>

(* The connection fails or times out with the request under way; it may    *)
(* still arrive.                                                           *)
PushTimesOut(p, k) ==
  /\ job[p][k].stage = "pushing"
  /\ Answered(p, k, "transient", NoRef)
  /\ wire' = wire \cup {k}
  /\ doubted' = doubted \cup {k}
  /\ UNCHANGED <<row, worker, minted, announced, faults, replays, overrun>>

LateArrival(k) ==
  /\ k \in wire
  /\ minted' = CreateOnce(k)
  /\ wire' = wire \ {k}
  /\ UNCHANGED <<row, worker, job, announced, faults, replays, overrun, doubted>>

Exhausted(attempt) == attempt >= MaxAttempts

(* The row after the handler of the push's outcome. The UPDATEs name the   *)
(* row by sync_id alone, so they apply whoever holds the row by now.       *)
SettledTimeoutIsSuccess(r, j) ==
  CASE j.outcome \in {"ok", "transient"} -> MarkSuccess(r, j.ref)
    [] j.outcome = "permanent"           -> MarkDead(r)

Settled(r, j) ==
  CASE j.outcome = "ok"        -> MarkSuccess(r, j.ref)
    [] j.outcome = "permanent" -> MarkDead(r)
    [] j.outcome = "transient" ->
         IF Exhausted(j.attempt) THEN MarkDead(r) ELSE Reschedule(r)

Settle(p, k) ==
  LET j == job[p][k]
  IN  /\ j.stage = "answered"
      /\ row' = [row EXCEPT ![k] = Settled(@, j)]
      /\ SetJob(p, k, IF j.outcome = "ok" THEN [j EXCEPT !.stage = "marked"] ELSE NoJob)
      /\ UNCHANGED <<worker, minted, wire, announced, faults, replays, overrun, doubted>>

(* The UPDATE raises, before or after it took effect: gather re-raises in  *)
(* _run, which has no handler, and the worker task is over.  Its siblings  *)
(* of the batch go on.                                                     *)
SettleFails(p, k) ==
  /\ MarkMayFail
  /\ Fault
  /\ job[p][k].stage = "answered"
  /\ SetJob(p, k, NoJob)
  /\ row' \in {row, [row EXCEPT ![k] = Settled(@, job[p][k])]}
  /\ worker' = [worker EXCEPT ![p] = "dead"]
  /\ doubted' = doubted \cup {k}
  /\ UNCHANGED <<minted, wire, announced, replays, overrun>>

(* publish po.committed, best effort. *)
Announce(p, k) ==
  /\ job[p][k].stage = "marked"
  /\ SetJob(p, k, NoJob)
  /\ announced' \in {announced, announced \cup {k}}
  /\ UNCHANGED <<row, worker, minted, wire, faults, replays, overrun, doubted>>

-----------------------------------------------------------------------------
(* The process. *)

(* The process dies, or is stopped, wherever it is; any request it had     *)
(* under way may still arrive.                                             *)
Crash(p, sent) ==
  /\ Fault
  /\ worker[p] # "down"
  /\ sent \subseteq {k \in Keys : job[p][k].stage = "pushing"}
  /\ worker' = [worker EXCEPT ![p] = "down"]
  /\ job' = [job EXCEPT ![p] = [k \in Keys |-> NoJob]]
  /\ wire' = wire \cup sent
  /\ doubted' = doubted \cup {k \in Keys : Holds(p, k)}
  /\ UNCHANGED <<row, minted, announced, replays, overrun>>

(* The container is restarted and _on_startup starts a worker. *)
Restart(p) ==
  /\ worker[p] = "down"
  /\ worker' = [worker EXCEPT ![p] = "running"]
  /\ UNCHANGED <<row, job, minted, wire, announced, faults, replays, overrun, doubted>>

-----------------------------------------------------------------------------
Next ==
  \/ \E k \in Keys : PoSync(k)
  \/ \E k \in Keys : AdminReplay(k)
  \/ \E k \in Keys : Webhook(k)
  \/ \E k \in Keys : BackoffElapses(k)
  \/ \E k \in Keys : LeaseExpires(k)
  \/ \E k \in Keys : LeaseOverrun(k)
  \/ \E k \in Keys : LateArrival(k)
  \/ \E p \in Replicas, S \in Batches : ClaimBatch(p, S)
  \/ \E p \in Replicas, S \in Batches : ClaimLost(p, S)
  \/ \E p \in Replicas, k \in Keys : PushAccepted(p, k)
  \/ \E p \in Replicas, k \in Keys, o \in {"transient", "permanent"} : PushRefused(p, k, o)
  \/ \E p \in Replicas, k \in Keys : PushTimesOut(p, k)
  \/ \E p \in Replicas, k \in Keys : Settle(p, k)
  \/ \E p \in Replicas, k \in Keys : SettleFails(p, k)
  \/ \E p \in Replicas, k \in Keys : Announce(p, k)
  \/ \E p \in Replicas, sent \in SUBSET Keys : Crash(p, sent)
  \/ \E p \in Replicas : Restart(p)

Spec == Init /\ [][Next]_vars

(* What goes on by itself: the clock, the poll loop of a running worker,   *)
(* every await of _process (aiohttp bounds a push, asyncpg an UPDATE), and *)
(* the container's restart policy.  Requests, webhooks, replays and faults *)
(* are nobody's duty, and nothing restarts a task that died.               *)
Fairness ==
  /\ \A k \in Keys : WF_vars(BackoffElapses(k)) /\ WF_vars(LeaseExpires(k))
  /\ \A p \in Replicas :
       /\ WF_vars(\E S \in Batches : ClaimBatch(p, S))
       /\ WF_vars(Restart(p))
       /\ \A k \in Keys :
            /\ WF_vars(\/ PushAccepted(p, k)
                       \/ \E o \in {"transient", "permanent"} : PushRefused(p, k, o)
                       \/ PushTimesOut(p, k))
            /\ WF_vars(Settle(p, k))
            /\ WF_vars(Announce(p, k))

FairSpec == Spec /\ Fairness

-----------------------------------------------------------------------------
(* Properties. *)

(* A row is marked success only if the vendor has the order, and carries   *)
(* that order's number: whatever the retries, crashes, late requests and   *)
(* webhooks in between (mark_success, update_inbound_state).               *)
SuccessIsReal ==
  \A k \in Keys : row[k].status = "success" => minted[k] > 0 /\ row[k].ref = minted[k]

(* A lease exists exactly while a row is in progress: every one of the six *)
(* UPDATEs keeps the two columns together, or the row could never be       *)
(* claimed again (a row in progress without a lease), or be taken from its *)
(* next state by a forgotten lease.                                        *)
LeaseDisciplined ==
  \A k \in Keys : row[k].lease # "null" <=> row[k].status = "in_progress"

(* The replica that may settle row k: the one that holds it, under the     *)
(* attempt and the lease of its claim.                                     *)
Owns(p, k) ==
  /\ row[k].status = "in_progress"
  /\ row[k].lease = "live"
  /\ row[k].attempts = job[p][k].attempt
  /\ \A q \in Replicas : Holds(q, k) => q = p

(* A push is under way that has lost its row, or is about to. *)
Late(k) == \E p \in Replicas : Holds(p, k) /\ ~Owns(p, k)

(* No two replicas process one row, and the one that does owns it from the *)
(* claim until its UPDATE, through crashes, lost claims and replays: only a *)
(* push that outlives its lease comes between (claim_batch's WHERE).       *)
ExclusiveClaim == \A k \in Keys \ overrun : ~Late(k)

(* A row waits for another attempt only while it has one left. *)
RetryBudget ==
  \A k \in Keys \ overrun : row[k].status = "pending" => row[k].attempts < MaxAttempts

(* po.committed is published only for an order that is and stays committed, *)
(* unless a push of it outlived its lease.                                 *)
AnnouncedIsCommitted == \A k \in announced \ overrun : row[k].status = "success"

(* The vendor is asked again for an order it has already only if something *)
(* hid its first answer: a timeout, a crash, an UPDATE that failed or a    *)
(* lease that ran out.  Repeated POSTs, replays of dead rows, webhooks, lost *)
(* claims and a second replica never lead to it, so that the vendor's      *)
(* handling of the idempotency key is needed for no more than these.       *)
RepeatsNeedDoubt ==
  \A p \in Replicas, k \in Keys \ (overrun \cup doubted) :
    job[p][k].stage = "pushing" => minted[k] = 0

(* A dead row is never tried again unless an operator replays it: not by a *)
(* repeated POST, and by a worker that finishes late only if it lost the   *)
(* row while it was pushing.                                               *)
DeadNeverAutoRetried ==
  [][\A k \in Keys :
       row[k].status = "failed" /\ row'[k].status \in {"pending", "in_progress"}
         => replays' > replays \/ Late(k)]_vars

(* Every enqueued order is decided: pushed, or dead and visible as such.   *)
Decided ==
  \A k \in Keys : row[k].status = "pending" ~> row[k].status \in {"success", "failed"}

(* What the properties rest on, besides each other. An answer "ok" carries *)
(* the number of an order that exists; the vendor makes one order per key, *)
(* which is the vendor's part; a row that was settled as a success stays   *)
(* one until its announcement; a request under way belongs to a row, and   *)
(* one whose sender is gone left a doubt; an order without a doubt is known *)
(* to its row, or about to be.                                             *)
AnswerIsReal ==
  \A p \in Replicas, k \in Keys :
    job[p][k].stage = "answered" =>
      /\ job[p][k].outcome # "none"
      /\ job[p][k].outcome = "ok" => minted[k] > 0 /\ job[p][k].ref = minted[k]

NumbersAreTheVendors ==
  \A k \in Keys : minted[k] <= 1 /\ row[k].ref \in {NoRef, minted[k]}

MarkedIsCommitted ==
  \A p \in Replicas, k \in Keys \ overrun :
    job[p][k].stage = "marked" => row[k].status = "success"

RequestHasRow ==
  \A k \in Keys :
    k \in wire \/ (\E p \in Replicas : Holds(p, k)) => row[k].status # "absent"

OrdersAreKnown ==
  /\ wire \subseteq doubted
  /\ \A k \in Keys \ (overrun \cup doubted) :
       minted[k] > 0 =>
         \/ row[k].status = "success"
         \/ \E p \in Replicas : job[p][k].stage = "answered" /\ job[p][k].outcome = "ok"

(* What every row and every answer keeps to. *)
TruthInv ==
  /\ TypeOK
  /\ AnswerIsReal
  /\ SuccessIsReal
  /\ NumbersAreTheVendors
  /\ LeaseDisciplined
  /\ RequestHasRow

(* What the rows keep to of which no push outlived its lease. *)
OwnershipInv ==
  /\ ExclusiveClaim
  /\ MarkedIsCommitted
  /\ RetryBudget
  /\ AnnouncedIsCommitted
  /\ OrdersAreKnown

(* What the outbox promises, see ErpSync: a committed order is not taken   *)
(* back, a dead one only replayed, but by a push that lost its row while it *)
(* was under way; and none is reported that the vendor does not have.      *)
SyncState(k) ==
  CASE row[k].status = "absent"                     -> "absent"
    [] row[k].status \in {"pending", "in_progress"} -> "queued"
    [] row[k].status = "success"                    -> "committed"
    [] row[k].status = "failed"                     -> "dead"

Promise == INSTANCE ErpSync WITH
             sync   <- [k \in Keys |-> SyncState(k)],
             orders <- {k \in Keys : minted[k] > 0},
             late   <- {k \in Keys : Late(k)}

ImplementsErpSync == Promise!Spec
=============================================================================

# A verification of Procurement-Agent

TLA+ models of the parts of this repository whose correctness depends on
interleavings, retries, crashes and late answers; TLC configurations that check
them on small instances; and proofs, checked by TLAPS, of what matters most for
every size. Paths below are relative to the repository.

Run, in this directory: `tlc -config <run>.cfg <MC module>` for a run,
`tlapm <Module>Proofs.tla` for the proofs. `PROJECT.json` lists every run, the
source lines each definition translates (`map`), and the hazards the properties
are for.

## 1. The system and its parts

A user asks for goods in plain language; an *orchestrator* has the text parsed,
discovers offerings over the Beckn network, scores them, decides how much it may
do by itself, and places the order (Beckn `select`, `init`, `confirm`). The order
is then tracked, pushed to the company's ERP and announced. Services are separate
processes that talk HTTP, Kafka and Redis and share one PostgreSQL database.

| part | state | operations | talks to | hard behaviour | correct when | module |
|---|---|---|---|---|---|---|
| Orchestrator, pipeline (`services/orchestrator/src/workflow.py`) | rows it has written | `/compare`, `/run`, `/run-pipeline`, `/discover` | normalizer, parser, Beckn client, scoring, memory | retried POSTs, PATCHes sent once, handlers that die | records of a run belong together; an unfinished one has a fault behind it | `Pipeline` |
| Orchestrator, decisions and order (same file, `policy_engine.py`) | sessions with a TTL and the approval queue, in memory; the request's status | `/run` from its decision on, `/run/{id}/decide`, `/commit`, `/approvals/{id}/decide`, `/cancel` | Beckn client, normalizer, ERP adapter | handlers interleave at awaits over snapshots of a session; sessions expire; confirms are lost or late; restarts | large orders pass an approver; the agent orders alone only where allowed; nothing invented is shown or pushed; queue, stage and database agree | `PolicyEngine`, `ProcurementRun` |
| Orchestrator, tracking (same file), with the seller's advance task, the page's poller and the notification dispatcher | order status, cache, websockets, topic offsets | status poll, seller webhook, Kafka consumer, websocket | Kafka, seller, pages | several sources of events without sequence numbers; sockets that come and go during a broadcast | pages miss nothing, nothing is invented, the database is ahead of what is published | `OrderTracking` |
| ERP adapter, outbox (`services/erp-adapter/src/outbox`, `routes.py`, `main.py`) | table `erp_sync_records` | `/po/sync`, webhook, replay, the worker's claim, push and settle | PostgreSQL, vendors, Redis | several replicas, leases, backoff, crashes between a push and its record | a success is real, a second request needs a doubt, and each row is pushed in the end or visibly dead | `OutboxRow`, `ErpOutbox`, `ErpSync` |
| ERP adapter, breaker (`resilience/breaker.py`) | one circuit per vendor | `breaker_call` | pybreaker, vendor | concurrent calls answered in any order | an outage is shielded, recovery noticed | `CircuitBreaker` |
| ERP adapter, vendor access (`adapters/`, `security/oauth.py`) | token cache with its lock | token, CSRF, create, budget fan-out | identity provider, SAP, Oracle | concurrent refresh, tokens refused in flight | one refresh per loss; no dropped token reused; every push and check settles | `VendorAccess` |
| Beckn client (`services/beckn-bap-client`) and MCP sidecar | queues of awaited callbacks; a Redis subscription per probe | register, post, collect, cleanup, callback; `search_inventory` | sellers through ONIX, Redis | late, repeated and crossing callbacks | a callback reaches the request it answers | `CallbackCollector`, `BecknClient`, `Exchange` |
| Discovery engine (`services/discovery_engine`) | a breaker per network | fan-out search, merge | networks | partial answers, a breaker shared by searches | nothing of a network that answered is lost | `Catalog`, `MultiNetworkSearch` |
| Negotiation engine (`services/negotiation_engine`), demo gateway and page | checkpointed graph threads, channel, gateway sessions | start, messages, overrides, page turns | Redis, PostgreSQL, supplier agent | at-most-once messages that resume whatever waits | guardrails hold, rounds are bounded, deals are kept | `CounterOffer`, `Negotiation` |
| Data normalizer, database schema | tables | one transaction per route | PostgreSQL | partial transactions under retry | as for the pipeline | `RequestRecords` |
| Seller simulator (`services/sim-bpp`) | catalogue, orders, advance tasks | Beckn actions | orchestrator | repeated confirms | states advance | `SellerCatalog`, `OrderTracking`, `BecknClient` |
| First agent (`Bap-1`) | sessions, approvals, thresholds, in one process | `/compare`, `/commit`, approvals, graph | sellers | sessions shared by reference between coroutines | limits, rejections and doubtful confirms are respected | `FirstAgent` |
| Parser, scoring, analytics, proxy, rest of the frontend | none between requests | - | - | - | - | answers of `Pipeline` |

### How the parts interact

The pipeline leaves a transaction with offerings and a recommendation.
`run_procurement` calls the policy engine with the execution mode, the ERP's
*policy envelope* and that recommendation, and gets a stage, which says who is
next: the requester (`awaiting_selection`, `awaiting_approval`), an approver
(`awaiting_rbac_approval`, and an entry in `_pending_approvals`), or nobody
(`auto_commit`). Whoever decides, the order is one function,
`_execute_beckn_commit`: three calls of the Beckn client, each of which waits for a
callback. Its result is persisted, put into the session and, by a task nobody
awaits, posted to the ERP adapter's `/po/sync`, where it becomes an outbox row that
a worker pushes through the vendor's circuit breaker with a token of the cache.
What becomes of the order is reported by the seller, its simulator, polls and the
ERP, over one Kafka topic.

## 2. The modules

Arrows of the project: `ErpOutbox` EXTENDS `OutboxRow` and implements `ErpSync`;
`BecknClient` EXTENDS `CallbackCollector` and implements `Exchange`;
`ProcurementRun` EXTENDS `PolicyEngine`; `VendorAccess` composes the token cache with
an INSTANCE of `CircuitBreaker` per vendor; `Pipeline` composes the handlers with
`RequestRecords` (the normalizer), `LoyaltyMemory` and `SellerCatalog`;
`MultiNetworkSearch` EXTENDS `Catalog`, `Negotiation` EXTENDS `CounterOffer`. A
module `MC<M>` gives `M` an instance, `<M>Proofs` its theorems; those of
`PolicyEngine` are in `ProcurementRunProofs`, those of `ErpOutbox` and
`CircuitBreaker` together in `ErpAdapterProofs`, those of `VendorAccess` and
`MultiNetworkSearch`, whose calls go through breakers, in `GuardedCallsProofs`.

### ErpOutbox, OutboxRow, ErpSync

| variable | code |
|---|---|
| `row[k]` | the row with idempotency key `k`: status, attempts, `due` for `next_attempt_at <= NOW()`, lease null, live or expired, vendor reference |
| `worker[p]` | the task of `OutboxWorker`: running, ended by an exception, or its process down |
| `job[p][k]` | where `_process` stands: awaiting the push, answered, marked |
| `minted[k]` | orders at the vendor for key `k` |
| `wire` | requests whose sender gave up and that may still arrive |
| `announced` | keys of published `po.committed` events |
| `overrun`, `doubted` | histories: keys of which a push outlived its lease, or of which the outcome of a push was lost (a timeout, a crash, an UPDATE that raised) |

`OutboxRow` is what each UPDATE of `repo.py` does to a row, the claim's WHERE
clause included. `PoSync`, `AdminReplay`, `Webhook` are routes. `ClaimBatch` is
`claim_batch` (`ClaimLost`: it commits and its answer is lost). `PushAccepted`,
`PushRefused`, `PushTimesOut` end the await of `push_po`; an open circuit is a
refusal that reached nobody. `Settle` is the UPDATE after a push, `SettleFails` the
exception it may raise, which comes out of the `gather` and ends the task.
`Announce` is the Redis publish. `BackoffElapses`, `LeaseExpires`, `LeaseOverrun` are
the clock; `Crash` and `Restart` the process. Times are abstracted to what the SQL
compares. `LeaseOverrun` is a push that outlives its lease, which the code allows: the
lease is five minutes from the claim, a request to a vendor has aiohttp's default limit
of five minutes, and a SAP push makes up to three. `ErpSync` is the promise to the
caller: a key is absent, queued, committed or dead; a committed one is taken back, and a
dead one tried again without a replay, only by a worker that lost its row while it was
pushing (`late`).

### CircuitBreaker

`circuit` is pybreaker's state, counter and timer; `call[c]` where coroutine `c` is;
`streak` a history variable, the vendor's failures since its last success. `Begin`
and `Reject` are the gate, `Succeed`, `Fail`, `EndUnnoticed` the ends of the awaited
call. pybreaker is external: the repository pins and calls it, and its half-open
state lives inside one synchronous call, so between awaits a circuit is closed or
open.

### VendorAccess

`cache`, `fresh`, `lock` are `OAuthTokenCache`; `issued` and `accepted` the identity
provider's and the vendor's view of the tokens; `circuit` the vendor's breaker, by
INSTANCE of `CircuitBreaker`'s helpers; `push[p]` a row's `push_po` from token to
answer with its retries, `check[k]` a budget check with the orchestrator's one
repetition; `spent` and `dropped` are history. `PushStep` and `CheckStep` are the
handlers, await by await (`_token`, the refresh under its lock, SAP's CSRF GET, the
create, classification of its error, `invalidate`); `CacheExpires`, `TokenEnds`,
`CoolsDown` the time outs. A token is its number; an error is what `base.py` makes
of it (transient, permanent, "token").

### BecknClient, CallbackCollector, Exchange

`CallbackCollector` is `callbacks.py` whole: `queues[k]` of a key
(transaction, action), the items put and the calls that collect. `call[c]` is a
handler of the client, `said` and `wire` what sellers sent and what is under way,
`publishing` the `on_discover` handlers that publish to Redis before they feed the
collector, `probe` and `inbox` the sidecar's subscription. `Request` registers,
`PostReturns` and `PostFails` end the POST to ONIX, `Take` and `Quiet` are the loop of
`collect`, `BapReceiver`, `OnDiscover`, `OnDiscoverCollects` the callback routes,
`Subscribe`, `FireHttp`, `ProbeHears`, `ProbeTimesOut` the probe, which starts a call of
the client with its own transaction. `Answers` is a seller's callback, `Copies` of
it; `wire` has no order, so callbacks are reordered and late. `Repeat` is a callback that
comes again while its call collects, any number of times: the timeout of `collect`
starts over. `heard`, `alone`, `published` are history. `Exchange` is the promise: `Ask`, `Say`, `Give`, `End` — a call
is given only what was said for its key, each thing said goes to at most one call,
nothing is given after the end.

### ProcurementRun and PolicyEngine

| variable | code |
|---|---|
| `run[r]` | what `/run` fixed: mode, ERP envelope, recommendation, whether there is a request id |
| `session[r]` | stage and order id of `_sessions[r]` |
| `pending[r]` | the item in `_pending_approvals` |
| `db[r]` | `procurement_requests.status` |
| `req[h]` | a request under way: its kind, the await it is at, its item and the snapshot of the session it took |
| `orders` | the requests whose confirm reached the seller: an order is named by the request that placed it |
| `unheard` | history: requests whose confirm nobody answered |
| `disturbed`, `cancelled` | histories: runs with requests that overlapped or left their stages (`Orderly`), runs that PATCH `/cancel` closed |
| `erp[r]` | the order the ERP was handed for the run; the idempotency key is derived from the transaction, so a second one is dropped there |

`RunProcurement`, `DecideRun`, `RejectRun`, `Commit`, `Approve`, `Refuse`, `Cancel` are the
handlers up to their first await; `Mark`, `Park`, `MarkCancelled`, `Settle`,
`BudgetAllows`, `BudgetDenies`, `Confirm`, `ConfirmUnanswered`, `MockOrder`, `Record`,
`Finish`, `Close` what follows each await. A handler writes its snapshot back whole,
as the code's `{**state, ...}` does. `Expire` is `SESSION_TTL`, `Restart` loses sessions,
queue and requests. A lost PATCH is a disjunct of `Persist`, since `_persist_status`
logs and goes on. `PolicyEngine` has `evaluate`, `evaluate_commit`, `on_rejection` and
the ERP overrides as operators. `req[h].terms` says what an order comes to and whether
its route compared it with the threshold: `POST /commit` compares for three roles and
for no other string, `decide_run` orders at the price its body gives as negotiated
(`Bargains`), and a price that does not parse counts as zero (`Readable`, `TotalRead`).
What is simplified: an offering is its order total (quantity is fixed by the intent),
select and init are one await with confirm, and the successive PATCHes of one handler
between which nothing is read are one.

### Pipeline, RequestRecords, LoyaltyMemory, SellerCatalog

A handler is a program, a list of steps of three sorts: a POST to the normalizer,
tried three times, after which it goes on without the ids it would have got; a PATCH of
the status, sent once; a call of another service, whose failure ends it. `db` is the
chain of tables (requests, intents, queries, scores, orders), and
`RequestRecords` has one operator per route, with what is committed when it fails
half-way. `late` holds PATCHes whose sender gave up; `LateWrite` carries one out. (A
POST is carried out or not by the time its sender gives up; that it is carried out later
than that is not modelled.)
`Dies` is a handler that ends with its process or its client. `LoyaltyMemory` is the
nudge of the recommendation by past orders; `SellerCatalog` what a seller finds for
a set of words. Faults are counted per handler.

### OrderTracking

`actual` is the seller's state, `task` the simulator's advance task, `hooks` webhook
handlers between UPDATE and publish, `poll[g]` a status poll of page `g` at its awaits,
`db` the status with its unconditional UPDATE (`order_repo.py:126-129`), `topic` the Kafka topic with its readers
`consumer` (offset, sockets being sent to, dead ones) and `dispatched`, `cache` and
`session` what the orchestrator remembers, `registry` `_ws_by_txn`, `page[g]` the
page's socket and what it shows, `told` the last notification. Histories: `been`, the
states the seller was in; `owed`, events a socket has not been sent; `lone`, that the
simulator alone reported the order. `Sends` is one send of the broadcast,
`Connects` registers before the snapshot, `Drops` and `ServerNotices` are the two sides
of a broken socket.

### Catalog and MultiNetworkSearch

`Catalog` is the merge (`Listings`, buckets by signature and tax class, greedy
clusters by distance, the cheapest as representative) as functions on sequences.
`breaker[n]`, `search[s]`, `result[s][n]`: `Begins`, `CallsNetwork` (the gate, under the lock),
`Succeeds`, `Fails` (with the breaker's note), `Done` (fan-in), `Cancelled` (the caller
left), `RecoveryElapses`. A call is one request; the code repeats none.

### CounterOffer and Negotiation

`CounterOffer` has the strategies' target discounts, `Draft` and the guardrails,
`Validates`. In `Negotiation` each node of the graph is an action: `thread` is the
checkpoint, `run` a run of the graph by what began it (a kickoff or a message), `given`
what its interrupt is going to return, `channel` and `listener` Redis and its
listener, `audit` the events published with what their key stands for, `saved`
(history) those of them whose node had its checkpoint written, `session` and
`page` the gateway's and the page's side (`AsksSupplier`, `SupplierAnswers`,
`TurnRecorded`, `GivesUp`). `Resume` is the listener, which takes a message and begins a
run; `Answered` the parked node that gets it, publishes and goes on. A node publishes
before its checkpoint is written, so `RunFails` and `Restart` leave on the topic
whatever the node at hand may have sent by then (`SentByNow`) and the thread where it
was; `RunFails` is a run that raises, by a node or by its checkpoint: `resume_graph`
records `resume_failed`, and the message is gone. `ForeignMessage` is
what suppliers and approvers other than the page send, at any time; `ListenerEnds` and
`Restart` lose messages, and checkpoints too unless `Durable`. LangGraph is external:
a resumed node runs again from its start, as the code relies on.

### FirstAgent

`session[t]` is the stored dict, which a request takes by reference and the graph
copies; `pending` the approvals, `threshold` a row of `users`; `request[r]` a commit or
decision at its await; `orders` what the seller took. `Commit`, `Authorised`, `Decide`,
`Rejected`, `Approved`, `Select`, `SendInit`, `SellerOrders`, `OnConfirm`, `ConfirmFails`,
`AgentCrashes` are its steps, `Compare`, `Sweep`, `UpdateUser`, `Restart` what happens
around it. `stood`, `doubted`, `crossed` are history: rejections no other decision
overlapped, transactions with an error nobody overlapped, callbacks taken by another
request. So are two fields of a request: `granted`, the threshold that held for its user
when it was checked, and `unread`, that its lookup failed, in which case the code goes by
`NoLimit`.

## 3. The runs

| run | question | what holds |
|---|---|---|
| `outbox_row` | one row, two replicas; crashes, lost answers, failing UPDATEs, overrun leases, replays | rows marked success are real (`SuccessIsReal`); claims are exclusive and announcements final unless a push of the row outlived its lease (`ExclusiveClaim`, `AnnouncedIsCommitted`); the vendor is asked again only after a doubt (`RepeatsNeedDoubt`); implements `ErpSync` |
| `outbox_live` | two rows claimed in batches by two replicas; a crash, a lost answer or a push that outlives its lease; fairness | a batch that is split keeps claims exclusive; every row is decided (`Decided`) |
| `breaker` | three concurrent calls; fairness | late answers do no harm (`OutageIsShielded`), it opens on a streak only (`TripsOnStreak`), it closes for good once the vendor answers (`RecoversWithVendor`) |
| `run_concurrent` | any interleaving of three requests of a run, with roles, negotiated prices and totals the routes do not compare; expiry, a restart, a lost write or answer, unanswered confirms | the limits of autonomy hold but for what is not compared; nothing invented is shown or pushed, but for confirms nobody answered |
| `run_serial` | four requests of a run that is not disturbed, two faults, unanswered confirms, PATCH `/cancel` | ordered once; queue, stage and database agree; final statuses are final unless a cancel overwrote them |
| `callbacks` | two calls of one key space and a probe; failing POSTs, late, repeated, crossing callbacks, a restart; fairness | a call alone under its key misses nothing, no queue leaks but the known one, a probe hears what was published, implements `Exchange`, only sellers that go on sending keep a call on |
| `tracking` | all sources of one order's status, two pages whose sockets come, go and break | nothing is invented, open sockets miss nothing, the database leads while the simulator alone reports |
| `search` | three searches share the breakers of two networks that answer, fail, time out; fairness | nothing of a network that answered is lost, every search ends |
| `negotiation` | duplicated, late, lost and foreign messages, overrides, rejections, two faults (restarts, runs and checkpoints that fail); fairness | audit keys tell apart what took effect, only overrides pass a guardrail, rounds are bounded, deals are kept |
| `pipeline` | two handlers, one of which meets up to three faults | orphans are explained by faults; orders, scores, requests belong to one run |
| `vendor_access` | two pushes and a check share a token that may be lost; fairness | one refresh per loss, what the cache dropped is not used again, all settle |
| `agent` | any three commits and decisions of one transaction; expiry, moved threshold, failed lookups, late confirms, a restart | large orders are approved if the threshold could be looked up, rejections and doubtful confirms stand, sessions are coherent |

`TypeOK` of each module is its type invariant. It is proved where a module has
theorems and is the base of their inductive invariants; it is not among the runs'
properties, which are kept for what could go wrong.

Where a property has a condition, the condition is what the code needs and not more, and
it is about the row, run or call at hand, by a history variable of the model: no constant
restricts how long pushes take, when sellers answer or what clients send.
`ExclusiveClaim` and `AnnouncedIsCommitted` leave out rows of which a push outlived its lease;
`OneOrder`, `QueueAgrees` and `LifecycleRespected` leave out runs that were disturbed, the
last two also those that PATCH `/cancel` closed; `SessionOrderIsReal` and
`ErpHoldsRealOrders` let an id stand for a confirm nobody answered; `LargeNeedsApprover`
names what the routes do not compare (`NotCompared`), `LargeIsApproved` leaves out failed lookups;
`LoneCallMissesNothing` speaks of calls no other of their key overlaps, since the
collector has one queue per key; `DatabaseLeads` of orders only the simulator
reports, since the others publish whatever their PATCH did; `RejectionStands` and
`DoubtIsFinal` of decisions no other overlaps, since the first agent keeps no
lock. Section 5 says what happens beyond.

### Bounds, and why they are enough

- **Outbox**: two replicas, for claims race between two; two attempts, so there is a
  first, a last and the boundary between them. Rows meet only in a batch:
  `outbox_live` has two keys, so that a batch can be split between replicas and fail in
  one row, one fault, since a single crash or overrun is what a row has to recover
  from, and no replay, which would only start over; `outbox_row` has one key and goes
  deeper, with three faults, so that one can meet another's recovery, and two replays.
- **Breaker**: `FailMax = 2` tells the first failure from the last, and three calls
  leave one running when two have opened the circuit.
- **Run**: two offerings. `run_serial` has one exactly at the threshold and one just
  above; `run_concurrent` has two just above, of which the second has a price that
  does not parse and so counts as within, and a negotiated price above the
  threshold. One run: runs share no state but the faults, and that no order of another
  run is shown or pushed is proved (`OrdersStayWithTheirRun`). Requests
  are used once, so their number bounds the length of a history: three let two
  interleave and a third act on what they left; four one after
  another reach decide, escalate, expire, approve. `run_concurrent` has
  the plain envelope and the one that forbids the auto commit; `run_serial` has also the one
  that asks for an approval and the one with a preferred supplier. Its constraint
  `OrderlySoFar` ends a history where the run is disturbed, since its properties claim
  nothing beyond. Faults count
  restarts, lost writes and lost answers; environment choices that are no fault
  (expiry, cancel, an unreachable seller, a confirm nobody answers) are unbounded.
- **Callbacks**: two calls, of which one may be the probe's, an ordinary transaction
  and the probe's, the actions that differ in the code (`select` is POSTed twice,
  `discover` publishes, `status` is repeated by pages); two callbacks, so one can be
  late or doubled while the other is awaited, and any number of repetitions of what a call
  was given, so that no bound ends a call; one restart. A third call would find
  the key as the second left it.
- **Tracking**: two pages, so one can join or leave while the other is being sent
  to; two events, so a broadcast has a successor; the states CREATED (what silence
  is taken for) and DELIVERED, and SHIPPED of an ERP; one request besides the task;
  one dropped connection. 1.8 million states.
- **Search**: two networks; three searches, for two failures open a breaker
  (`FailureThreshold = 2`) and the third meets it; six items: three shops along a
  street of which the middle one is near both others, one without GPS, one taxed item
  at two prices.
- **Negotiation**: two rounds, so one is the last; four messages of others, one at a
  time in the channel, enough to resume each of the graph's waits once; prices
  above and at the target; rankings with a fair and a late candidate in each order;
  policies that block, that pass, and the demo's; a category with a counter offer
  and an advisory one; two faults, so that a node whose checkpoint failed can fail
  again with another answer. Checkpoints are durable, as deployed.
- **Pipeline**: three items of two makers and four histories of orders, for each
  outcome of the memory's nudge; three faults of one handler, since a POST is tried
  three times; a second without faults beside it, whose rows must not be touched.
- **Vendor access**: two pushes of the same vendor, for refresh races need two; one
  check of both vendors; a breaker that opens at once; one loss; two attempts. The
  budget is not required, so every way out of a check is open.
- **Agent**: one transaction, an item below and one above the threshold (and none,
  when it is 0, below); three requests, so that two can overlap and a third can act
  on an approval the first filed; one restart. 3.0 million states.

Requests, runs, pages and calls that are interchangeable are declared symmetric in
runs without liveness only. Runs switch the deadlock check off where the system
rests: when all requests are used and sessions expired, nothing has to happen.

### Fairness

- `outbox_live`: the clock goes on; the poll loop of a live worker comes round
  (`_run` sleeps for a fixed time); every await of `_process` ends (aiohttp bounds a
  request, asyncpg an UPDATE); a stopped container is restarted (`restart:` in
  `docker-compose.yml`). Nothing restarts a task that ended by an exception.
- `breaker`: the timer runs, awaited calls end, and somebody goes on calling (the
  outbox worker retries what it has).
- `callbacks`: a POST ends by its timeout, `collect` by the callback timeout, a probe by
  its own unless a callback comes first; a callback that is queued wakes its collector.
  Sellers owe nothing, neither an answer nor an end.
- `search`: tasks are scheduled and a call ends by `timeout_s`. No network has to
  answer, no caller to leave.
- `negotiation`: the graph's nodes run, the listener resumes a parked thread with a
  message it took, the page takes its turns. Suppliers, approvers and restarts owe
  nothing; a listener that ended is not restarted.
- `vendor_access`: steps of pushes and checks, whose awaits the HTTP client bounds.
  No token has to be lost, no circuit to cool down.
- The other runs claim no liveness: a human may never answer.

## 4. What is proved

All for any values of the constants: any number of keys, replicas, calls, runs,
requests, pages and offerings, any totals, thresholds and bounds.

- **ErpAdapterProofs**, of the outbox. `TruthInv` (types, answers name orders that exist,
  `SuccessIsReal`, `LeaseDisciplined`) is inductive: an answer "ok" in a worker's hand
  must be known to name a minted order, or writing it could make a row lie; that is
  `AnswerIsReal`. `OwnershipInv` speaks of the rows of which no push outlived its lease:
  exclusive claims, retry budget, announcements, a settled row stays a success until it
  is announced (`MarkedIsCommitted`), and an order without a doubt is known to its row
  or about to be (`OrdersAreKnown`, from which `OnlyDoubtRepeats`). It is inductive relative
  to `TruthInv`, row by row, for an UPDATE names one row. A worker that lost its row can
  only write what `Late` excuses, so that `DeadStaysDead` and `OutboxImplementsErpSync`
  (each action is a step of `ErpSync` or a stutter) need no assumption on time.
- **ErpAdapterProofs**, of the breaker. The counter never exceeds the vendor's own
  failures since its last success (`CounterIsHonest`); hence the circuit opens on a
  streak only (`OpensOnStreak`), and an open circuit is deaf to late answers
  (`ShieldsOutage`).
- **ProcurementRunProofs**, of the policy engine. An envelope only takes autonomy away
  (`ErpOnlyEscalates`); a run commits by itself only where mode, threshold and ERP
  agree (`AutoCommitIsLicensed`); `evaluate` always decides (`EvaluateDecides`).
- **ProcurementRunProofs**, of any requests. `RunInv` is inductive. Its core is
  `OrdersAreLicensed`: from the moment a request may reach the seller, the item it
  orders satisfies the licence of its kind, and a licence speaks only of what never
  changes (the request's item and the plan of its run), so no interleaving can
  undermine it. Its other half says that sessions, the snapshots in handlers'
  hands, and the ERP hold order ids of requests of their own run
  (`SessionsAreReal`, `SnapshotsAreReal`, `ErpOrdersAreOwn`): a snapshot is as true
  as the session it was taken of and truth is not lost, hence writing it back is
  harmless to it. `Vouched` names the handlers that may hold a live id: those the
  seller confirmed to, and those nobody answered. Consequences:
  `LargeOrdersAreApproved`, `AutonomyHasALicence`, `ErpBlocksHold`, `PolicyGatesOrders`,
  `ShownOrdersAreReal`, `ErpOrdersAreReal`, `OrdersStayWithTheirRun`.
- **ProcurementRunProofs**, of the runs that are not disturbed. No client is assumed to
  do anything: `disturbed` collects the runs with a request that came while another was in
  flight, a rejection of what awaited nobody, or a `POST /commit`, and `SerialInv`
  speaks of each run outside it. It is inductive relative to `RunInv`.
  None of `OneOrder`, `QueueAgrees` and
  `LifecycleRespected` is inductive, since each speaks of runs at rest, and what is at
  rest is what a handler left. So `SerialInv` has two faces of a run: `AtRest`, of which
  no request is in flight, and `Underway`, of which exactly one is: at each await of its
  handler (`Stands`), what it has written is there and what it has not is as it found
  it. A step of
  another run's request touches neither; a step of its own leads from one await's
  promise to the next, or to rest. `OrderedOnce` needs no more: a run that was ordered
  shows no stage from which another order starts, even when the session
  expired. `QueueAgreesAlways` and `LifecycleIsRespected` also leave out the runs that
  PATCH `/cancel` closed, for it leaves queue and session alone (section 5).
- **GuardedCallsProofs**, of the vendors. `TokenInv`: the lock is held by a push that fetches
  (`LockIsHeldToFetch`), what is fresh is the newest token (`FreshIsNewest`), tokens
  issued are those let go and the one held (`OneRefreshPerLoss`), a token the cache was told
  to drop is not in it (`DroppedIsGone`), and what a call carries was issued
  (`CallsCarryTokens`). From it `RefreshIsSingleFlight` and, as an action property,
  `DropIsFinal`.
- **GuardedCallsProofs**, of the search. The anchors of the clusters, and the listings in
  a row, are recursive functions. That functions with these equations exist is
  proved by a least counterexample: a set of numbers without a member that has
  none before it would be empty (`LeastOf`, from the well-foundedness of the numbers).
  From the equations: who takes a listing is an anchor of its bucket, so each
  listing is in one cluster, which has a cheapest member (`MergeLosesNothing`); and the
  listings in a row are all those of the networks that answered (`ListingsAre`).
  With `SearchInv` (only an answer brings items, a search is done when all calls are over)
  this is `NothingGetsLost`.
- **BecknClientProofs.** `CallInv` says where each callback and each queue is: an
  idle call is new, the queue a call collects from is its own or was replaced, what
  is taken was put under its key. With `LoneInv` (a call marked alone is the only one of
  its key, and its queue is the registered one) it gives `LoneCallsMissNothing`;
  with `ProbeInv` (subscription before trigger) `ProbesMissNothing`; and
  `QueuesHaveOwners`. `PlacesFit` (a callback is in one place: on the wire, with a
  publishing handler, in one queue, or taken by one call) is what the refinement
  `ClientKeepsPromise` needs, for a callback may be given once.
- **OrderTrackingProofs.** `Typed`; `SocketsFit` (an open socket is in the registry and
  not among the dead ones the consumer is about to drop; who is still owed an event is
  among those it is being sent to) for `OpenSocketsMissNothing`; `NewsFit` (every copy of a state, in handlers,
  topic, caches and pages, was the seller's or an ERP's) for `NoStateIsInvented`; and
  for `DatabaseIsAhead` the order of UPDATE and publish of an order the simulator alone
  reports: its states only advance, so that its unconditional UPDATEs do too.
- **FirstAgentProofs.** `Inv` has `RequestsFit` (what a request in each stage may
  hold), `ApprovalsFit` (an approval is filed by a request that is over, and one that
  was rejected alone has left the queue), `DoubtFit` (a state that came with an error
  goes no further than select), and `CoherentFit` (an order in a session is of the request
  that stored the dict; only one that works on this very dict has picked another
  item in it). Theorems:
  `LargeOrdersAreApproved` (against the threshold that held, unless its lookup failed),
  `RejectionsStand`, `DoubtsAreFinal`, `SessionsAreCoherent`.
- **NegotiationProofs.** First the arithmetic: a draft keeps to the caps that the
  guardrails check (`DraftsKeepToTheCaps`), so the shield holds one back for its terms
  only. Then `AuditInv`, which ties the events published to the node the graph
  is at. A node publishes before its checkpoint is written, and is run again from its
  start when it is resumed or its checkpoint failed, so an event may be there twice and
  ahead of the thread: `RecordInOrder` says which events whose checkpoint was written
  there are in the thread's own round, node by node, that there are none of a later one, and
  that any other event is what the node at hand is going to send again (`OwnRecord`) or
  an answer that did not take effect. `MayGoOut` says that a thread waiting for the supplier
  holds an offer the guardrails passed or the approver released. From them
  `KeysAreUnique`, `RoundsAreBoundedAlways`, and `BlockedOffersNeedAnOverride`. The last
  has a premise if checkpoints are in memory: an engine that lost the thread has
  lost the policy too, and what was blocked can no longer be told.
- **PipelineProofs.** `RecordsInv`: a handler is at a step of its program
  (`AtItsStep`), the identifiers it goes by are of rows it inserted itself
  (`OwnsItsRows`), no row refers to one that is missing (`Chained`), an order is one of
  the run its reference names (`OrdersAreOfRuns`), and a run without faults lacks
  nothing (`RunsUnharmed`). It gives `RecordsFollowRunsAlways`. `OrphansNeedFaults` is a
  count: `FaultsCover` says that the rows a handler inserted without learning of it
  (`Strays`: a POST carried out whose answer was lost is repeated), plus its own row if
  it may be stranded (`MayStrand`: the PATCH that would move it on was lost, or a late
  one can still take it back), are at most the faults that met it. Each fault adds one to
  both sides at most, and every other step takes from the left or leaves it; at the
  end what is early is a stray or stranded.

Proofs have a lemma per action. A lemma of a module's common ground (`Step` of
`ProcurementRun`, the transfer lemmas of the others) says what any action leaves alone,
so that an action's proof speaks of what it changes.

### Only model-checked

Liveness under fairness (`Decided`, `RecoversWithVendor`, `KeptOnBySellers`,
`SearchEnds`, `DealsAreKept`, `AllSettle`), which is out of the prover's reach. Every
invariant and action property of the passing runs is a theorem, as the run checks it; one
has a premise, `OnlyOverridesPass`: while the engine has the thread.

## 5. Divergences between code and documents

The properties of this list are what a document or comment says and the code does not
do. Each is stated next to those of its module and is in no run: exchange
the properties of the run's configuration for the one named, with the constant given,
and TLC shows the behaviour.

| property | configuration | what the code does, and what is said of it |
|---|---|---|
| `ProbeDecides` | `breaker` | the open circuit's gate calls pybreaker with a no-op, which succeeds and closes the circuit before the real request is sent (`breaker.py:121`). "Half-open after the timeout — one probe call allowed; success closes, failure re-opens." (`breaker.py:5-6`) |
| `TimeoutIsCeiling` | `callbacks` | `collect` starts its timeout anew for every item (`callbacks.py:65-70`), so a callback that is repeated keeps a call on. "Ceiling for `on_discover` / `on_init` / `on_confirm` wait" (`project_docs/documentation/API_REFERENCE.md:795`) |
| `TokenLossIsRetried` | `vendor_access` | SAP's CSRF GET takes a 401 for permanent and keeps the token (`sap.py:213-216`): the row is dead. "useful when the vendor returns 401" (`oauth.py:107-109`) |
| `DenialIsANo` | `vendor_access` | of several vendors one that cannot be reached counts as a no, and the check is answered 200 (`fanout.py:51-55`). "On vendor unavailable returns 503 — the orchestrator decides fail-open vs fail-closed." (`routes.py:124-125`) |
| `LookupFailureAsks` | `agent` | when the lookup of the threshold fails, 999,999,999 applies and the commit goes on (`Bap-1/src/server.py:583-585`). "require approval for any amount if DB unavailable" (`server.py:569`) |
| `RejectedIsNotAccepted` | `negotiation` | a rejection finalises with whatever the candidate's last state was (`nodes.py:686-710`). "reject (abandon)" (`KnowledgeBase/.../01_langgraph_state_machine.md:117`) |
| `Decided` | `outbox_live`, `Keys <- OneKey`, `MarkMayFail = TRUE`, `MaxFaults = 2` (one per replica) | `_process` does its UPDATEs outside any handler; one that raises comes out of the gather at `worker.py:90` and ends the task of the whole process. "into a durable retry queue" (`services/erp-adapter/docs/ADR-erp-integration.md:39-40`) |
| `ConfirmedReachesErp` | `run_serial` | `decide_approval` starts no `enqueue_sync` (`workflow.py:3152`). "Push confirmed PO to ERP adapter" (`services/orchestrator/README.md:82`) |
| `PreferredIsOrdered` | `run_serial` | `run_procurement` commits the recommendation, not `decision.final_item_id` (`workflow.py:3465`). "swap to the preferred supplier if it appears in results" (`policy_engine.py:399`) |
| `PolicyGatesEveryRoute` | `run_concurrent` | `commit` has a threshold of its own and no ERP envelope (`workflow.py:2166`). "act only on the returned decision object" (`policy_engine.py:163-164`) |
| `AllRolesAreChecked` | `run_concurrent` | `commit` compares the total with the threshold for `requester`, `approver` and `admin` only (`workflow.py:2166`). "All roles subject to threshold check" (`workflow.py:2165`) |
| `SilenceIsTrue` | `callbacks` | the second of two requests of one key replaces the queue of the first, which is told of silence. "Seguro concurrente." (`services/beckn-bap-client/docs/ARCHITECTURE.md:311`) |
| `PollsNeverRegress` | `tracking`, `MaxRequests = 2` | `_parse_on_status` takes an absent state for CREATED. "status polling treat absent states as no update" (`services/beckn-bap-client/src/beckn/models.py:243-244`) |
| `CompareAnswers` | `pipeline` | `compare` refers to locals it never assigns (`workflow.py:1929-1937`): once offerings are found it answers an error. Its docstring promises offerings and scoring |

Others met on the way, which have no property of their own:

- **Outbox.** The UPDATEs that settle a push ask for neither status nor lease
  (`repo.py:232-274`): if a push outlives its lease, a worker that finishes last can
  take a row that another has marked dead, or success, back to `pending`, for the former
  against `ADR-erp-integration.md:96`. The properties say so by name: `Late` in
  `DeadNeverAutoRetried` and `ErpSync`, `overrun` in the others.
- **Breaker.** `breaker.py:4` speaks of failures inside a time window; pybreaker counts
  consecutive failures without one.
- **Run.** `services/orchestrator/README.md:80` says the budget check gates confirm; it
  stands in `commit` only. Two approvals, or decisions, of one run sent at once both
  order. A hitl rejection is accepted in any stage and reopens the selection behind
  an order that was placed (`workflow.py:3674-3701`). `TROUBLESHOOTING.md:372`
  describes a `_cancel_erp_record` that is not there. The threshold is compared with
  the catalogue price, also when a negotiated price is going to be ordered, and a price
  that does not parse counts as zero (`workflow.py:3735-3741`); a
  request without a request id is queued under the empty key, which no decide URL can
  name. `cancel` PATCHes the database and leaves session and approval queue alone
  (`workflow.py:3259`), so a cancelled run can still be approved, and a confirmed one
  cancelled. A confirm whose callback is late answers 200 with no order id;
  `_execute_beckn_commit` makes one up and goes on as if confirmed
  (`workflow.py:2059`), where `services/beckn-bap-client/src/handler.py:343` has "return NACK
  so orchestrator falls back to mock".
- **Pipeline.** `/run-pipeline` and `/discover` end without moving the row on from
  `discovering`. A POST that was carried out in part makes its two retries futile, as
  they meet its unique key. `create_scores` commits per row. A PATCH that arrives after its
  sender's five seconds may overwrite a later status.
- **Vendor access.** A 429 is permanent in the adapters, retryable in `base.py:32`.
  `CircuitOpenError` is caught by no route. Only the mock
  adapter has `evaluate_policy`: others answer 500, on which the client fails open,
  against `routes.py:201-202`. A repeated check may leave two holds. A late
  `invalidate()` may drop a newer token, which costs a refresh.
- **Tracking.** Vendor words of an ERP (POSTED, ...) are shown in place of order states.
  The session's order state never follows the topic. A poll of an expired session
  persists and publishes again what is known. An error of the Kafka client ends the
  consumer loop until a restart.
- **Search.** A success that began before an outage closes an open breaker; a half-open
  one admits every caller. Clusters are greedy, so they depend on the order of answers.
- **Negotiation.** Messages are not tied to the interrupt that waits, so an `on_select`,
  or its duplicate, resumes a graph that waits for an approver. An override sends again
  the offer that was blocked, and may exceed `max_rounds`. Nothing raises the timeout
  that `timeout_handler` handles. A round that was accepted is recorded as "counter"; the
  demo gateway publishes a supplier's "reject" as a counter at list price, and its final
  price need not be the engine's. `redis_hitl_channel_prefix` is unused.
- **First agent.** An approval whose session expired answers with an invented order. Two
  approvals, or two commits, at once order twice; a rejection overlapped by an approval
  does not stop the order; a second `/commit` after a success orders again. A commit that
  failed sticks: retries answer the mock.

## 6. Not modelled, and why

- *Analytics* is read-only SQL, *notebooks and Playground* are run by no service.
- *Arithmetic and prompting*: scoring models, embeddings, field mapping, language model
  prompts. What they answer enters the models as a set of answers.
- *Cryptography*: HMAC and Beckn signatures; a message that fails them changes nothing.
- *Read-only routes*, metrics, audit events (fire and forget, read by nobody in the
  code), wording, and the senders of notifications.
- *The frontend*, but for its two clients with a protocol: the status poller with its
  websocket (`OrderTracking`) and the negotiation hook (`Negotiation`).
- *The Claude proxy* translates requests; *scenario routes* of the ERP mock and scripted
  demo routes are canned.
- The local catalogue that stands in when the services are offline, and the gateway's
  former `mock_negotiate`, which is not mounted.

## 7. The plan

Done, in order of importance: outbox, breaker, policy engine and run; then callbacks
with the probe, tracking, search, negotiation, pipeline with the records, vendor
access, the first agent; proofs of every safety property.

1. Compositions: the confirm of `ProcurementRun` with `BecknClient` in place of
   `ConfirmUnanswered`, its hand-over with `ErpOutbox` in place of `erp`.
2. An abstraction shared by the two breakers: while an outage lasts, at most so many
   calls reach it.

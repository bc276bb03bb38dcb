----------------------------- MODULE OrderTracking -----------------------------
(***************************************************************************)
(* Real-time tracking of one order.  Its state is reported by three        *)
(* sources that know nothing of each other: the seller simulator's         *)
(* auto-advance task (services/sim-bpp/src/handler.py), the seller's       *)
(* signed webhook, and the status polls of open pages (both in             *)
(* services/orchestrator/src/workflow.py).  Each writes purchase_orders    *)
(* and then publishes to the topic po.status.changed, on which the ERP     *)
(* adapter puts its vendors' states too.  The orchestrator's consumer      *)
(* forwards the topic to the websockets of open pages (frontend            *)
(* StatusPoller.tsx), the notification dispatcher to its channels.         *)
(***************************************************************************)
EXTENDS Integers, Sequences, FiniteSets

CONSTANTS
  Used,       \* order states in use; no seller emits them all
  ErpStates,  \* vendor states the ERP adapter forwards
  Pages,      \* open order pages, each with its socket and its polls
  MaxEvents,  \* bound on the events of the topic
  MaxRequests,\* bound on webhook requests and status polls
  MaxDrops,   \* bound on connections that fail or break
  None

Lifecycle == <<"CREATED", "ACCEPTED", "PACKED", "SHIPPED", "OUT_FOR_DELIVERY",
               "DELIVERED", "CANCELLED">>

OrderStates == {Lifecycle[i] : i \in 1..Len(Lifecycle)}

ASSUME UsedAssumption == Used \subseteq OrderStates /\ "CREATED" \in Used
ASSUME BoundsAssumption == MaxEvents \in Nat /\ MaxRequests \in Nat /\ MaxDrops \in Nat

Terminal == {"DELIVERED", "CANCELLED"}

Rank(s) == CHOOSE i \in 1..Len(Lifecycle) : Lifecycle[i] = s

Later(s) == {t \in Used : s \notin Terminal /\ Rank(t) > Rank(s)}

PoStatuses == {"pending", "confirmed", "shipped", "delivered", "cancelled"}

ASSUME NoneAssumption == None \notin OrderStates \cup ErpStates \cup PoStatuses

(* _BECKN_STATE_TO_PO_STATUS, and the pairs of sim-bpp's _LIFECYCLE. *)
PoStatus(s) ==
  CASE s = "CREATED"                          -> "pending"
    [] s \in {"ACCEPTED", "PACKED"}           -> "confirmed"
    [] s \in {"SHIPPED", "OUT_FOR_DELIVERY"}  -> "shipped"
    [] s = "DELIVERED"                        -> "delivered"
    [] s = "CANCELLED"                        -> "cancelled"

PoRank(p) == CASE p = "pending" -> 1 [] p = "confirmed" -> 2 [] p = "shipped" -> 3
               [] p \in {"delivered", "cancelled"} -> 4

(* An event of the topic; one of the ERP adapter has no po_status. *)
Event == [state : OrderStates \cup ErpStates, po : PoStatuses \cup {None}]

StatusEvent(s) == [state |-> s, po |-> PoStatus(s)]

(* Any word of a vendor, in upper case, also one that is an order state.   *)
ErpEvent(s) == [state |-> s, po |-> None]

Channels == {"slack", "teams", "email"}

(* _RULES of the dispatcher, by po_status or else by the state in lower case. *)
RuleKey(e) ==
  IF e.po # None THEN e.po
  ELSE CASE e.state = "CONFIRMED"  -> "confirmed"
         [] e.state = "SHIPPED"    -> "shipped"
         [] e.state = "DELIVERED"  -> "delivered"
         [] e.state = "CANCELLED"  -> "cancelled"
         [] OTHER                  -> None

ChannelsFor(key) ==
  CASE key \in {"confirmed", "delivered"} -> Channels
    [] key \in {"shipped", "cancelled"}   -> {"slack", "teams"}
    [] OTHER                              -> {}

VARIABLES
  actual,     \* the state the seller has really reached
  task,       \* auto-advance task: "off", "sleeping", "persisted"
  hooks,      \* states whose webhook handler has written and not published
  db,         \* purchase_orders.status
  topic,      \* events published, in the topic's order
  consumer,   \* the orchestrator's consumer: stage, offset, sockets to send to, dead ones
  cache,      \* _erp_state_cache: the last event consumed
  session,    \* order_state in the session, None once it has expired
  registry,   \* _ws_by_txn: sockets a broadcast goes to
  page,       \* page[g]: mode, socket, state shown
  poll,       \* poll[g]: the page's status poll
  dispatched, \* the dispatcher's offset
  told,       \* the latest notification, as <<channel, key>>
  been,       \* history: states the seller has been in
  owed,       \* history: open sockets that the event under way has not been sent to
  lone,       \* history: nobody but the task has written db, and no PATCH failed
  requests, drops  \* webhooks and polls begun, connections broken

serverVars == <<db, topic, session>>
sellerVars == <<actual, been, task>>
pageVars == <<registry, page, owed, drops>>
readerVars == <<consumer, cache, dispatched, told>>
vars == <<sellerVars, hooks, serverVars, lone, requests, readerVars, pageVars, poll>>

Shown == OrderStates \cup ErpStates \cup {None}

TypeOK ==
  /\ actual \in OrderStates
  /\ task \in {"off", "sleeping", "persisted"}
  /\ hooks \subseteq OrderStates
  /\ db \in PoStatuses
  /\ topic \in Seq(Event) /\ Len(topic) <= MaxEvents
  /\ consumer \in [at : {"idle", "sending", "dead"}, offset : 0..MaxEvents,
                   conns : SUBSET Pages, dead : SUBSET Pages]
  /\ cache \in Event \cup {None}
  /\ session \in OrderStates \cup {None}
  /\ registry \subseteq Pages
  /\ page \in [Pages -> [mode : {"connecting", "ws", "poll", "stopped"},
                         socket : {"none", "open", "lost"}, shown : Shown]]
  /\ poll \in [Pages -> [at : {"idle", "asking", "answered", "persisted", "returning"},
                         holds : BOOLEAN, last : OrderStates, new : OrderStates]]
  /\ dispatched \in 0..MaxEvents
  /\ told \in (Channels \X PoStatuses) \cup {None}
  /\ been \subseteq OrderStates
  /\ owed \subseteq Pages
  /\ lone \in BOOLEAN
  /\ requests \in 0..MaxRequests
  /\ drops \in 0..MaxDrops

Idle == [at |-> "idle", holds |-> FALSE, last |-> "CREATED", new |-> "CREATED"]

(* The order has just been confirmed: the purchase order is in the         *)
(* database, the session holds CREATED, and the pages that commit leads to *)
(* have not connected yet.                                                 *)
Init ==
  /\ actual = "CREATED"
  /\ task \in {"off", "sleeping"}
  /\ hooks = {}
  /\ db = "pending"
  /\ topic = <<>>
  /\ consumer = [at |-> "idle", offset |-> 0, conns |-> {}, dead |-> {}]
  /\ cache = None
  /\ session = "CREATED"
  /\ registry = {}
  /\ page = [g \in Pages |-> [mode |-> "connecting", socket |-> "none", shown |-> None]]
  /\ poll = [g \in Pages |-> Idle]
  /\ dispatched = 0
  /\ told = None
  /\ been = {"CREATED"}
  /\ owed = {}
  /\ lone = TRUE
  /\ requests = 0
  /\ drops = 0

-----------------------------------------------------------------------------
(* What every source does: PATCH /normalize/po_status, whose UPDATE knows  *)
(* nothing of the status it overwrites, and then publish.  Either may fail *)
(* without the source noticing.                                            *)

Patch(s, source) ==
  \/ /\ db' = PoStatus(s)
     /\ lone' = (lone /\ source = "task")
  \/ /\ lone' = FALSE
     /\ UNCHANGED db

Publish(e) ==
  \/ /\ Len(topic) < MaxEvents
     /\ topic' = Append(topic, e)
  \/ UNCHANGED topic

-----------------------------------------------------------------------------
(* Sellers. *)

Reaches(s) ==
  /\ actual' = s
  /\ been' = been \cup {s}

(* One step of _auto_advance_lifecycle: after its sleep the order is in    *)
(* the next state, which is persisted first.                               *)
Upcoming(s) == {t \in Later(s) \ {"CANCELLED"} : \A u \in Later(s) : Rank(t) <= Rank(u)}

TaskPublishesFirst ==
  /\ task = "sleeping"
  /\ \E s \in Upcoming(actual) : Reaches(s) /\ Publish(StatusEvent(s))
  /\ task' = "persisted"
  /\ UNCHANGED <<hooks, db, session, lone, requests, readerVars, pageVars, poll>>

TaskPersists ==
  /\ task = "sleeping"
  /\ \E s \in Upcoming(actual) : Reaches(s) /\ Patch(s, "task")
  /\ task' = "persisted"
  /\ UNCHANGED <<hooks, topic, session, requests, readerVars, pageVars, poll>>

TaskPublishes ==
  /\ task = "persisted"
  /\ Publish(StatusEvent(actual))
  /\ task' = IF Upcoming(actual) = {} THEN "off" ELSE "sleeping"
  /\ UNCHANGED <<actual, been, hooks, db, session, lone, requests, readerVars, pageVars, poll>>

(* An inbound cancel stops the task, wherever it is. *)
TaskCancelled ==
  /\ task # "off"
  /\ task' = "off"
  /\ UNCHANGED <<actual, been, hooks, serverVars, lone, requests, readerVars, pageVars, poll>>

(* A seller of its own goes ahead, leaving states out. *)
SellerMoves ==
  /\ task = "off"
  /\ \E s \in Later(actual) : Reaches(s)
  /\ UNCHANGED <<task, hooks, serverVars, lone, requests, readerVars, pageVars, poll>>

(* /webhooks/seller/status: a state the seller has been in, sent late,     *)
(* again, or out of order.                                                 *)
WebhookPersists(s) ==
  /\ requests < MaxRequests
  /\ requests' = requests + 1
  /\ s \in been \ hooks
  /\ Patch(s, "hook")
  /\ hooks' = hooks \cup {s}
  /\ UNCHANGED <<sellerVars, topic, session, readerVars, pageVars, poll>>

WebhookPublishes(s) ==
  /\ s \in hooks
  /\ hooks' = hooks \ {s}
  /\ Publish(StatusEvent(s))
  /\ UNCHANGED <<sellerVars, db, session, lone, requests, readerVars, pageVars, poll>>

(* The ERP adapter forwards a vendor's webhook to the same topic. *)
ErpPublishes(s) ==
  /\ Len(topic) < MaxEvents
  /\ topic' = Append(topic, ErpEvent(s))
  /\ UNCHANGED <<sellerVars, hooks, db, session, lone, requests, readerVars, pageVars, poll>>

-----------------------------------------------------------------------------
(* Pages: StatusPoller.tsx and OrderView.tsx. *)

(* A state comes in, by socket or by poll: a terminal one stops tracking   *)
(* and closes the socket, a state after a terminal one starts it again.    *)
After(p, s) ==
  [mode   |-> IF s \in Terminal THEN "stopped"
              ELSE IF p.mode = "stopped" THEN "connecting" ELSE p.mode,
   socket |-> IF s \in Terminal /\ p.socket = "open" THEN "lost" ELSE p.socket,
   shown  |-> s]

(* ws_status: the socket joins the registry and is sent a snapshot of the  *)
(* session, without an await between.  A page has one socket at a time.    *)
Connects(g) ==
  /\ page[g].mode = "connecting"
  /\ g \notin registry \cup consumer.conns \cup consumer.dead
  /\ registry' = registry \cup {g}
  /\ LET joined == [page[g] EXCEPT !.mode = "ws", !.socket = "open"]
     IN  page' = [page EXCEPT ![g] = IF session = None THEN joined ELSE After(joined, session)]
  /\ UNCHANGED <<owed, drops, sellerVars, hooks, serverVars, lone, requests, readerVars, poll>>

(* The connection fails or breaks: the page polls from now on. *)
Drops(g) ==
  /\ drops < MaxDrops
  /\ drops' = drops + 1
  /\ page[g].mode \in {"connecting", "ws"}
  /\ page' = [page EXCEPT ![g].mode = "poll",
                          ![g].socket = IF @ = "open" THEN "lost" ELSE @]
  /\ owed' = owed \ {g}
  /\ UNCHANGED <<registry, sellerVars, hooks, serverVars, lone, requests, readerVars, poll>>

(* The finally of ws_status: close frame, or a heartbeat unanswered. *)
ServerNotices(g) ==
  /\ page[g].socket = "lost"
  /\ registry' = registry \ {g}
  /\ page' = [page EXCEPT ![g].socket = "none"]
  /\ UNCHANGED <<owed, drops, sellerVars, hooks, serverVars, lone, requests, readerVars, poll>>

(* order_status, asked by the interval or by the button: it remembers the  *)
(* session's dictionary and the state in it.                               *)
PollBegins(g) ==
  /\ requests < MaxRequests
  /\ requests' = requests + 1
  /\ page[g].mode # "stopped"
  /\ poll[g].at = "idle"
  /\ poll' = [poll EXCEPT ![g] =
                [Idle EXCEPT !.at = "asking", !.holds = session # None,
                             !.last = IF session = None THEN "CREATED" ELSE session]]
  /\ UNCHANGED <<sellerVars, hooks, serverVars, lone, readerVars, pageVars>>

(* The BAP client answers with the seller's state, with CREATED when it    *)
(* heard nothing or a code it does not know, or not at all.                *)
SilenceIsDelivery(g) == "DELIVERED"

OnSilence(g) == "CREATED"

Answered(g, s) ==
  poll' = [poll EXCEPT ![g].new = s,
                       ![g].at = IF s # poll[g].last THEN "answered" ELSE "returning"]

PollAnswered(g) ==
  /\ poll[g].at = "asking"
  /\ Answered(g, actual)
  /\ UNCHANGED <<sellerVars, hooks, serverVars, lone, requests, readerVars, pageVars>>

PollUnanswered(g) ==
  /\ poll[g].at = "asking"
  /\ \/ Answered(g, OnSilence(g))
     \/ poll' = [poll EXCEPT ![g].new = poll[g].last, ![g].at = "returning"]
  /\ UNCHANGED <<sellerVars, hooks, serverVars, lone, requests, readerVars, pageVars>>

PollPersists(g) ==
  /\ poll[g].at = "answered"
  /\ Patch(poll[g].new, "poll")
  /\ poll' = [poll EXCEPT ![g].at = "persisted"]
  /\ UNCHANGED <<sellerVars, hooks, topic, session, requests, readerVars, pageVars>>

(* Published, and written to the dictionary: the session's, unless that    *)
(* has expired meanwhile.                                                  *)
PollPublishes(g) ==
  /\ poll[g].at = "persisted"
  /\ Publish(StatusEvent(poll[g].new))
  /\ session' = IF poll[g].holds /\ session # None THEN poll[g].new ELSE session
  /\ poll' = [poll EXCEPT ![g].at = "returning"]
  /\ UNCHANGED <<sellerVars, hooks, db, lone, requests, readerVars, pageVars>>

PollReturns(g) ==
  /\ poll[g].at = "returning"
  /\ page' = [page EXCEPT ![g] = After(@, poll[g].new)]
  /\ owed' = IF page'[g].socket = "open" THEN owed ELSE owed \ {g}
  /\ poll' = [poll EXCEPT ![g] = Idle]
  /\ UNCHANGED <<registry, drops, sellerVars, hooks, serverVars, lone, requests, readerVars>>

(* SESSION_TTL after its last _session_put; a poll does not prolong it. *)
SessionExpires ==
  /\ session # None
  /\ session' = None
  /\ UNCHANGED <<sellerVars, hooks, db, topic, lone, requests, readerVars, pageVars, poll>>

-----------------------------------------------------------------------------
(* The consumers of the topic. *)

(* Sockets found dead in a broadcast leave the registry as it is then:     *)
(* others may have joined during the sends.                                *)
SurvivorsOfSnapshot(conns, dead) == conns \ dead

Survivors(conns, dead) == registry \ dead

(* An event is cached before it is broadcast. *)
Consumes ==
  /\ consumer.at = "idle"
  /\ consumer.offset < Len(topic)
  /\ cache' = topic[consumer.offset + 1]
  /\ consumer' = [consumer EXCEPT !.at = IF registry = {} THEN "idle" ELSE "sending",
                                  !.offset = @ + 1, !.conns = registry]
  /\ owed' = {g \in Pages : page[g].socket = "open"}
  /\ UNCHANGED <<registry, page, drops, dispatched, told, sellerVars, hooks, serverVars, lone,
                 requests, poll>>

(* One send; the last one is followed by the sweep of the registry.  A     *)
(* socket whose page is gone may fail the send or swallow it.              *)
Sends(g) ==
  /\ consumer.at = "sending"
  /\ g \in consumer.conns
  /\ \E gone \in IF page[g].socket = "open" THEN {{}}
                 ELSE IF page[g].socket = "none" THEN {{g}} ELSE {{}, {g}} :
       LET left == consumer.conns \ {g}
           dead == consumer.dead \cup gone
       IN  /\ consumer' = [consumer EXCEPT !.at = IF left = {} THEN "idle" ELSE "sending",
                                           !.conns = left,
                                           !.dead = IF left = {} THEN {} ELSE dead]
           /\ registry' = IF left = {} /\ dead # {} THEN Survivors(consumer.conns, dead)
                          ELSE registry
  /\ page' = IF page[g].socket = "open" THEN [page EXCEPT ![g] = After(@, cache.state)] ELSE page
  /\ owed' = owed \ {g}
  /\ UNCHANGED <<drops, cache, dispatched, told, sellerVars, hooks, serverVars, lone, requests,
                 poll>>

(* An error of the Kafka client leaves the loop; nothing starts it again. *)
ConsumerDies ==
  /\ consumer.at # "dead"
  /\ consumer' = [consumer EXCEPT !.at = "dead", !.conns = {}, !.dead = {}]
  /\ UNCHANGED <<cache, dispatched, told, pageVars, sellerVars, hooks, serverVars, lone, requests,
                 poll>>

(* The dispatcher: each channel of the rule on its own, and none of them   *)
(* certain (no configuration, no recipient, an error).  told is one        *)
(* channel's view of it.                                                   *)
Dispatches ==
  /\ dispatched < Len(topic)
  /\ dispatched' = dispatched + 1
  /\ LET key == RuleKey(topic[dispatched + 1])
     IN  told' \in {<<c, key>> : c \in ChannelsFor(key)} \cup {told}
  /\ UNCHANGED <<consumer, cache, pageVars, sellerVars, hooks, serverVars, lone, requests, poll>>

Next ==
  \/ TaskPersists \/ TaskPublishes \/ TaskCancelled \/ SellerMoves
  \/ \E s \in Used : WebhookPersists(s) \/ WebhookPublishes(s)
  \/ \E s \in ErpStates : ErpPublishes(s)
  \/ \E g \in Pages :
       \/ Connects(g) \/ Drops(g) \/ ServerNotices(g)
       \/ PollBegins(g) \/ PollAnswered(g) \/ PollUnanswered(g)
       \/ PollPersists(g) \/ PollPublishes(g) \/ PollReturns(g)
       \/ Sends(g)
  \/ SessionExpires
  \/ Consumes \/ ConsumerDies \/ Dispatches

Spec == Init /\ [][Next]_vars

-----------------------------------------------------------------------------
(* Nothing is invented or foretold: database and session speak of states   *)
(* the seller has been in, pages and notifications of those or of what an  *)
(* ERP vendor reported.                                                    *)
NothingInvented ==
  /\ db \in {PoStatus(s) : s \in been}
  /\ session \in been \cup {None}
  /\ \A g \in Pages : page[g].shown \in been \cup ErpStates \cup {None}
  /\ told # None => \/ told[2] \in {PoStatus(s) : s \in been}
                    \/ \E s \in ErpStates : told[2] = RuleKey(ErpEvent(s))

(* Between broadcasts every open socket is in the registry and has been    *)
(* sent every event since it joined, whoever joined, left or broke during  *)
(* the sends.                                                              *)
SocketsMissNothing ==
  consumer.at = "idle" =>
    /\ owed = {}
    /\ \A g \in Pages : page[g].socket = "open" => g \in registry

(* sim-bpp persists first so that the database matches an event by the     *)
(* time it lands: while it alone reports the order, and its PATCHes arrive,*)
(* no page or cache is ahead of the database.                              *)
DatabaseLeads ==
  lone => \A i \in 1..Len(topic) : topic[i].po # None => PoRank(topic[i].po) <= PoRank(db)

(* The client's models say that status polling treats absent states as no  *)
(* update: what a poll writes is then never behind the state it last saw.  *)
PollsNeverRegress ==
  \A g \in Pages : poll[g].at = "persisted" => Rank(poll[g].new) >= Rank(poll[g].last)
=============================================================================

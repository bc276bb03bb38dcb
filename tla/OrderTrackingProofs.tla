-------------------------- MODULE OrderTrackingProofs --------------------------
(***************************************************************************)
(* Theorems about order tracking, for any states in use, words of ERP      *)
(* vendors, pages, events, requests and broken connections.                *)
(***************************************************************************)
EXTENDS OrderTracking, SequenceTheorems, TLAPS

LEMMA StatesAre ==
  OrderStates = {"CREATED", "ACCEPTED", "PACKED", "SHIPPED", "OUT_FOR_DELIVERY",
                 "DELIVERED", "CANCELLED"}
<1>1. Len(Lifecycle) = 7
  BY DEF Lifecycle
<1>2. /\ Lifecycle[1] = "CREATED" /\ Lifecycle[2] = "ACCEPTED" /\ Lifecycle[3] = "PACKED"
      /\ Lifecycle[4] = "SHIPPED" /\ Lifecycle[5] = "OUT_FOR_DELIVERY"
      /\ Lifecycle[6] = "DELIVERED" /\ Lifecycle[7] = "CANCELLED"
  BY DEF Lifecycle
<1>3. 1..7 = {1, 2, 3, 4, 5, 6, 7}
  OBVIOUS
<1> QED
  BY <1>1, <1>2, <1>3 DEF OrderStates

LEMMA StatusTypes == \A s \in OrderStates : PoStatus(s) \in PoStatuses /\ StatusEvent(s) \in Event
<1>1. \A s \in OrderStates : PoStatus(s) \in PoStatuses
  BY StatesAre DEF PoStatus, PoStatuses
<1> QED
  BY <1>1 DEF StatusEvent, Event

LEMMA RulesNameStatuses ==
  \A e \in Event : \A c \in ChannelsFor(RuleKey(e)) : <<c, RuleKey(e)>> \in Channels \X PoStatuses
BY DEF ChannelsFor, RuleKey, Channels, PoStatuses, Event

PageType == [mode : {"connecting", "ws", "poll", "stopped"}, socket : {"none", "open", "lost"},
             shown : Shown]

PollType == [at : {"idle", "asking", "answered", "persisted", "returning"},
             holds : BOOLEAN, last : OrderStates, new : OrderStates]

ConsumerType == [at : {"idle", "sending", "dead"}, offset : 0..MaxEvents,
                 conns : SUBSET Pages, dead : SUBSET Pages]

LEMMA AfterTypes ==
  \A p \in PageType, s \in OrderStates \cup ErpStates :
    /\ After(p, s) \in PageType
    /\ After(p, s).shown = s
    /\ After(p, s).socket = "open" => p.socket = "open"
BY DEF After, PageType, Shown, Terminal

LEMMA UpcomingTypes ==
  \A s \in OrderStates : Later(s) \subseteq OrderStates /\ Upcoming(s) \subseteq OrderStates
BY UsedAssumption DEF Upcoming, Later

(* The topic after a publish, whether it arrived or not. *)
LEMMA PublishTypes ==
  ASSUME topic \in Seq(Event), Len(topic) <= MaxEvents, NEW e \in Event,
         Publish(e) \/ (Len(topic) < MaxEvents /\ topic' = Append(topic, e))
  PROVE  /\ topic' \in Seq(Event) /\ Len(topic') <= MaxEvents /\ Len(topic) <= Len(topic')
         /\ \A i \in 1..Len(topic') : topic'[i] = e \/ (i \in 1..Len(topic) /\ topic'[i] = topic[i])
<1>1. CASE topic' = topic
  BY <1>1
<1>2. CASE Len(topic) < MaxEvents /\ topic' = Append(topic, e)
  BY <1>2, BoundsAssumption
<1> QED
  BY <1>1, <1>2 DEF Publish

-----------------------------------------------------------------------------
(* Type correctness, a group of variables at a time. *)

SellersTyped ==
  /\ actual \in OrderStates
  /\ task \in {"off", "sleeping", "persisted"}
  /\ been \subseteq OrderStates
  /\ hooks \subseteq OrderStates

ServerTyped ==
  /\ db \in PoStatuses
  /\ topic \in Seq(Event) /\ Len(topic) <= MaxEvents
  /\ session \in OrderStates \cup {None}
  /\ lone \in BOOLEAN
  /\ requests \in 0..MaxRequests

PagesTyped ==
  /\ registry \subseteq Pages
  /\ page \in [Pages -> PageType]
  /\ owed \subseteq Pages
  /\ drops \in 0..MaxDrops
  /\ poll \in [Pages -> PollType]

ReadersTyped ==
  /\ consumer \in ConsumerType
  /\ cache \in Event \cup {None}
  /\ consumer.at = "sending" => cache \in Event
  /\ dispatched \in 0..MaxEvents
  /\ told \in (Channels \X PoStatuses) \cup {None}

Typed == SellersTyped /\ ServerTyped /\ PagesTyped /\ ReadersTyped

LEMMA TypedIsTypeOK == Typed => TypeOK
BY DEF Typed, SellersTyped, ServerTyped, PagesTyped, ReadersTyped, TypeOK, PageType, PollType, ConsumerType

LEMMA TypedInit == Init => Typed
<1> SUFFICES ASSUME Init PROVE Typed
  OBVIOUS
<1>1. SellersTyped
  BY StatesAre DEF Init, SellersTyped
<1>2. ServerTyped
  BY StatesAre, BoundsAssumption DEF Init, ServerTyped, PoStatuses
<1>3. PagesTyped
  BY StatesAre, BoundsAssumption DEF Init, PagesTyped, PageType, PollType, Idle, Shown
<1>4. ReadersTyped
  BY BoundsAssumption DEF Init, ReadersTyped, ConsumerType
<1> QED
  BY <1>1, <1>2, <1>3, <1>4 DEF Typed

LEMMA PatchTypes ==
  ASSUME ServerTyped, NEW s \in OrderStates, NEW source, Patch(s, source)
  PROVE  db' \in PoStatuses /\ lone' \in BOOLEAN
BY StatusTypes DEF Patch, ServerTyped

LEMMA Counts ==
  /\ requests \in 0..MaxRequests /\ requests < MaxRequests => requests + 1 \in 0..MaxRequests
  /\ drops \in 0..MaxDrops /\ drops < MaxDrops => drops + 1 \in 0..MaxDrops
BY BoundsAssumption

LEMMA SellersKeepTypes ==
  ASSUME Typed, TaskPersists \/ TaskPublishes \/ TaskCancelled \/ SellerMoves
  PROVE  Typed'
<1> USE DEF Typed
<1>1. SellersTyped'
  BY UpcomingTypes DEF TaskPersists, TaskPublishes, TaskCancelled, SellerMoves, Reaches, SellersTyped
<1>2. ServerTyped'
  <2>1. CASE TaskPersists
    BY <2>1, UpcomingTypes, PatchTypes DEF TaskPersists, SellersTyped, ServerTyped
  <2>2. CASE TaskPublishes
    BY <2>2, StatusTypes, PublishTypes DEF TaskPublishes, SellersTyped, ServerTyped
  <2>3. CASE TaskCancelled \/ SellerMoves
    BY <2>3 DEF TaskCancelled, SellerMoves, serverVars, ServerTyped
  <2> QED
    BY <2>1, <2>2, <2>3
<1>3. UNCHANGED <<readerVars, pageVars, poll>>
  BY DEF TaskPersists, TaskPublishes, TaskCancelled, SellerMoves
<1>4. PagesTyped' /\ ReadersTyped'
  BY <1>3 DEF PagesTyped, ReadersTyped, readerVars, pageVars
<1> QED
  BY <1>1, <1>2, <1>4

LEMMA HooksKeepTypes ==
  ASSUME Typed, NEW s \in Used \cup ErpStates,
         \/ s \in Used /\ (WebhookPersists(s) \/ WebhookPublishes(s))
         \/ s \in ErpStates /\ ErpPublishes(s)
  PROVE  Typed'
<1> USE DEF Typed
<1>1. SellersTyped'
  BY UsedAssumption DEF WebhookPersists, WebhookPublishes, ErpPublishes, sellerVars, SellersTyped
<1>2. ServerTyped'
  <2>1. CASE s \in Used /\ WebhookPersists(s)
    BY <2>1, UsedAssumption, PatchTypes, Counts DEF WebhookPersists, ServerTyped
  <2>2. CASE s \in Used /\ WebhookPublishes(s)
    BY <2>2, UsedAssumption, StatusTypes, PublishTypes DEF WebhookPublishes, ServerTyped
  <2>3. CASE s \in ErpStates /\ ErpPublishes(s)
    <3>1. ErpEvent(s) \in Event
      BY <2>3 DEF ErpEvent, Event
    <3> QED
      BY <2>3, <3>1, PublishTypes DEF ErpPublishes, ServerTyped
  <2> QED
    BY <2>1, <2>2, <2>3
<1>3. UNCHANGED <<readerVars, pageVars, poll>>
  BY DEF WebhookPersists, WebhookPublishes, ErpPublishes
<1>4. PagesTyped' /\ ReadersTyped'
  BY <1>3 DEF PagesTyped, ReadersTyped, readerVars, pageVars
<1> QED
  BY <1>1, <1>2, <1>4

LEMMA SocketsKeepTypes ==
  ASSUME Typed, NEW g \in Pages, Connects(g) \/ Drops(g) \/ ServerNotices(g)
  PROVE  Typed'
<1> USE DEF Typed
<1>1. UNCHANGED <<sellerVars, hooks, serverVars, lone, requests, readerVars, poll>>
  BY DEF Connects, Drops, ServerNotices
<1>2. SellersTyped' /\ ServerTyped' /\ ReadersTyped'
  BY <1>1 DEF SellersTyped, ServerTyped, ReadersTyped, sellerVars, serverVars, readerVars
<1>3. page' \in [Pages -> PageType]
  <2>1. CASE Connects(g)
    <3> DEFINE joined == [page[g] EXCEPT !.mode = "ws", !.socket = "open"]
    <3>1. joined \in PageType
      BY DEF PagesTyped, PageType
    <3>2. page' = [page EXCEPT ![g] = IF session = None THEN joined ELSE After(joined, session)]
      BY <2>1 DEF Connects
    <3> HIDE DEF joined
    <3> QED
      BY <3>1, <3>2, AfterTypes DEF PagesTyped, ServerTyped
  <2>2. CASE Drops(g) \/ ServerNotices(g)
    BY <2>2 DEF Drops, ServerNotices, PagesTyped, PageType
  <2> QED
    BY <2>1, <2>2
<1>4. PagesTyped'
  BY <1>1, <1>3, Counts DEF PagesTyped, Connects, Drops, ServerNotices
<1> QED
  BY <1>2, <1>4

LEMMA PollsKeepTypes ==
  ASSUME Typed, NEW g \in Pages,
         \/ PollBegins(g) \/ PollAnswered(g) \/ PollUnanswered(g)
         \/ PollPersists(g) \/ PollPublishes(g) \/ PollReturns(g)
  PROVE  Typed'
<1> USE DEF Typed
<1>row. poll[g] \in PollType
  BY DEF PagesTyped
<1>1. UNCHANGED <<sellerVars, hooks, readerVars>>
  BY DEF PollBegins, PollAnswered, PollUnanswered, PollPersists, PollPublishes, PollReturns
<1>2. SellersTyped' /\ ReadersTyped'
  BY <1>1 DEF SellersTyped, ReadersTyped, sellerVars, readerVars
<1>3. ServerTyped'
  <2>1. CASE PollBegins(g)
    BY <2>1, Counts DEF PollBegins, ServerTyped, serverVars
  <2>2. CASE PollAnswered(g) \/ PollUnanswered(g) \/ PollReturns(g)
    BY <2>2 DEF PollAnswered, PollUnanswered, PollReturns, ServerTyped, serverVars
  <2>3. CASE PollPersists(g)
    BY <2>3, <1>row, PatchTypes DEF PollPersists, ServerTyped, PollType
  <2>4. CASE PollPublishes(g)
    <3>1. poll[g].new \in OrderStates /\ StatusEvent(poll[g].new) \in Event
      BY <1>row, StatusTypes DEF PollType
    <3> QED
      BY <2>4, <3>1, PublishTypes DEF PollPublishes, ServerTyped
  <2> QED
    BY <2>1, <2>2, <2>3, <2>4
<1>4. poll' \in [Pages -> PollType]
  <2>1. CASE PollBegins(g)
    <3> DEFINE new == [Idle EXCEPT !.at = "asking", !.holds = session # None,
                                   !.last = IF session = None THEN "CREATED" ELSE session]
    <3>1. new \in PollType
      BY StatesAre DEF Idle, PollType, ServerTyped
    <3>2. poll' = [poll EXCEPT ![g] = new]
      BY <2>1 DEF PollBegins
    <3> HIDE DEF new
    <3> QED
      BY <3>1, <3>2 DEF PagesTyped
  <2>2. CASE PollAnswered(g) \/ PollUnanswered(g)
    BY <2>2, StatesAre DEF PollAnswered, PollUnanswered, Answered, OnSilence, PagesTyped, PollType, SellersTyped
  <2>3. CASE PollPersists(g) \/ PollPublishes(g)
    BY <2>3 DEF PollPersists, PollPublishes, PagesTyped, PollType
  <2>4. CASE PollReturns(g)
    BY <2>4, StatesAre DEF PollReturns, PagesTyped, PollType, Idle
  <2> QED
    BY <2>1, <2>2, <2>3, <2>4
<1>5. PagesTyped'
  <2>1. CASE PollReturns(g)
    <3>1. After(page[g], poll[g].new) \in PageType
      BY <1>row, AfterTypes DEF PagesTyped, PollType
    <3>2. page' = [page EXCEPT ![g] = After(page[g], poll[g].new)]
      BY <2>1 DEF PollReturns
    <3> QED
      BY <1>4, <2>1, <3>1, <3>2 DEF PollReturns, PagesTyped
  <2>2. CASE ~PollReturns(g)
    BY <1>4, <2>2 DEF PollBegins, PollAnswered, PollUnanswered, PollPersists, PollPublishes, pageVars, PagesTyped
  <2> QED
    BY <2>1, <2>2
<1> QED
  BY <1>2, <1>3, <1>5

LEMMA ReadersKeepTypes ==
  ASSUME Typed, \/ SessionExpires \/ Consumes \/ ConsumerDies \/ Dispatches
                \/ \E g \in Pages : Sends(g)
  PROVE  Typed'
<1> USE DEF Typed
<1>1. CASE SessionExpires
  BY <1>1 DEF SessionExpires, SellersTyped, ServerTyped, PagesTyped, ReadersTyped, sellerVars, pageVars, readerVars
<1>2. CASE Consumes
  <2>1. /\ consumer.offset + 1 \in 0..MaxEvents /\ consumer.offset + 1 \in 1..Len(topic)
        /\ topic[consumer.offset + 1] \in Event
    BY <1>2, BoundsAssumption DEF Consumes, ReadersTyped, ConsumerType, ServerTyped
  <2>2. consumer' \in ConsumerType
    BY <1>2, <2>1 DEF Consumes, ReadersTyped, ConsumerType, PagesTyped
  <2> QED
    BY <1>2, <2>1, <2>2 DEF Consumes, SellersTyped, ServerTyped, PagesTyped, ReadersTyped, sellerVars, serverVars
<1>3. CASE ConsumerDies
  <2>1. consumer' \in ConsumerType
    BY <1>3 DEF ConsumerDies, ReadersTyped, ConsumerType
  <2> QED
    BY <1>3, <2>1 DEF ConsumerDies, SellersTyped, ServerTyped, PagesTyped, ReadersTyped, sellerVars, serverVars, pageVars
<1>4. CASE Dispatches
  <2>1. dispatched + 1 \in 0..MaxEvents /\ topic[dispatched + 1] \in Event
    BY <1>4, BoundsAssumption DEF Dispatches, ReadersTyped, ServerTyped
  <2>2. told' \in (Channels \X PoStatuses) \cup {None}
    BY <1>4, <2>1, RulesNameStatuses DEF Dispatches, ReadersTyped
  <2> QED
    BY <1>4, <2>1, <2>2 DEF Dispatches, SellersTyped, ServerTyped, PagesTyped, ReadersTyped, sellerVars, serverVars, pageVars
<1>5. ASSUME NEW g \in Pages, Sends(g) PROVE Typed'
  <2>1. consumer' \in ConsumerType
    <3>1. consumer \in ConsumerType
      BY DEF ReadersTyped
    <3>2. PICK gone \in IF page[g].socket = "open" THEN {{}}
                        ELSE IF page[g].socket = "none" THEN {{g}} ELSE {{}, {g}} :
            LET left == consumer.conns \ {g}
            IN  consumer' = [consumer EXCEPT !.at = IF left = {} THEN "idle" ELSE "sending",
                                             !.conns = left,
                                             !.dead = IF left = {} THEN {} ELSE consumer.dead \cup gone]
      BY <1>5 DEF Sends
    <3>3. gone \subseteq Pages
      OBVIOUS
    <3> QED
      BY <3>1, <3>2, <3>3 DEF ConsumerType
  <2>2. registry' \subseteq Pages
    BY <1>5 DEF Sends, Survivors, PagesTyped
  <2>3. page' \in [Pages -> PageType]
    <3>1. cache.state \in OrderStates \cup ErpStates
      BY <1>5 DEF Sends, ReadersTyped, Event
    <3>2. After(page[g], cache.state) \in PageType
      BY <3>1, AfterTypes DEF PagesTyped
    <3>3. page' = page \/ page' = [page EXCEPT ![g] = After(page[g], cache.state)]
      BY <1>5 DEF Sends
    <3> QED
      BY <3>2, <3>3 DEF PagesTyped
  <2> QED
    BY <1>5, <2>1, <2>2, <2>3 DEF Sends, SellersTyped, ServerTyped, PagesTyped, ReadersTyped, sellerVars, serverVars
<1> QED
  BY <1>1, <1>2, <1>3, <1>4, <1>5

LEMMA TypedStep == Typed /\ [Next]_vars => Typed'
<1> SUFFICES ASSUME Typed, [Next]_vars PROVE Typed'
  OBVIOUS
<1>1. ASSUME NEW s \in Used, WebhookPersists(s) \/ WebhookPublishes(s) PROVE Typed'
  BY <1>1, HooksKeepTypes
<1>2. ASSUME NEW s \in ErpStates, ErpPublishes(s) PROVE Typed'
  BY <1>2, HooksKeepTypes
<1>3. ASSUME NEW g \in Pages, Connects(g) \/ Drops(g) \/ ServerNotices(g) PROVE Typed'
  BY <1>3, SocketsKeepTypes
<1>4. ASSUME NEW g \in Pages,
             \/ PollBegins(g) \/ PollAnswered(g) \/ PollUnanswered(g)
             \/ PollPersists(g) \/ PollPublishes(g) \/ PollReturns(g)
      PROVE  Typed'
  BY <1>4, PollsKeepTypes
<1>5. CASE UNCHANGED vars
  BY <1>5 DEF vars, sellerVars, serverVars, readerVars, pageVars,
              Typed, SellersTyped, ServerTyped, PagesTyped, ReadersTyped
<1> QED
  BY <1>1, <1>2, <1>3, <1>4, <1>5, SellersKeepTypes, ReadersKeepTypes DEF Next

LEMMA TypedInvariant == Spec => []Typed
BY TypedInit, TypedStep, PTL DEF Spec

(* Every variable of order tracking keeps its type. *)
THEOREM TypeCorrect == Spec => []TypeOK
BY TypedIsTypeOK, TypedInvariant, PTL

-----------------------------------------------------------------------------
(* Sockets. *)

(* While an event is being sent, those it is owed to are still in line;    *)
(* a socket found dead is not open and will not be before the sweep.       *)
SocketsFit ==
  /\ \A g \in Pages : page[g].socket = "open" => g \in registry /\ g \notin consumer.dead
  /\ consumer.at = "idle" => owed = {} /\ consumer.conns = {} /\ consumer.dead = {}
  /\ consumer.at = "sending" => owed \subseteq consumer.conns

LEMMA SocketsStep ==
  ASSUME Typed, SocketsFit, [Next]_vars
  PROVE  SocketsFit'
<1>types. /\ page \in [Pages -> PageType] /\ registry \subseteq Pages /\ owed \subseteq Pages
          /\ consumer \in ConsumerType /\ session \in OrderStates \cup {None}
          /\ poll \in [Pages -> PollType]
  BY DEF Typed, PagesTyped, ReadersTyped, ServerTyped
<1>1. ASSUME NEW g \in Pages, Connects(g) PROVE SocketsFit'
  <2>1. registry' = registry \cup {g} /\ g \notin consumer.dead /\ UNCHANGED <<owed, consumer>>
    BY <1>1 DEF Connects, readerVars
  <2>2. \A h \in Pages \ {g} : page'[h] = page[h]
    BY <1>1, <1>types DEF Connects
  <2> QED
    BY <2>1, <2>2 DEF SocketsFit
<1>2. ASSUME NEW g \in Pages, Drops(g) PROVE SocketsFit'
  <2>1. \A h \in Pages : page'[h].socket = "open" => page[h].socket = "open"
    BY <1>2, <1>types DEF Drops, PageType
  <2>2. owed' \subseteq owed /\ UNCHANGED <<registry, consumer>>
    BY <1>2 DEF Drops, readerVars
  <2> QED
    BY <2>1, <2>2 DEF SocketsFit
<1>3. ASSUME NEW g \in Pages, ServerNotices(g) PROVE SocketsFit'
  <2>1. \A h \in Pages : page'[h].socket = "open" => page[h].socket = "open" /\ h # g
    BY <1>3, <1>types DEF ServerNotices, PageType
  <2>2. registry' = registry \ {g} /\ UNCHANGED <<owed, consumer>>
    BY <1>3 DEF ServerNotices, readerVars
  <2> QED
    BY <2>1, <2>2 DEF SocketsFit
<1>4. ASSUME NEW g \in Pages, PollReturns(g) PROVE SocketsFit'
  <2>1. page' = [page EXCEPT ![g] = After(page[g], poll[g].new)]
    BY <1>4 DEF PollReturns
  <2>2. After(page[g], poll[g].new).socket = "open" => page[g].socket = "open"
    BY <1>types, AfterTypes DEF PollType
  <2>3. \A h \in Pages : page'[h].socket = "open" => page[h].socket = "open"
    BY <2>1, <2>2, <1>types
  <2>4. owed' \subseteq owed /\ UNCHANGED <<registry, consumer>>
    BY <1>4 DEF PollReturns, readerVars
  <2> QED
    BY <2>3, <2>4 DEF SocketsFit
<1>5. CASE Consumes
  <2>1. /\ consumer.at = "idle" /\ consumer'.conns = registry /\ consumer'.dead = consumer.dead
        /\ consumer'.at = IF registry = {} THEN "idle" ELSE "sending"
    BY <1>5, <1>types DEF Consumes, ConsumerType
  <2>2. owed' = {g \in Pages : page[g].socket = "open"} /\ UNCHANGED <<registry, page>>
    BY <1>5 DEF Consumes
  <2> QED
    BY <2>1, <2>2 DEF SocketsFit
<1>6. ASSUME NEW g \in Pages, Sends(g) PROVE SocketsFit'
  <2>1. PICK gone \in IF page[g].socket = "open" THEN {{}}
                      ELSE IF page[g].socket = "none" THEN {{g}} ELSE {{}, {g}} :
          LET left == consumer.conns \ {g}
              dead == consumer.dead \cup gone
          IN  /\ consumer' = [consumer EXCEPT !.at = IF left = {} THEN "idle" ELSE "sending",
                                              !.conns = left,
                                              !.dead = IF left = {} THEN {} ELSE dead]
              /\ registry' = IF left = {} /\ dead # {} THEN Survivors(consumer.conns, dead)
                             ELSE registry
    BY <1>6 DEF Sends
  <2> DEFINE left == consumer.conns \ {g}
             dead == consumer.dead \cup gone
  <2>2. /\ consumer'.at = (IF left = {} THEN "idle" ELSE "sending") /\ consumer'.conns = left
        /\ consumer'.dead = IF left = {} THEN {} ELSE dead
        /\ registry' = registry \/ registry' = registry \ dead
    BY <2>1, <1>types DEF ConsumerType, Survivors
  <2>3. \A h \in Pages : page[h].socket = "open" => h \notin dead /\ h \in registry
    BY <2>1 DEF SocketsFit
  <2>4. \A h \in Pages : page'[h].socket = "open" => page[h].socket = "open"
    <3>1. cache.state \in OrderStates \cup ErpStates
      BY <1>6 DEF Sends, Typed, ReadersTyped, Event
    <3>2. After(page[g], cache.state).socket = "open" => page[g].socket = "open"
      BY <3>1, <1>types, AfterTypes
    <3>3. page' = page \/ page' = [page EXCEPT ![g] = After(page[g], cache.state)]
      BY <1>6 DEF Sends
    <3> QED
      BY <3>2, <3>3, <1>types
  <2>5. owed' = owed \ {g} /\ owed \subseteq consumer.conns
    BY <1>6 DEF Sends, SocketsFit
  <2> HIDE DEF left, dead
  <2>6. owed' \subseteq left
    BY <2>5 DEF left
  <2> QED
    BY <2>2, <2>3, <2>4, <2>6 DEF SocketsFit
<1>7. CASE ConsumerDies
  <2>1. consumer'.at = "dead" /\ consumer'.dead = {} /\ UNCHANGED <<page, registry>>
    BY <1>7, <1>types DEF ConsumerDies, ConsumerType, pageVars
  <2> QED
    BY <2>1 DEF SocketsFit
<1>8. CASE UNCHANGED <<page, registry, owed, consumer>>
  BY <1>8 DEF SocketsFit
<1>9. \/ \E g \in Pages : Connects(g) \/ Drops(g) \/ ServerNotices(g) \/ PollReturns(g) \/ Sends(g)
      \/ Consumes \/ ConsumerDies
      \/ UNCHANGED <<page, registry, owed, consumer>>
  BY DEF Next, vars, pageVars, readerVars, TaskPersists, TaskPublishes, TaskCancelled, SellerMoves,
         WebhookPersists, WebhookPublishes, ErpPublishes, PollBegins, PollAnswered, PollUnanswered,
         PollPersists, PollPublishes, SessionExpires, Dispatches
<1> QED
  BY <1>1, <1>2, <1>3, <1>4, <1>5, <1>6, <1>7, <1>8, <1>9

(* Between broadcasts every open socket is registered and has been sent    *)
(* each event since it joined, whoever came and went during the sends.     *)
THEOREM OpenSocketsMissNothing == Spec => []SocketsMissNothing
<1>1. Init => SocketsFit
  BY DEF Init, SocketsFit
<1>2. SocketsFit => SocketsMissNothing
  BY DEF SocketsFit, SocketsMissNothing
<1>3. Typed /\ SocketsFit /\ [Next]_vars => SocketsFit'
  BY SocketsStep
<1> QED
  BY <1>1, <1>2, <1>3, TypedInvariant, PTL DEF Spec

-----------------------------------------------------------------------------
(* News. *)

(* An event is about a state of b, or a vendor's word. *)
IsNews(e, b) == (\E s \in b : e = StatusEvent(s)) \/ (\E s \in ErpStates : e = ErpEvent(s))

Statuses(b) == {PoStatus(s) : s \in b}

(* What is on its way to database, session and pages is as true as they are. *)
NewsFit ==
  /\ actual \in been /\ hooks \subseteq been /\ "CREATED" \in been
  /\ \A i \in 1..Len(topic) : IsNews(topic[i], been)
  /\ consumer.at = "sending" => IsNews(cache, been)
  /\ \A g \in Pages : poll[g].last \in been /\ poll[g].new \in been
  /\ NothingInvented

LEMMA NewsLasts ==
  ASSUME NEW b, NEW c, b \subseteq c, NEW e, IsNews(e, b)
  PROVE  IsNews(e, c)
BY DEF IsNews

LEMMA NewsShown ==
  ASSUME NEW b \in SUBSET OrderStates, NEW e, IsNews(e, b)
  PROVE  /\ e.state \in b \cup ErpStates
         /\ RuleKey(e) \in Statuses(b) \/ \E s \in ErpStates : RuleKey(e) = RuleKey(ErpEvent(s))
<1>1. ASSUME NEW s \in b, e = StatusEvent(s)
      PROVE  e.state = s /\ RuleKey(e) = PoStatus(s)
  <2>1. PoStatus(s) # None
    BY StatusTypes, NoneAssumption
  <2> QED
    BY <1>1, <2>1 DEF StatusEvent, RuleKey
<1>2. ASSUME NEW s \in ErpStates, e = ErpEvent(s)
      PROVE  e.state = s
  BY <1>2 DEF ErpEvent
<1> QED
  BY <1>1, <1>2 DEF IsNews, Statuses

(* Later news of the same topic, with all it was about before. *)
LEMMA PublishedNews ==
  ASSUME Typed, NewsFit, NEW e \in Event, been \subseteq been', IsNews(e, been'),
         Publish(e) \/ (Len(topic) < MaxEvents /\ topic' = Append(topic, e))
  PROVE  \A i \in 1..Len(topic') : IsNews(topic'[i], been')
<1>1. \A i \in 1..Len(topic') : topic'[i] = e \/ (i \in 1..Len(topic) /\ topic'[i] = topic[i])
  BY PublishTypes DEF Typed, ServerTyped
<1>2. \A i \in 1..Len(topic) : IsNews(topic[i], been')
  BY NewsLasts DEF NewsFit
<1> QED
  BY <1>1, <1>2

(* What a step must show of the variables it writes. *)
LEMMA NewsKept ==
  ASSUME NewsFit, been \subseteq been',
         actual' \in been', hooks' \subseteq been',
         topic' = topic \/ \A i \in 1..Len(topic') : IsNews(topic'[i], been'),
         consumer'.at = "sending" => IsNews(cache', been') \/ (consumer.at = "sending" /\ cache' = cache),
         \A g \in Pages : poll'[g] = poll[g] \/ (poll'[g].last \in been' /\ poll'[g].new \in been'),
         db' = db \/ db' \in Statuses(been'),
         session' = session \/ session' \in been' \cup {None},
         \A g \in Pages : page'[g].shown = page[g].shown \/ page'[g].shown \in been' \cup ErpStates,
         told' = told \/ told'[2] \in Statuses(been') \/ \E s \in ErpStates : told'[2] = RuleKey(ErpEvent(s))
  PROVE  NewsFit'
<1>1. \A i \in 1..Len(topic') : IsNews(topic'[i], been')
  BY NewsLasts DEF NewsFit
<1>2. consumer'.at = "sending" => IsNews(cache', been')
  BY NewsLasts DEF NewsFit
<1>3. Statuses(been) \subseteq Statuses(been')
  BY DEF Statuses
<1>4. NothingInvented'
  BY <1>3 DEF NewsFit, NothingInvented, Statuses
<1> QED
  BY <1>1, <1>2, <1>4 DEF NewsFit

LEMMA SellersKeepNews ==
  ASSUME Typed, NewsFit, TaskPersists \/ TaskPublishes \/ TaskCancelled \/ SellerMoves
  PROVE  NewsFit'
<1> USE DEF Typed
<1>1. been \subseteq been' /\ actual' \in been' /\ hooks' \subseteq been'
  BY DEF TaskPersists, TaskPublishes, TaskCancelled, SellerMoves, Reaches, NewsFit
<1>2. UNCHANGED <<consumer, cache, poll, page, told, session>>
  BY DEF TaskPersists, TaskPublishes, TaskCancelled, SellerMoves, readerVars, pageVars, serverVars
<1>3. CASE TaskPersists
  <2>1. db' = db \/ db' \in Statuses(been')
    BY <1>1, <1>3 DEF TaskPersists, Patch, Reaches, Statuses
  <2> QED
    BY <1>1, <1>2, <1>3, <2>1, NewsKept DEF TaskPersists
<1>4. CASE TaskPublishes
  <2>1. StatusEvent(actual) \in Event /\ IsNews(StatusEvent(actual), been')
    BY <1>4, <1>1, StatusTypes DEF TaskPublishes, IsNews, SellersTyped
  <2>2. \A i \in 1..Len(topic') : IsNews(topic'[i], been')
    BY <1>1, <1>4, <2>1, PublishedNews DEF TaskPublishes
  <2> QED
    BY <1>1, <1>2, <1>4, <2>2, NewsKept DEF TaskPublishes
<1>5. CASE TaskCancelled \/ SellerMoves
  BY <1>1, <1>2, <1>5, NewsKept DEF TaskCancelled, SellerMoves, serverVars
<1> QED
  BY <1>3, <1>4, <1>5

LEMMA HooksKeepNews ==
  ASSUME Typed, NewsFit, NEW s \in Used \cup ErpStates,
         \/ s \in Used /\ (WebhookPersists(s) \/ WebhookPublishes(s))
         \/ s \in ErpStates /\ ErpPublishes(s)
  PROVE  NewsFit'
<1> USE DEF Typed
<1>1. been' = been /\ actual' = actual /\ UNCHANGED <<consumer, cache, poll, page, told, session>>
  BY DEF WebhookPersists, WebhookPublishes, ErpPublishes, sellerVars, readerVars, pageVars
<1>2. been \subseteq been' /\ actual' \in been'
  BY <1>1 DEF NewsFit
<1>3. CASE s \in Used /\ WebhookPersists(s)
  <2>1. s \in been /\ (db' = db \/ db' \in Statuses(been')) /\ hooks' = hooks \cup {s} /\ topic' = topic
    BY <1>1, <1>3 DEF WebhookPersists, Patch, Statuses
  <2>2. hooks' \subseteq been'
    BY <1>1, <2>1 DEF NewsFit
  <2> QED
    BY <1>1, <1>2, <2>1, <2>2, NewsKept
<1>4. CASE s \in Used /\ WebhookPublishes(s)
  <2>1. s \in been /\ hooks' \subseteq been' /\ db' = db
    BY <1>1, <1>4 DEF WebhookPublishes, NewsFit
  <2>2. StatusEvent(s) \in Event /\ IsNews(StatusEvent(s), been')
    BY <1>1, <2>1, StatusTypes DEF IsNews, SellersTyped
  <2>3. \A i \in 1..Len(topic') : IsNews(topic'[i], been')
    BY <1>2, <1>4, <2>2, PublishedNews DEF WebhookPublishes
  <2> QED
    BY <1>1, <1>2, <2>1, <2>3, NewsKept
<1>5. CASE s \in ErpStates /\ ErpPublishes(s)
  <2>1. hooks' = hooks /\ db' = db /\ hooks' \subseteq been'
    BY <1>1, <1>5 DEF ErpPublishes, NewsFit
  <2>2. ErpEvent(s) \in Event /\ IsNews(ErpEvent(s), been')
    BY <1>5 DEF IsNews, ErpEvent, Event
  <2>3. \A i \in 1..Len(topic') : IsNews(topic'[i], been')
    BY <1>2, <1>5, <2>2, PublishedNews DEF ErpPublishes
  <2> QED
    BY <1>1, <1>2, <2>1, <2>3, NewsKept
<1> QED
  BY <1>3, <1>4, <1>5

LEMMA PagesKeepNews ==
  ASSUME Typed, NewsFit, NEW g \in Pages, Connects(g) \/ Drops(g) \/ ServerNotices(g)
  PROVE  NewsFit'
<1> USE DEF Typed
<1>1. UNCHANGED <<actual, been, hooks, db, topic, session, consumer, cache, told, poll>>
  BY DEF Connects, Drops, ServerNotices, sellerVars, serverVars, readerVars
<1>2. been \subseteq been' /\ actual' \in been' /\ hooks' \subseteq been'
  BY <1>1 DEF NewsFit
<1>3. \A h \in Pages : page'[h].shown = page[h].shown \/ page'[h].shown \in been'
  <2>1. CASE Connects(g)
    <3> DEFINE joined == [page[g] EXCEPT !.mode = "ws", !.socket = "open"]
    <3>1. joined \in PageType /\ joined.shown = page[g].shown
      BY DEF PagesTyped, PageType
    <3>2. page' = [page EXCEPT ![g] = IF session = None THEN joined ELSE After(joined, session)]
      BY <2>1 DEF Connects
    <3>3. session # None => session \in been /\ session \in OrderStates
      BY DEF NewsFit, NothingInvented, ServerTyped
    <3> HIDE DEF joined
    <3>4. session # None => After(joined, session).shown \in been
      BY <3>1, <3>3, AfterTypes
    <3> QED
      BY <1>1, <3>1, <3>2, <3>4 DEF PagesTyped
  <2>2. CASE Drops(g) \/ ServerNotices(g)
    BY <2>2 DEF Drops, ServerNotices, PagesTyped, PageType
  <2> QED
    BY <2>1, <2>2
<1> QED
  BY <1>1, <1>2, <1>3, NewsKept

LEMMA PollsKeepNews ==
  ASSUME Typed, NewsFit, NEW g \in Pages,
         \/ PollBegins(g) \/ PollAnswered(g) \/ PollUnanswered(g)
         \/ PollPersists(g) \/ PollPublishes(g) \/ PollReturns(g)
  PROVE  NewsFit'
<1> USE DEF Typed
<1>row. /\ poll \in [Pages -> PollType] /\ poll[g] \in PollType
        /\ poll[g].last \in been /\ poll[g].new \in been
        /\ actual \in been /\ "CREATED" \in been /\ been \subseteq OrderStates
        /\ session \in been \cup {None}
  BY DEF PagesTyped, NewsFit, SellersTyped, NothingInvented
<1>1. UNCHANGED <<actual, been, hooks, consumer, cache, told>>
  BY DEF PollBegins, PollAnswered, PollUnanswered, PollPersists, PollPublishes, PollReturns,
         sellerVars, readerVars
<1>2. been \subseteq been' /\ actual' \in been' /\ hooks' \subseteq been'
  BY <1>1 DEF NewsFit
<1>3. CASE PollBegins(g)
  <2> DEFINE new == [Idle EXCEPT !.at = "asking", !.holds = session # None,
                                 !.last = IF session = None THEN "CREATED" ELSE session]
  <2>1. new.last \in been /\ new.new \in been
    BY <1>row DEF Idle
  <2>2. poll' = [poll EXCEPT ![g] = new] /\ UNCHANGED <<topic, db, session, page>>
    BY <1>3 DEF PollBegins, serverVars, pageVars
  <2> HIDE DEF new
  <2>3. \A h \in Pages : poll'[h] = poll[h] \/ (poll'[h].last \in been' /\ poll'[h].new \in been')
    BY <1>1, <1>row, <2>1, <2>2
  <2> QED
    BY <1>1, <1>2, <2>2, <2>3, NewsKept
<1>4. CASE PollAnswered(g) \/ PollUnanswered(g)
  <2>1. \A h \in Pages : poll'[h] = poll[h] \/ (poll'[h].last \in been' /\ poll'[h].new \in been')
    BY <1>1, <1>4, <1>row DEF PollAnswered, PollUnanswered, Answered, OnSilence, PollType
  <2>2. UNCHANGED <<topic, db, session, page>>
    BY <1>4 DEF PollAnswered, PollUnanswered, serverVars, pageVars
  <2> QED
    BY <1>1, <1>2, <2>1, <2>2, NewsKept
<1>5. CASE PollPersists(g)
  <2>1. db' = db \/ db' \in Statuses(been')
    BY <1>1, <1>5, <1>row DEF PollPersists, Patch, Statuses
  <2>2. \A h \in Pages : poll'[h] = poll[h] \/ (poll'[h].last \in been' /\ poll'[h].new \in been')
    BY <1>1, <1>5, <1>row DEF PollPersists, PollType
  <2>3. UNCHANGED <<topic, session, page>>
    BY <1>5 DEF PollPersists, pageVars
  <2> QED
    BY <1>1, <1>2, <2>1, <2>2, <2>3, NewsKept
<1>6. CASE PollPublishes(g)
  <2> DEFINE e == StatusEvent(poll[g].new)
  <2>1. e \in Event /\ IsNews(e, been')
    BY <1>1, <1>row, StatusTypes DEF IsNews
  <2>2. Publish(e) /\ UNCHANGED <<db, page>>
    BY <1>6 DEF PollPublishes, pageVars
  <2> HIDE DEF e
  <2>3. \A i \in 1..Len(topic') : IsNews(topic'[i], been')
    BY <1>2, <2>1, <2>2, PublishedNews
  <2>4. \A h \in Pages : poll'[h] = poll[h] \/ (poll'[h].last \in been' /\ poll'[h].new \in been')
    BY <1>1, <1>6, <1>row DEF PollPublishes, PollType
  <2>5. session' = session \/ session' \in been'
    BY <1>1, <1>6, <1>row DEF PollPublishes
  <2> QED
    BY <1>1, <1>2, <2>2, <2>3, <2>4, <2>5, NewsKept
<1>7. CASE PollReturns(g)
  <2>1. After(page[g], poll[g].new).shown = poll[g].new
    BY <1>row, AfterTypes DEF PagesTyped
  <2>2. page' = [page EXCEPT ![g] = After(page[g], poll[g].new)]
    BY <1>7 DEF PollReturns
  <2>3. \A h \in Pages : page'[h].shown = page[h].shown \/ page'[h].shown \in been'
    BY <1>1, <1>row, <2>1, <2>2 DEF PagesTyped
  <2>4. \A h \in Pages : poll'[h] = poll[h] \/ (poll'[h].last \in been' /\ poll'[h].new \in been')
    BY <1>1, <1>7, <1>row DEF PollReturns, Idle
  <2>5. UNCHANGED <<topic, db, session>>
    BY <1>7 DEF PollReturns, serverVars
  <2> QED
    BY <1>1, <1>2, <2>3, <2>4, <2>5, NewsKept
<1> QED
  BY <1>3, <1>4, <1>5, <1>6, <1>7

LEMMA ReadersKeepNews ==
  ASSUME Typed, NewsFit, \/ SessionExpires \/ Consumes \/ ConsumerDies \/ Dispatches
                         \/ \E g \in Pages : Sends(g)
  PROVE  NewsFit'
<1> USE DEF Typed
<1>1. UNCHANGED <<actual, been, hooks, db, topic, poll>>
  BY DEF SessionExpires, Consumes, ConsumerDies, Dispatches, Sends, sellerVars, serverVars
<1>2. been \subseteq been' /\ actual' \in been' /\ hooks' \subseteq been' /\ been \in SUBSET OrderStates
  BY <1>1 DEF NewsFit, SellersTyped
<1>3. CASE SessionExpires
  BY <1>1, <1>2, <1>3, NewsKept DEF SessionExpires, readerVars, pageVars
<1>4. CASE Consumes
  <2>1. consumer.offset + 1 \in 1..Len(topic)
    BY <1>4 DEF Consumes, ReadersTyped, ConsumerType, ServerTyped
  <2>2. IsNews(cache', been')
    BY <1>1, <1>4, <2>1 DEF Consumes, NewsFit
  <2> QED
    BY <1>1, <1>2, <1>4, <2>2, NewsKept DEF Consumes, serverVars
<1>5. CASE ConsumerDies
  <2>1. consumer'.at = "dead"
    BY <1>5 DEF ConsumerDies, ReadersTyped, ConsumerType
  <2> QED
    BY <1>1, <1>2, <1>5, <2>1, NewsKept DEF ConsumerDies, pageVars, serverVars
<1>6. CASE Dispatches
  <2> DEFINE e == topic[dispatched + 1]
  <2>1. dispatched + 1 \in 1..Len(topic)
    BY <1>6 DEF Dispatches, ReadersTyped, ServerTyped
  <2>2. IsNews(e, been)
    BY <2>1 DEF NewsFit
  <2>3. RuleKey(e) \in Statuses(been) \/ \E s \in ErpStates : RuleKey(e) = RuleKey(ErpEvent(s))
    BY <1>2, <2>2, NewsShown
  <2>4. told' = told \/ told'[2] = RuleKey(e)
    BY <1>6 DEF Dispatches
  <2> HIDE DEF e
  <2> QED
    BY <1>1, <1>2, <1>6, <2>3, <2>4, NewsKept DEF Dispatches, pageVars, serverVars
<1>7. ASSUME NEW g \in Pages, Sends(g) PROVE NewsFit'
  <2>1. cache \in Event /\ IsNews(cache, been) /\ consumer.at = "sending"
    BY <1>7 DEF Sends, ReadersTyped, NewsFit
  <2>2. cache.state \in been \cup ErpStates
    BY <1>2, <2>1, NewsShown
  <2>3. cache.state \in OrderStates \cup ErpStates
    BY <2>1 DEF Event
  <2>4. After(page[g], cache.state).shown = cache.state
    BY <2>3, AfterTypes DEF PagesTyped
  <2>5. page' = page \/ page' = [page EXCEPT ![g] = After(page[g], cache.state)]
    BY <1>7 DEF Sends
  <2>6. \A h \in Pages : page'[h].shown = page[h].shown \/ page'[h].shown \in been' \cup ErpStates
    BY <1>1, <2>2, <2>4, <2>5 DEF PagesTyped
  <2>7. UNCHANGED <<cache, told, session>>
    BY <1>7 DEF Sends, serverVars
  <2> QED
    BY <1>1, <1>2, <2>1, <2>6, <2>7, NewsKept
<1> QED
  BY <1>3, <1>4, <1>5, <1>6, <1>7

LEMMA NewsStep == Typed /\ NewsFit /\ [Next]_vars => NewsFit'
<1> SUFFICES ASSUME Typed, NewsFit, [Next]_vars PROVE NewsFit'
  OBVIOUS
<1>1. ASSUME NEW s \in Used, WebhookPersists(s) \/ WebhookPublishes(s) PROVE NewsFit'
  BY <1>1, HooksKeepNews
<1>2. ASSUME NEW s \in ErpStates, ErpPublishes(s) PROVE NewsFit'
  BY <1>2, HooksKeepNews
<1>3. ASSUME NEW g \in Pages, Connects(g) \/ Drops(g) \/ ServerNotices(g) PROVE NewsFit'
  BY <1>3, PagesKeepNews
<1>4. ASSUME NEW g \in Pages,
             \/ PollBegins(g) \/ PollAnswered(g) \/ PollUnanswered(g)
             \/ PollPersists(g) \/ PollPublishes(g) \/ PollReturns(g)
      PROVE  NewsFit'
  BY <1>4, PollsKeepNews
<1>5. CASE UNCHANGED vars
  BY <1>5 DEF vars, sellerVars, serverVars, readerVars, pageVars, NewsFit, NothingInvented
<1> QED
  BY <1>1, <1>2, <1>3, <1>4, <1>5, SellersKeepNews, ReadersKeepNews DEF Next

(* Database, session, pages and notifications speak of states the seller   *)
(* has been in, or of a vendor's word, whoever reports late or out of order.*)
THEOREM NoStateIsInvented == Spec => []NothingInvented
<1>1. Init => NewsFit
  <2> SUFFICES ASSUME Init PROVE NewsFit
    OBVIOUS
  <2>1. PoStatus("CREATED") = "pending"
    BY DEF PoStatus
  <2> QED
    BY <2>1 DEF Init, NewsFit, NothingInvented, Idle
<1>2. NewsFit => NothingInvented
  BY DEF NewsFit
<1> QED
  BY <1>1, <1>2, NewsStep, TypedInvariant, PTL DEF Spec

-----------------------------------------------------------------------------
(* The database leads while the simulator alone reports. *)

LEMMA RanksAre ==
  /\ Rank("CREATED") = 1 /\ Rank("ACCEPTED") = 2 /\ Rank("PACKED") = 3 /\ Rank("SHIPPED") = 4
  /\ Rank("OUT_FOR_DELIVERY") = 5 /\ Rank("DELIVERED") = 6 /\ Rank("CANCELLED") = 7
<1>1. Len(Lifecycle) = 7
  BY DEF Lifecycle
<1>2. /\ Lifecycle[1] = "CREATED" /\ Lifecycle[2] = "ACCEPTED" /\ Lifecycle[3] = "PACKED"
      /\ Lifecycle[4] = "SHIPPED" /\ Lifecycle[5] = "OUT_FOR_DELIVERY"
      /\ Lifecycle[6] = "DELIVERED" /\ Lifecycle[7] = "CANCELLED"
  BY DEF Lifecycle
<1>3. 1..7 = {1, 2, 3, 4, 5, 6, 7}
  OBVIOUS
<1>4. \A i, j \in 1..7 : Lifecycle[i] = Lifecycle[j] => i = j
  BY <1>2, <1>3
<1>5. \A i \in 1..7 : Rank(Lifecycle[i]) = i
  BY <1>1, <1>4 DEF Rank
<1> QED
  BY <1>2, <1>3, <1>5

LEMMA PoStatusesFollow ==
  \A s, t \in OrderStates : Rank(t) > Rank(s) => PoRank(PoStatus(s)) <= PoRank(PoStatus(t))
BY StatesAre, RanksAre DEF PoRank, PoStatus

LEMMA PoRanks == \A p \in PoStatuses : PoRank(p) \in Nat
BY DEF PoRank, PoStatuses

LeadFit ==
  lone =>
    /\ hooks = {} /\ \A g \in Pages : poll[g].at # "persisted"
    /\ task # "off" => db = PoStatus(actual)
    /\ DatabaseLeads

LEMMA LeadStep ==
  ASSUME Typed, LeadFit, [Next]_vars
  PROVE  LeadFit'
<1> USE DEF Typed
<1>types. /\ actual \in OrderStates /\ db \in PoStatuses /\ poll \in [Pages -> PollType]
          /\ topic \in Seq(Event) /\ Len(topic) <= MaxEvents
  BY DEF SellersTyped, ServerTyped, PagesTyped
<1>1. CASE TaskPersists
  <2> SUFFICES ASSUME lone' PROVE LeadFit'
    BY DEF LeadFit
  <2>1. PICK s \in Upcoming(actual) : actual' = s /\ db' = PoStatus(s) /\ lone
    BY <1>1 DEF TaskPersists, Reaches, Patch
  <2>2. s \in OrderStates /\ Rank(s) > Rank(actual)
    BY <1>types, UsedAssumption DEF Upcoming, Later
  <2>3. db = PoStatus(actual) /\ DatabaseLeads /\ hooks = {} /\ \A g \in Pages : poll[g].at # "persisted"
    BY <1>1, <2>1 DEF TaskPersists, LeadFit
  <2>4. PoRank(db) <= PoRank(db') /\ PoRank(db) \in Nat /\ PoRank(db') \in Nat
    BY <1>types, <2>1, <2>2, <2>3, PoStatusesFollow, StatusTypes, PoRanks
  <2>5. UNCHANGED <<topic, hooks, poll>>
    BY <1>1 DEF TaskPersists
  <2>6. \A i \in 1..Len(topic) : topic[i].po # None => PoRank(topic[i].po) \in Nat
    <3>1. \A e \in Event : e.po # None => PoRank(e.po) \in Nat
      BY PoRanks DEF Event
    <3>2. \A i \in 1..Len(topic) : topic[i] \in Event
      BY <1>types
    <3> QED
      BY <3>1, <3>2
  <2>7. DatabaseLeads'
    BY <2>1, <2>3, <2>4, <2>5, <2>6 DEF DatabaseLeads
  <2> QED
    BY <2>1, <2>3, <2>5, <2>7 DEF LeadFit
<1>2. CASE TaskPublishes
  <2> SUFFICES ASSUME lone' PROVE LeadFit'
    BY DEF LeadFit
  <2>1. lone /\ UNCHANGED <<actual, db, hooks, poll>> /\ db = PoStatus(actual)
    BY <1>2 DEF TaskPublishes, LeadFit
  <2>2. \A i \in 1..Len(topic') : topic'[i] = StatusEvent(actual) \/ (i \in 1..Len(topic) /\ topic'[i] = topic[i])
    BY <1>2, <1>types, StatusTypes, PublishTypes DEF TaskPublishes
  <2>3. StatusEvent(actual).po = db /\ PoRank(db) \in Nat
    BY <1>types, <2>1, PoRanks DEF StatusEvent
  <2>4. DatabaseLeads'
    BY <2>1, <2>2, <2>3 DEF LeadFit, DatabaseLeads
  <2> QED
    BY <2>1, <2>4 DEF LeadFit
<1>3. CASE TaskCancelled \/ SellerMoves
  <2>1. UNCHANGED <<db, hooks, poll, topic, lone>> /\ task' = "off"
    BY <1>3 DEF TaskCancelled, SellerMoves, serverVars
  <2> QED
    BY <2>1 DEF LeadFit, DatabaseLeads
<1>4. ASSUME NEW s \in Used, WebhookPersists(s) PROVE LeadFit'
  <2>1. ~lone'
    BY <1>4 DEF WebhookPersists, Patch
  <2> QED
    BY <2>1 DEF LeadFit
<1>5. ASSUME NEW g \in Pages, PollPersists(g) PROVE LeadFit'
  <2>1. ~lone'
    BY <1>5 DEF PollPersists, Patch
  <2> QED
    BY <2>1 DEF LeadFit
<1>6. ASSUME NEW s \in Used, WebhookPublishes(s) PROVE LeadFit'
  <2>1. ~lone /\ lone' = lone
    BY <1>6 DEF WebhookPublishes, LeadFit
  <2> QED
    BY <2>1 DEF LeadFit
<1>7. ASSUME NEW g \in Pages, PollPublishes(g) PROVE LeadFit'
  <2>1. ~lone /\ lone' = lone
    BY <1>7 DEF PollPublishes, LeadFit
  <2> QED
    BY <2>1 DEF LeadFit
<1>8. ASSUME NEW s \in ErpStates, ErpPublishes(s) PROVE LeadFit'
  <2>1. ErpEvent(s) \in Event /\ ErpEvent(s).po = None
    BY <1>8 DEF ErpEvent, Event
  <2>2. UNCHANGED <<actual, task, db, hooks, poll, lone>> /\ topic' = Append(topic, ErpEvent(s)) /\ Len(topic) < MaxEvents
    BY <1>8 DEF ErpPublishes, sellerVars
  <2>3. \A i \in 1..Len(topic') : topic'[i] = ErpEvent(s) \/ (i \in 1..Len(topic) /\ topic'[i] = topic[i])
    BY <1>types, <2>1, <2>2, PublishTypes
  <2> QED
    BY <2>1, <2>2, <2>3 DEF LeadFit, DatabaseLeads
<1>9. ASSUME NEW g \in Pages,
             PollBegins(g) \/ PollAnswered(g) \/ PollUnanswered(g) \/ PollReturns(g)
      PROVE  LeadFit'
  <2>1. \A h \in Pages : poll'[h].at = "persisted" => poll[h].at = "persisted"
    <3>1. CASE PollBegins(g)
      <4> DEFINE new == [Idle EXCEPT !.at = "asking", !.holds = session # None,
                                     !.last = IF session = None THEN "CREATED" ELSE session]
      <4>1. new.at = "asking" /\ poll' = [poll EXCEPT ![g] = new]
        BY <3>1 DEF Idle, PollBegins
      <4> HIDE DEF new
      <4> QED
        BY <4>1, <1>types
    <3>2. CASE PollAnswered(g) \/ PollUnanswered(g) \/ PollReturns(g)
      BY <3>2, <1>types DEF PollAnswered, PollUnanswered, PollReturns, Answered, Idle, PollType
    <3> QED
      BY <1>9, <3>1, <3>2
  <2>2. UNCHANGED <<actual, task, db, hooks, topic, lone>>
    BY <1>9 DEF PollBegins, PollAnswered, PollUnanswered, PollReturns, sellerVars, serverVars
  <2> QED
    BY <2>1, <2>2 DEF LeadFit, DatabaseLeads
<1>10. CASE UNCHANGED <<actual, task, db, hooks, topic, lone, poll>>
  BY <1>10 DEF LeadFit, DatabaseLeads
<1>11. \/ TaskPersists \/ TaskPublishes \/ TaskCancelled \/ SellerMoves
       \/ \E s \in Used : WebhookPersists(s) \/ WebhookPublishes(s)
       \/ \E s \in ErpStates : ErpPublishes(s)
       \/ \E g \in Pages : \/ PollBegins(g) \/ PollAnswered(g) \/ PollUnanswered(g)
                           \/ PollPersists(g) \/ PollPublishes(g) \/ PollReturns(g)
       \/ UNCHANGED <<actual, task, db, hooks, topic, lone, poll>>
  BY DEF Next, vars, sellerVars, serverVars, Connects, Drops, ServerNotices, Sends, SessionExpires,
         Consumes, ConsumerDies, Dispatches
<1> QED
  BY <1>1, <1>2, <1>3, <1>4, <1>5, <1>6, <1>7, <1>8, <1>9, <1>10, <1>11

(* Of an order that the simulator alone reports, and while its PATCHes      *)
(* arrive, no event is ahead of the database, wherever the task is         *)
(* cancelled.  Polls and webhooks may put older news over newer.           *)
THEOREM DatabaseIsAhead == Spec => []DatabaseLeads
<1>1. Init => LeadFit
  <2>1. PoStatus("CREATED") = "pending"
    BY DEF PoStatus
  <2> QED
    BY <2>1 DEF Init, LeadFit, DatabaseLeads, Idle
<1>2. LeadFit => DatabaseLeads
  BY DEF LeadFit, DatabaseLeads
<1>3. Typed /\ LeadFit /\ [Next]_vars => LeadFit'
  BY LeadStep
<1> QED
  BY <1>1, <1>2, <1>3, TypedInvariant, PTL DEF Spec
=============================================================================

------------------------------ MODULE Pipeline ------------------------------
(***************************************************************************)
(* The discover and score phase of the orchestrator, and the records it    *)
(* leaves with the data normalizer.                                        *)
(*                                                                         *)
(* Four handlers go through it: POST /compare and POST /run share          *)
(* _compare_phase (run goes on to an order, of which ProcurementRun has    *)
(* the decisions; here it is the confirm and its record), POST             *)
(* /run-pipeline starts from a sentence and POST /discover from an intent. *)
(* A handler is a program of steps of three sorts:                         *)
(*   - a POST to the data normalizer, tried three times (_persist), after  *)
(*     which the handler goes on without the identifiers it would have got; *)
(*   - a PATCH of the request's status, sent once (_persist_status);       *)
(*   - a call of another service (_post), whose failure ends the handler.  *)
(*                                                                         *)
(* Faults, at most MaxFaults to a handler: a POST that is not carried out, or in *)
(* part, or whose answer is lost; a PATCH that is lost, or is carried out   *)
(* after its five seconds (the handler of the normalizer goes on when its  *)
(* caller has left); a handler that dies with its process.                 *)
(***************************************************************************)
EXTENDS RequestRecords, LoyaltyMemory, SellerCatalog, FiniteSets

CONSTANTS Clients, \* requests to the orchestrator under way
          Asks,      \* the endpoints each may be of
          Queries,   \* what a request may ask for, as sets of words
          Items,     \* what a discovery finds, if it finds anything
          Ranking,   \* Items by price, as _build_scoring ranks them
          PriceScore, \* the score of each in that ranking
          Maker,     \* the provider of each
          Histories, \* the past orders the memory may answer with
          MaxFaults  \* a bound on the faults that meet each

ASSUME RankingAssumption ==
    /\ Items # {} /\ Ranking \in Seq(Items)
    /\ DOMAIN PriceScore = Items /\ DOMAIN Maker = Items
    /\ \A i \in Items : \E k \in DOMAIN Ranking : Ranking[k] = i
    /\ MaxFaults \in [Clients -> Nat]

(* The scores above are those of a discovery of all Items. *)
ASSUME QueriesAssumption == \A q \in Queries : Matches(q) \in {{}, Items}

VARIABLES db,     \* the tables of the data normalizer
          late,   \* PATCHes their senders gave up, still to be carried out
          task    \* the state of each handler

vars == <<db, late, task>>

Phase == <<"create", "intent", "discovering", "discover", "discovery",
           "scoring", "score", "scores", "negotiating">>
Direct == Phase \o <<"memory", "select">>

Program == [compare |-> Phase,
            run |-> Phase \o <<"confirm", "confirmed", "order">>,
            direct |-> Direct,
            pipeline |-> <<"create", "parsing", "parse">> \o Tail(Direct)]
Kinds == DOMAIN Program

Posts == {"create", "intent", "discovery", "scores", "order"}
Patches == {"parsing", "discovering", "scoring", "negotiating", "confirmed", "cancelled"}
Calls == {"parse", "discover", "score", "memory", "select", "confirm"}
Replies == {"none", "results", "ordered", "nothing", "error"}

(* What a handler may choose: an item, or what the memory makes of one. *)
Picks == Items \cup {Enriched(Ranking, PriceScore, Maker, r, hits) : r \in Items, hits \in Histories}

(* A handler: where it is, the tries of the POST under way, the            *)
(* identifiers it was given, the items it found and scored, the one it     *)
(* recommends, its answer, and (of the model) how many faults met it.       *)
Task == [kind : Kinds, pc : Posts \cup Patches \cup Calls \cup {"done", "dead"},
         tries : 1 .. 3, request : Nat, intent : Nat, query : Nat,
         found : SUBSET Items, scored : SUBSET Items,
         recommended : SUBSET Items, choice : SUBSET Picks,
         reply : Replies, faults : Nat]

NewTask(kind) ==
    [kind |-> kind, pc |-> "create", tries |-> 1, request |-> None, intent |-> None,
     query |-> None, found |-> {}, scored |-> {}, recommended |-> {}, choice |-> {},
     reply |-> "none", faults |-> 0]

Init == /\ db = EmptyDb
        /\ late = {}
        /\ task \in {[c \in Clients |-> NewTask(k[c])] : k \in [Clients -> Kinds]}
        /\ \A c \in Clients : task[c].kind \in Asks[c]

Compares(t) == t.kind \in {"compare", "run"}
Ended(t) == t.pc \in {"done", "dead"}

(***************************************************************************)
(* Steps                                                                   *)
(***************************************************************************)

(* Whether the handler takes a step at all, with the identifiers it has.   *)
(* The two ways through the phase differ in "scoring".                     *)
Takes(t, step) ==
    CASE step = "intent" \/ step \in Patches \ {"scoring", "negotiating"} ->
             t.request # None
      [] step = "scoring" -> IF Compares(t) THEN t.request # None ELSE t.intent # None
      [] step = "discovery" -> t.intent # None
      [] step \in {"scores", "negotiating"} -> t.query # None
      [] step \in {"memory", "select"} -> t.recommended # {}
      [] step = "order" -> t.choice \cap t.scored # {}
      [] OTHER -> TRUE

(* The answer of a handler that comes to its end.  compare stores the      *)
(* session and then reads names it never assigned: the error is caught and *)
(* answered with 502.                                                      *)
Outcome(t) == CASE t.kind = "compare" -> "error"
                [] t.kind = "run" -> "ordered"
                [] OTHER -> "results"

End(t, reply) == [t EXCEPT !.pc = "done", !.reply = reply]

(* The step after this one. *)
Advance(t) ==
    LET steps == Program[t.kind]
        here  == CHOOSE i \in DOMAIN steps : steps[i] = t.pc
        ahead == {i \in DOMAIN steps : i > here /\ Takes(t, steps[i])}
        moved == [t EXCEPT !.tries = 1]
    IN  IF t.pc = "cancelled" THEN [moved EXCEPT !.pc = "done"]
        ELSE IF ahead = {} THEN End(moved, Outcome(t))
        ELSE [moved EXCEPT !.pc = steps[Min(ahead)]]

(* Ends by way of the PATCH to cancelled, if there is a row to cancel. *)
Cancel(t, reply) ==
    IF t.request = None THEN End(t, reply)
    ELSE [t EXCEPT !.pc = "cancelled", !.reply = reply]

(* A service failed: _compare_phase cancels the row before it raises, the  *)
(* two others just raise.                                                  *)
FailLeavingRow(t) == End(t, "error")  \* without the cancellation
Fail(t) == IF Compares(t) THEN Cancel(t, "error") ELSE End(t, "error")

Becomes(c, t) == task' = [task EXCEPT ![c] = t]
BecomesByFault(c, t) ==
    /\ task[c].faults < MaxFaults[c]
    /\ Becomes(c, [t EXCEPT !.faults = @ + 1])

(***************************************************************************)
(* POSTs                                                                   *)
(***************************************************************************)

(* A POST gives up after its third try. *)
Retry(t) == IF t.tries < 3 THEN [t EXCEPT !.tries = @ + 1] ELSE Advance(t)

ScoreOf(t) == [query |-> t.query, item |-> CHOOSE i \in t.choice : TRUE]

Allowed(c, t) ==
    CASE t.pc = "intent" -> IntentAllowed(db, t.request)
      [] t.pc = "scores" -> ScoresAllowed(db, t.query, t.found)
      [] t.pc = "order" -> OrderAllowed(db, ScoreOf(t), c)
      [] OTHER -> TRUE

Carried(c, t) ==
    CASE t.pc = "create" -> CreateRequest(db, c)
      [] t.pc = "intent" -> CreateIntent(db, t.request)
      [] t.pc = "discovery" -> CreateDiscovery(db, t.intent)
      [] t.pc = "scores" -> CreateScores(db, t.query, t.found)
      [] t.pc = "order" -> CreateOrder(db, ScoreOf(t), c)

(* What a POST that breaks off may leave behind. *)
BrokenOff(t) ==
    {db} \cup
    (IF t.pc = "intent" THEN {CreateParsedIntent(db, t.request)}
     ELSE IF t.pc = "scores" THEN {CreateScores(db, t.query, {Ranking[i] : i \in 1 .. n}) : n \in DOMAIN Ranking}
     ELSE {})

(* The identifiers in the answer. *)
Answered(t, new) ==
    CASE t.pc = "create" -> [t EXCEPT !.request = Len(new.requests)]
      [] t.pc = "intent" -> [t EXCEPT !.intent = t.request]
      [] t.pc = "discovery" -> [t EXCEPT !.query = Len(new.queries)]
      [] t.pc = "scores" -> [t EXCEPT !.scored = t.found]
      [] OTHER -> t

PostSucceeds(c) ==
    LET t == task[c] IN
    /\ t.pc \in Posts /\ Allowed(c, t)
    /\ db' = Carried(c, t)
    /\ Becomes(c, Advance(Answered(t, db')))
    /\ UNCHANGED late

(* The unique keys refuse what an earlier try has left. *)
PostRefused(c) ==
    LET t == task[c] IN
    /\ t.pc \in Posts /\ ~Allowed(c, t)
    /\ Becomes(c, Retry(t))
    /\ UNCHANGED <<db, late>>

(* It was carried out and the answer comes too late, or not at all. *)
PostUnanswered(c) ==
    LET t == task[c] IN
    /\ t.pc \in Posts /\ Allowed(c, t)
    /\ db' = Carried(c, t)
    /\ BecomesByFault(c, Retry(t))
    /\ UNCHANGED late

PostFails(c) ==
    LET t == task[c] IN
    /\ t.pc \in Posts /\ Allowed(c, t)
    /\ db' \in BrokenOff(t)
    /\ BecomesByFault(c, Retry(t))
    /\ UNCHANGED late

(***************************************************************************)
(* PATCHes                                                                 *)
(***************************************************************************)

PatchWritten(c) ==
    LET t == task[c] IN
    /\ t.pc \in Patches
    /\ db' = UpdateStatus(db, t.request, t.pc)
    /\ Becomes(c, Advance(t))
    /\ UNCHANGED late

PatchLost(c) ==
    LET t == task[c] IN
    /\ t.pc \in Patches
    /\ BecomesByFault(c, Advance(t))
    /\ UNCHANGED <<db, late>>

PatchDelayed(c) ==
    LET t == task[c] IN
    /\ t.pc \in Patches
    /\ late' = late \cup {[request |-> t.request, status |-> t.pc]}
    /\ BecomesByFault(c, Advance(t))
    /\ UNCHANGED db

LateWrite(w) ==
    /\ db' = UpdateStatus(db, w.request, w.status)
    /\ late' = late \ {w}
    /\ UNCHANGED task

(***************************************************************************)
(* Calls of other services                                                 *)
(***************************************************************************)

At(c, step) == task[c].pc = step /\ UNCHANGED <<db, late>>

(* What is no procurement, and what the parser makes no intent of, is      *)
(* cancelled.                                                              *)
Parse(c) ==
    /\ At(c, "parse")
    /\ \E t \in {Advance(task[c]), Cancel(task[c], "nothing")} : Becomes(c, t)

(* Only _compare_phase cancels the row of a search without offerings. *)
FoundNothing(t) == IF Compares(t) THEN Cancel(t, "nothing") ELSE End(t, "nothing")

(* The seller's matches, or nothing, when no answer came in time. *)
Discover(c) ==
    /\ At(c, "discover")
    /\ \E hits \in {{}} \cup {Matches(q) : q \in Queries} :
           Becomes(c, IF hits = {} THEN FoundNothing(task[c])
                      ELSE Advance([task[c] EXCEPT !.found = hits]))

(* The model recommends an item, the heuristic the cheapest; either may    *)
(* name none.                                                              *)
Recommendations(found) == {{}} \cup {{i} : i \in found}

Score(c) ==
    /\ At(c, "score")
    /\ \E r \in Recommendations(task[c].found) :
           Becomes(c, Advance([task[c] EXCEPT !.recommended = r, !.choice = r]))

(* The memory answers with similar past orders, or with none. *)
Remember(c) ==
    /\ At(c, "memory")
    /\ \E hits \in Histories, r \in task[c].recommended :
           Becomes(c, Advance([task[c] EXCEPT
               !.choice = {Enriched(Ranking, PriceScore, Maker, r, hits)}]))

Select(c) ==
    /\ At(c, "select")
    /\ Becomes(c, Advance(task[c]))

(* The run ends before an order, or a seller confirms one: of the          *)
(* recommended item, of the first where the model named none.              *)
Confirm(c) ==
    LET t == task[c]
        chosen == IF t.recommended = {} THEN {Ranking[1]} ELSE t.recommended
    IN  /\ At(c, "confirm")
        /\ \E u \in {End(t, "results"), Advance([t EXCEPT !.choice = chosen])} : Becomes(c, u)

(* Another service cannot be reached, or answers with an error. *)
CallFails(c) ==
    /\ task[c].pc \in {"parse", "discover", "score", "select"}
    /\ Becomes(c, Fail(task[c]))
    /\ UNCHANGED <<db, late>>

(* The process of the orchestrator stops under the handler. *)
Dies(c) ==
    /\ ~Ended(task[c])
    /\ BecomesByFault(c, [task[c] EXCEPT !.pc = "dead"])
    /\ UNCHANGED <<db, late>>

-----------------------------------------------------------------------------
Runs(c) == \/ PostSucceeds(c) \/ PostRefused(c) \/ PostUnanswered(c) \/ PostFails(c)
           \/ PatchWritten(c) \/ PatchLost(c) \/ PatchDelayed(c)
           \/ Parse(c) \/ Discover(c) \/ Score(c) \/ Remember(c) \/ Select(c)
           \/ Confirm(c) \/ CallFails(c)

Next == \/ \E c \in Clients : Runs(c) \/ Dies(c)
        \/ \E w \in late : LateWrite(w)

Spec == Init /\ [][Next]_vars

(***************************************************************************)
(* Properties                                                              *)
(***************************************************************************)

Db == [requests : Seq([by : Clients, status : Patches \cup {"draft"}]), parsed : SUBSET Nat,
       beckn : SUBSET Nat, queries : Seq(Nat), scores : SUBSET [query : Nat, item : Items],
       orders : Seq([score : [query : Nat, item : Picks], ref : Clients])]

TypeOK ==
    /\ db \in Db
    /\ task \in [Clients -> Task]
    /\ late \subseteq [request : Nat, status : Patches]
    /\ \A c \in Clients : task[c].faults <= MaxFaults[c]

(* "So orphan rows never linger in draft/discovering states" (_compare_phase): *)
(* every row that a handler of /compare or /run leaves in an early state, on *)
(* whichever way it ended, is there by a fault of its own: an answer or a   *)
(* PATCH lost, delayed, or cut off with the process.                        *)
Early(c) == {r \in DOMAIN db.requests : /\ db.requests[r].by = c
                                        /\ db.requests[r].status \in {"draft", "parsing", "discovering"}}

OrphansAreExplained ==
    \A c \in Clients :
        Compares(task[c]) /\ Ended(task[c]) => Cardinality(Early(c)) <= task[c].faults

(* The record of an order hangs under the request of the run that placed   *)
(* it and names the item it ordered; a confirm is recorded once, however   *)
(* often the POSTs before it were repeated; and it is recorded, if no fault *)
(* met the run.                                                            *)
RecordsFollowRuns ==
    /\ \A k \in DOMAIN db.orders :
         LET o == db.orders[k] IN
         /\ db.requests[RequestOf(db, o)].by = o.ref
         /\ o.score.item \in task[o.ref].choice
         /\ \A j \in DOMAIN db.orders : db.orders[j].ref = o.ref => j = k
    /\ \A c \in Clients :
         task[c].reply = "ordered" /\ task[c].faults = 0 =>
             \E k \in DOMAIN db.orders : db.orders[k].ref = c

(* "discover + score, store session, return offerings + scoring" (compare):*)
(* once offerings were scored, they are the answer.                        *)
CompareAnswers ==
    \A c \in Clients :
        LET t == task[c] IN
        t.kind = "compare" /\ t.pc = "done" /\ t.recommended # {} => t.reply = "results"

-----------------------------------------------------------------------------
(* What the properties of the records rest on. *)

Steps(kind) == {Program[kind][i] : i \in DOMAIN Program[kind]}

(* A handler is at a step of its program that it takes, or on its way out. *)
AtItsStep(c) ==
    LET t == task[c] IN
    \/ t.pc \in Steps(t.kind) /\ Takes(t, t.pc)
    \/ t.pc = "cancelled" /\ t.request # None
    \/ Ended(t)

(* The identifiers a handler was given are those of rows it had inserted.  *)
OwnsItsRows(c) ==
    LET t == task[c] IN
    /\ t.pc = "create" => t.request = None
    /\ t.request # None => t.request \in DOMAIN db.requests /\ db.requests[t.request].by = c
    /\ t.intent # None => t.intent = t.request
    /\ t.query # None => /\ t.request # None /\ t.query \in DOMAIN db.queries
                         /\ db.queries[t.query] = t.request
    /\ t.scored # {} => t.query # None
    /\ t.found # {} => t.found = Items

(* No row refers to one that is not there; a late PATCH is of the request  *)
(* that its handler goes by.                                               *)
Chained ==
    /\ db.parsed \subseteq DOMAIN db.requests
    /\ \A s \in db.scores : s.query \in DOMAIN db.queries
    /\ \A w \in late : /\ w.request \in DOMAIN db.requests
                       /\ task[db.requests[w.request].by].request = w.request

(* An order is one of the run that its reference names, and that has come  *)
(* to its end.                                                             *)
OrdersAreOfRuns ==
    \A k \in DOMAIN db.orders :
        LET o == db.orders[k] IN
        /\ o.score.query \in DOMAIN db.queries
        /\ RequestOf(db, o) \in DOMAIN db.requests
        /\ db.requests[RequestOf(db, o)].by = o.ref
        /\ task[o.ref].kind = "run" /\ task[o.ref].pc \in {"order", "done", "dead"}
        /\ o.score.item \in task[o.ref].choice
        /\ \A j \in DOMAIN db.orders : db.orders[j].ref = o.ref => j = k

(* A run that met no fault has all that its steps so far should give it,   *)
(* and what it is about to insert is not there yet.                        *)
Unharmed(c) ==
    LET t == task[c] IN
    /\ t.pc # "create" => t.request # None
    /\ t.pc \notin {"create", "intent"} => t.intent # None
    /\ t.pc \notin {"create", "intent", "discovering", "discover"} => t.found # {}
    /\ t.pc \notin {"create", "intent", "discovering", "discover", "discovery"} => t.query # None
    /\ t.pc \in {"scores", "negotiating", "confirm", "confirmed", "order"} => t.recommended \subseteq t.found
    /\ t.pc \in {"negotiating", "confirm", "confirmed", "order"} => t.scored = t.found
    /\ t.pc \in {"confirmed", "order"} => t.choice # {} /\ t.choice \subseteq t.found
    /\ t.pc = "intent" => t.request \notin db.parsed
    /\ t.pc \in {"scoring", "score", "scores"} => \A s \in db.scores : s.query # t.query

RunsUnharmed(c) ==
    task[c].kind = "run" /\ task[c].faults = 0 =>
        /\ task[c].pc \in Steps("run") => Unharmed(c)
        /\ task[c].reply = "ordered" => \E k \in DOMAIN db.orders : db.orders[k].ref = c

OnlyRunsOrder(c) == task[c].reply = "ordered" => task[c].kind = "run" /\ Ended(task[c])

RecordsInv ==
    /\ TypeOK
    /\ Chained
    /\ OrdersAreOfRuns
    /\ \A c \in Clients : AtItsStep(c) /\ OwnsItsRows(c) /\ RunsUnharmed(c) /\ OnlyRunsOrder(c)

(* The rows a handler inserted without learning of it; and its own row, if *)
(* it is, or a late PATCH can make it, an early one that no step to come   *)
(* is sure to change.                                                      *)
Strays(c) == Early(c) \ {task[c].request}

BackInTime(c) ==
    \E w \in late : w.request = task[c].request /\ w.status \in {"draft", "parsing", "discovering"}

MayStrand(c) ==
    \/ BackInTime(c)
    \/ /\ task[c].request \in Early(c)
       /\ task[c].pc \notin {"create", "intent", "discovering", "discover", "discovery", "scoring", "cancelled"}

FaultsCover ==
    \A c \in Clients :
        Compares(task[c]) =>
            Cardinality(Strays(c)) + (IF MayStrand(c) THEN 1 ELSE 0) <= task[c].faults
=============================================================================

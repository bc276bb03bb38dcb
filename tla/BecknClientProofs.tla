--------------------------- MODULE BecknClientProofs ---------------------------
(***************************************************************************)
(* Theorems about the BAP client, for any calls, transactions, probes,     *)
(* callbacks and restarts.                                                 *)
(***************************************************************************)
EXTENDS BecknClient, TLAPS

(* A call that has not begun has left no trace. *)
IdleIsNew ==
  \A c \in Calls : IF call[c].stage = "idle" THEN call[c] = NoCall /\ heard[c] = {}
                   ELSE call[c].key \in Key

(* A queue in the dictionary is under the key of the call that registered it. *)
QueuesFit == QueuesAreOwned /\ \A k \in Key : queues[k] # None => Awaits(k)

(* A collector collects its own key, though perhaps from another's queue.  *)
CollectorsFit ==
  \A c \in Calls :
    call[c].stage = "collecting" =>
      /\ Awaits(call[c].key)
      /\ call[c].queue \in Calls
      /\ call[call[c].queue].stage # "idle"
      /\ call[call[c].queue].key = call[c].key

ItemsFit ==
  \A q \in Calls : \A cb \in items[q] : call[q].stage # "idle" /\ cb.key = call[q].key

CallInv ==
  /\ TypeOK
  /\ IdleIsNew
  /\ QueuesFit
  /\ CollectorsFit
  /\ ItemsFit

-----------------------------------------------------------------------------
LEMMA NewCall ==
  /\ NoCall \in Call
  /\ \A k \in Key : [NoCall EXCEPT !.stage = "posting", !.key = k] \in Call
<1>1. NoCall \in Call
  BY DEF NoCall, Call, Stages, Told
<1>2. ASSUME NEW c \in Call, NEW k \in Key PROVE [c EXCEPT !.stage = "posting", !.key = k] \in Call
  BY DEF Call, Stages
<1> QED
  BY <1>1, <1>2

LEMMA CallInvInit == Init => CallInv
<1> SUFFICES ASSUME Init PROVE CallInv
  OBVIOUS
<1> USE DEF Init, CollectorInit
<1>1. NoCall \in Call
  BY NewCall
<1>2. TypeOK
  BY <1>1, MaxRestartsAssumption DEF TypeOK, CollectorTypeOK, ProbeStages
<1>3. IdleIsNew
  BY DEF IdleIsNew, NoCall
<1>4. QueuesFit /\ CollectorsFit /\ ItemsFit
  BY DEF QueuesFit, QueuesAreOwned, CollectorsFit, ItemsFit, NoCall
<1> QED
  BY <1>2, <1>3, <1>4 DEF CallInv

(* The call of a probe has a key like any other. *)
LEMMA ProbeKeys == \A p \in Probes : [txn |-> p, action |-> "discover"] \in Key
BY ProbesAssumption DEF Key

LEMMA BeginsKeepsCallInv ==
  ASSUME CallInv, NEW c \in Calls, NEW k \in Key, Begins(c, k), UNCHANGED probeVars
  PROVE  CallInv'
<1> DEFINE new == [NoCall EXCEPT !.stage = "posting", !.key = k]
<1> USE NoneAssumption DEF CallInv, Begins
<1>idle. call[c] = NoCall /\ heard[c] = {}
  BY DEF IdleIsNew
<1>new. /\ call' = [call EXCEPT ![c] = new] /\ new \in Call
        /\ new.stage = "posting" /\ new.key = k
  <2>1. new \in Call
    BY NewCall
  <2>2. new.stage = "posting" /\ new.key = k
    BY DEF NoCall
  <2> QED
    BY <2>1, <2>2
<1> HIDE DEF new
<1>call. call'[c] = new /\ \A d \in Calls \ {c} : call'[d] = call[d]
  BY <1>new DEF TypeOK
<1>queue. \/ Awaits(k) /\ queues' = [queues EXCEPT ![k] = c] /\ items' = [items EXCEPT ![c] = {}]
          \/ UNCHANGED <<queues, items>>
  BY DEF Register, RegistersFirst, collectorVars
<1>items. \A q \in Calls : items'[q] \subseteq items[q]
  BY <1>queue DEF TypeOK, CollectorTypeOK
<1>1. TypeOK'
  <2>1. CollectorTypeOK'
    BY <1>queue DEF TypeOK, CollectorTypeOK
  <2>2. call' \in [Calls -> Call] /\ alone' \in [Calls -> BOOLEAN]
    BY <1>new DEF TypeOK
  <2> QED
    BY <2>1, <2>2 DEF TypeOK, sellerVars, probeVars
<1>2. IdleIsNew'
  BY <1>call DEF IdleIsNew
<1>3. QueuesFit'
  <2>1. \A j \in Key : queues'[j] = queues[j] \/ (j = k /\ queues'[j] = c /\ Awaits(k))
    BY <1>queue DEF TypeOK, CollectorTypeOK
  <2>2. \A j \in Key : queues[j] # None => queues[j] \in Calls \ {c}
    BY <1>idle DEF QueuesFit, QueuesAreOwned, On, NoCall, TypeOK, CollectorTypeOK
  <2>3. ASSUME NEW j \in Key, queues'[j] # None
        PROVE  /\ call'[queues'[j]].key = j
               /\ call'[queues'[j]].stage \in {"posting", "collecting", "failed"}
               /\ Awaits(j)
    <3>1. CASE queues'[j] = queues[j]
      BY <2>2, <2>3, <3>1, <1>call DEF QueuesFit, QueuesAreOwned, On
    <3>2. CASE j = k /\ queues'[j] = c /\ Awaits(k)
      BY <3>2, <1>call, <1>new
    <3> QED
      BY <2>1, <3>1, <3>2
  <2> QED
    BY <2>3 DEF QueuesFit, QueuesAreOwned, On
<1>4. CollectorsFit'
  <2>1. \A d \in Calls : call[d].stage = "collecting" => d # c /\ call[d].queue # c
    BY <1>idle DEF CollectorsFit, NoCall
  <2> QED
    BY <2>1, <1>call DEF CollectorsFit
<1>5. ItemsFit'
  <2>1. items[c] = {}
    BY <1>idle DEF ItemsFit, NoCall, TypeOK, CollectorTypeOK
  <2> QED
    BY <2>1, <1>call, <1>items DEF ItemsFit
<1> QED
  BY <1>1, <1>2, <1>3, <1>4, <1>5

(* A call goes on or ends, under its key.  Queues may have been cleaned up.*)
LEMMA CallMoves ==
  ASSUME CallInv, NEW c \in Calls, call[c].stage # "idle",
         NEW row \in Call, call' = [call EXCEPT ![c] = row],
         row.key = call[c].key, row.stage # "idle",
         row.stage = "collecting" =>
           /\ Awaits(row.key)
           /\ row.queue \in Calls
           /\ call[row.queue].stage # "idle"
           /\ call[row.queue].key = row.key,
         items' \in [Calls -> SUBSET Callback],
         \A q \in Calls : items'[q] \subseteq items[q],
         \/ queues' = queues /\ row.stage # "done"
         \/ queues' = [queues EXCEPT ![row.key] = None]
         \/ queues' = queues /\ ~Awaits(row.key),
         UNCHANGED <<heard, alone, sellerVars, publishing, probeVars, restarts>>
  PROVE  CallInv'
<1> USE NoneAssumption DEF CallInv
<1>call. call'[c] = row /\ \A d \in Calls \ {c} : call'[d] = call[d]
  BY DEF TypeOK
<1>key. row.key \in Key /\ \A d \in Calls : call'[d].key = call[d].key
  BY <1>call DEF IdleIsNew
<1>queues. /\ queues' \in [Key -> Calls \cup {None}]
           /\ \A k \in Key : queues'[k] = queues[k] \/ queues'[k] = None
           /\ row.stage = "done" /\ Awaits(row.key) => queues'[row.key] = None
  BY <1>key DEF TypeOK, CollectorTypeOK
<1>1. TypeOK'
  BY <1>queues DEF TypeOK, CollectorTypeOK, sellerVars, probeVars
<1>2. IdleIsNew'
  BY <1>call, <1>key DEF IdleIsNew
<1>3. QueuesFit'
  <2> SUFFICES ASSUME NEW k \in Key, queues'[k] # None
               PROVE  /\ call'[queues'[k]].key = k
                      /\ call'[queues'[k]].stage \in {"posting", "collecting", "failed"}
                      /\ Awaits(k)
    BY DEF QueuesFit, QueuesAreOwned, On
  <2> DEFINE q == queues[k]
  <2>1. /\ queues'[k] = q /\ q \in Calls /\ call[q].key = k /\ Awaits(k)
        /\ call[q].stage \in {"posting", "collecting", "failed"}
    BY <1>queues DEF QueuesFit, QueuesAreOwned, On, TypeOK, CollectorTypeOK
  <2>2. CASE q = c
    <3>1. row.stage # "done"
      BY <2>1, <2>2, <1>queues
    <3>2. row.stage \in {"posting", "collecting", "failed"}
      BY <3>1 DEF Call, Stages
    <3> QED
      BY <2>1, <2>2, <3>2, <1>call
  <2>3. CASE q # c
    BY <2>1, <2>3, <1>call
  <2> QED
    BY <2>2, <2>3
<1>4. CollectorsFit'
  BY <1>call, <1>key DEF CollectorsFit
<1>5. ItemsFit'
  BY <1>call, <1>key DEF ItemsFit
<1> QED
  BY <1>1, <1>2, <1>3, <1>4, <1>5

(* A callback comes in: it goes into the queue of its key, if there is one.*)
LEMMA HeardKeepsCallInv ==
  ASSUME CallInv, NEW cb \in said, HandleCallback(cb), Hear(cb),
         wire' \subseteq wire, publishing' \subseteq publishing,
         UNCHANGED <<call, alone, said, probeVars, restarts>>
  PROVE  CallInv'
<1> USE NoneAssumption DEF CallInv
<1>cb. cb \in Callback /\ cb.key \in Key
  BY DEF TypeOK, Callback
<1>items. \/ queues[cb.key] = None /\ items' = items
          \/ queues[cb.key] # None /\ items' = [items EXCEPT ![queues[cb.key]] = @ \cup {cb}]
  BY DEF HandleCallback, QueueOf
<1>1. TypeOK'
  <2>1. items' \in [Calls -> SUBSET Callback] /\ queues' = queues
    BY <1>cb, <1>items DEF TypeOK, CollectorTypeOK, HandleCallback
  <2>2. heard' \in [Calls -> SUBSET Callback]
    BY <1>cb DEF TypeOK, Hear
  <2> QED
    BY <2>1, <2>2 DEF TypeOK, CollectorTypeOK, probeVars
<1>2. IdleIsNew'
  BY DEF IdleIsNew, Hear, OnKey, On
<1>3. QueuesFit' /\ CollectorsFit'
  BY DEF QueuesFit, QueuesAreOwned, On, CollectorsFit, HandleCallback
<1>4. ItemsFit'
  <2>1. queues[cb.key] # None => /\ queues[cb.key] \in Calls
                                 /\ call[queues[cb.key]].key = cb.key
                                 /\ call[queues[cb.key]].stage # "idle"
    BY <1>cb DEF QueuesFit, QueuesAreOwned, On, TypeOK, CollectorTypeOK
  <2> QED
    BY <2>1, <1>items DEF ItemsFit, TypeOK, CollectorTypeOK
<1> QED
  BY <1>1, <1>2, <1>3, <1>4

LEMMA RestartKeepsCallInv ==
  ASSUME CallInv, Restart PROVE CallInv'
<1>count. restarts' \in 0..MaxRestarts
  <2>1. restarts' = restarts + 1 /\ restarts < MaxRestarts /\ restarts \in 0..MaxRestarts
    BY DEF Restart, CallInv, TypeOK
  <2> QED
    BY <2>1, MaxRestartsAssumption
<1> USE DEF CallInv, Restart
<1>call. \A c \in Calls : /\ call'[c] \in Call /\ call'[c].key = call[c].key
                          /\ \/ call'[c] = call[c] /\ ~On(c)
                             \/ On(c) /\ call'[c].stage = "failed"
  <2> SUFFICES ASSUME NEW c \in Calls
               PROVE  /\ call'[c] \in Call /\ call'[c].key = call[c].key
                      /\ \/ call'[c] = call[c] /\ ~On(c)
                         \/ On(c) /\ call'[c].stage = "failed"
    OBVIOUS
  <2>1. call[c] \in Call
    BY DEF TypeOK
  <2>2. CASE On(c)
    <3>1. call'[c] = [call[c] EXCEPT !.stage = "failed", !.told = "error"]
      BY <2>2
    <3> QED
      BY <2>1, <2>2, <3>1 DEF Call, Stages, Told
  <2>3. CASE ~On(c)
    BY <2>1, <2>3
  <2> QED
    BY <2>2, <2>3
<1>1. TypeOK'
  <2>1. call' \in [Calls -> Call]
    BY <1>call
  <2> QED
    BY <2>1, <1>count DEF TypeOK, CollectorTypeOK, sellerVars, probeVars
<1>2. IdleIsNew'
  BY <1>call DEF IdleIsNew, On
<1>3. QueuesFit' /\ ItemsFit'
  BY DEF QueuesFit, QueuesAreOwned, ItemsFit
<1>4. CollectorsFit'
  BY <1>call DEF CollectorsFit, On
<1> QED
  BY <1>1, <1>2, <1>3, <1>4

(* What sellers send and what probes do is nothing to calls and queues. *)
LEMMA OutsideKeepsCallInv ==
  ASSUME CallInv, UNCHANGED <<collectorVars, clientVars, restarts>>, TypeOK'
  PROVE  CallInv'
BY DEF CallInv, IdleIsNew, QueuesFit, QueuesAreOwned, On, CollectorsFit, ItemsFit, collectorVars, clientVars

LEMMA SellerKeepsCallInv ==
  ASSUME CallInv, NEW c \in Calls, NEW n \in Copies, Answers(c, n) PROVE CallInv'
<1>1. CallbackOf(c, n) \in Callback
  BY DEF CallbackOf, Callback, CallInv, IdleIsNew, Answers
<1>2. TypeOK'
  BY <1>1 DEF Answers, CallInv, TypeOK, CollectorTypeOK, collectorVars, clientVars, probeVars
<1> QED
  BY <1>2, OutsideKeepsCallInv DEF Answers

LEMMA PublishKeepsCallInv ==
  ASSUME CallInv, NEW cb \in said, OnDiscover(cb) PROVE CallInv'
<1>1. inbox' \in [Probes -> SUBSET Callback]
  BY DEF OnDiscover, CallInv, TypeOK
<1>2. TypeOK'
  BY <1>1 DEF OnDiscover, CallInv, TypeOK, CollectorTypeOK, collectorVars, clientVars
<1> QED
  BY <1>2, OutsideKeepsCallInv DEF OnDiscover

LEMMA ProbeKeepsCallInv ==
  ASSUME CallInv, NEW p \in Probes, Subscribe(p) \/ ProbeHears(p) \/ ProbeTimesOut(p) PROVE CallInv'
<1>1. probe' \in [Probes -> ProbeStages]
  BY DEF Subscribe, ProbeHears, ProbeTimesOut, CallInv, TypeOK, ProbeStages
<1>2. UNCHANGED <<collectorVars, clientVars, sellerVars, publishing, inbox, published, restarts>>
  BY DEF Subscribe, ProbeHears, ProbeTimesOut
<1>3. TypeOK'
  BY <1>1, <1>2 DEF CallInv, TypeOK, CollectorTypeOK, collectorVars, clientVars, sellerVars
<1> QED
  BY <1>2, <1>3, OutsideKeepsCallInv

-----------------------------------------------------------------------------
(* The actions of a call, as CallMoves has them. *)

LEMMA ParsedIsTold == \A k \in Key : \A got : Awaits(k) => Parsed(k, got) \in Told
BY ActionsAssumption DEF Parsed, Silence, Told, Awaits, Key

LEMMA SelectedKeepsCallInv ==
  ASSUME CallInv, NEW c \in Calls, Selected(c) PROVE CallInv'
<1> DEFINE row == [call[c] EXCEPT !.stage = "done", !.told = "ack"]
<1>1. call[c] \in Call /\ items \in [Calls -> SUBSET Callback]
  BY DEF CallInv, TypeOK, CollectorTypeOK
<1>2. call' = [call EXCEPT ![c] = row]
  BY DEF Selected, Ends
<1>3. row \in Call /\ row.key = call[c].key /\ row.stage = "done"
  BY <1>1 DEF Call, Stages, Told
<1> HIDE DEF row
<1> QED
  BY <1>1, <1>2, <1>3, CallMoves DEF Selected, collectorVars

LEMMA PostReturnsKeepsCallInv ==
  ASSUME CallInv, NEW c \in Calls, PostReturns(c) PROVE CallInv'
<1> DEFINE k == call[c].key
<1>1. /\ call[c] \in Call /\ items \in [Calls -> SUBSET Callback]
      /\ k \in Key /\ call[c].stage = "posting" /\ Awaits(k)
  BY DEF CallInv, TypeOK, CollectorTypeOK, IdleIsNew, PostReturns
<1>2. CASE queues[k] # None
  <2> DEFINE row == [call[c] EXCEPT !.stage = "collecting", !.queue = queues[k]]
  <2>1. /\ queues[k] \in Calls
        /\ call[queues[k]].key = k /\ call[queues[k]].stage # "idle"
    BY <1>1, <1>2 DEF CallInv, TypeOK, CollectorTypeOK, QueuesFit, QueuesAreOwned, On
  <2>2. call' = [call EXCEPT ![c] = row] /\ UNCHANGED collectorVars
    BY <1>2 DEF PostReturns
  <2>3. row \in Call /\ row.key = k /\ row.stage = "collecting" /\ row.queue = queues[k]
    BY <1>1, <2>1 DEF Call, Stages
  <2> HIDE DEF row
  <2> QED
    BY <1>1, <2>1, <2>2, <2>3, CallMoves DEF PostReturns, collectorVars
<1>3. CASE queues[k] = None
  <2> DEFINE told == Parsed(k, {})
             row == [call[c] EXCEPT !.stage = "done", !.told = told]
  <2>1. call' = [call EXCEPT ![c] = row] /\ Cleanup(k)
    BY <1>3 DEF PostReturns, Ends
  <2>2. told \in Told
    BY <1>1, ParsedIsTold
  <2> HIDE DEF told
  <2>3. row \in Call /\ row.key = k /\ row.stage = "done"
    BY <1>1, <2>2 DEF Call, Stages
  <2> HIDE DEF row
  <2> QED
    BY <1>1, <2>1, <2>3, CallMoves DEF PostReturns, Cleanup
<1> QED
  BY <1>2, <1>3

LEMMA PostFailsKeepsCallInv ==
  ASSUME CallInv, NEW c \in Calls, PostFails(c) PROVE CallInv'
<1> DEFINE told == IF call[c].key.action = "status" THEN "created" ELSE "error"
           row == [call[c] EXCEPT !.stage = "failed", !.told = told]
<1>1. call[c] \in Call /\ items \in [Calls -> SUBSET Callback]
  BY DEF CallInv, TypeOK, CollectorTypeOK
<1>2. call' = [call EXCEPT ![c] = row]
  BY DEF PostFails, Ends
<1>3. told \in Told
  BY DEF Told
<1> HIDE DEF told
<1>4. row \in Call /\ row.key = call[c].key /\ row.stage = "failed"
  BY <1>1, <1>3 DEF Call, Stages
<1> HIDE DEF row
<1> QED
  BY <1>1, <1>2, <1>4, CallMoves DEF PostFails, collectorVars

LEMMA TakeKeepsCallInv ==
  ASSUME CallInv, NEW c \in Calls, Take(c) PROVE CallInv'
<1> DEFINE q == call[c].queue
<1>1. /\ call[c] \in Call /\ items \in [Calls -> SUBSET Callback] /\ call[c].stage = "collecting"
      /\ q \in Calls /\ Awaits(call[c].key) /\ call[q].stage # "idle" /\ call[q].key = call[c].key
  BY DEF CallInv, TypeOK, CollectorTypeOK, CollectorsFit, Take
<1>2. PICK cb \in items[q] : Get(q, cb) /\ call' = [call EXCEPT ![c].got = @ \cup {cb}]
  BY DEF Take
<1> DEFINE row == [call[c] EXCEPT !.got = @ \cup {cb}]
<1>3. call' = [call EXCEPT ![c] = row] /\ cb \in Callback
  BY <1>1, <1>2
<1>4. row \in Call /\ row.key = call[c].key /\ row.stage = "collecting" /\ row.queue = q
  BY <1>1, <1>3 DEF Call
<1>5. items' \in [Calls -> SUBSET Callback] /\ \A r \in Calls : items'[r] \subseteq items[r]
  BY <1>1, <1>2 DEF Get
<1>6. UNCHANGED <<queues, heard, alone, sellerVars, publishing, probeVars, restarts>>
  BY <1>2 DEF Take, Get
<1> HIDE DEF row
<1> QED
  BY <1>1, <1>3, <1>4, <1>5, <1>6, CallMoves

LEMMA QuietKeepsCallInv ==
  ASSUME CallInv, NEW c \in Calls, Quiet(c) PROVE CallInv'
<1> DEFINE k == call[c].key
           told == Parsed(k, call[c].got)
           row == [call[c] EXCEPT !.stage = "done", !.told = told]
<1>1. /\ call[c] \in Call /\ items \in [Calls -> SUBSET Callback]
      /\ k \in Key /\ call[c].stage = "collecting" /\ Awaits(k)
  BY DEF CallInv, TypeOK, CollectorTypeOK, IdleIsNew, CollectorsFit, Quiet
<1>2. call' = [call EXCEPT ![c] = row] /\ Cleanup(k)
  BY DEF Quiet, Ends
<1>3. told \in Told
  BY <1>1, ParsedIsTold
<1> HIDE DEF told
<1>4. row \in Call /\ row.key = k /\ row.stage = "done"
  BY <1>1, <1>3 DEF Call, Stages
<1> HIDE DEF row
<1> QED
  BY <1>1, <1>2, <1>4, CallMoves DEF Quiet, Cleanup

LEMMA CallInvStep == CallInv /\ [Next]_vars => CallInv'
<1> SUFFICES ASSUME CallInv, [Next]_vars PROVE CallInv'
  OBVIOUS
<1>1. ASSUME NEW c \in Calls, NEW k \in Key, Request(c, k) PROVE CallInv'
  BY <1>1, BeginsKeepsCallInv DEF Request
<1>2. ASSUME NEW c \in Calls, NEW p \in Probes, FireHttp(p, c) PROVE CallInv'
  BY <1>2, ProbeKeys, BeginsKeepsCallInv DEF FireHttp
<1>3. ASSUME NEW c \in Calls, Selected(c) \/ PostReturns(c) \/ PostFails(c) \/ Take(c) \/ Quiet(c)
      PROVE  CallInv'
  BY <1>3, SelectedKeepsCallInv, PostReturnsKeepsCallInv, PostFailsKeepsCallInv, TakeKeepsCallInv,
     QuietKeepsCallInv
<1>4. ASSUME NEW c \in Calls, NEW n \in Copies, Answers(c, n) PROVE CallInv'
  BY <1>4, SellerKeepsCallInv
<1>5. ASSUME NEW cb \in said, \/ BapReceiver(cb) \/ OnDiscoverCollects(cb)
                              \/ \E c \in Calls : Repeat(c, cb)
      PROVE  CallInv'
  BY <1>5, HeardKeepsCallInv DEF BapReceiver, OnDiscoverCollects, Repeat, sellerVars
<1>6. ASSUME NEW cb \in said, OnDiscover(cb) PROVE CallInv'
  BY <1>6, PublishKeepsCallInv
<1>7. ASSUME NEW p \in Probes, Subscribe(p) \/ ProbeHears(p) \/ ProbeTimesOut(p) PROVE CallInv'
  BY <1>7, ProbeKeepsCallInv
<1>8. CASE Restart
  BY <1>8, RestartKeepsCallInv
<1>9. CASE UNCHANGED vars
  <2>1. TypeOK'
    BY <1>9 DEF vars, collectorVars, clientVars, sellerVars, probeVars, CallInv, TypeOK, CollectorTypeOK
  <2> QED
    BY <1>9, <2>1, OutsideKeepsCallInv DEF vars
<1> QED
  BY <1>1, <1>2, <1>3, <1>4, <1>5, <1>6, <1>7, <1>8, <1>9 DEF Next

LEMMA CallInvariant == Spec => []CallInv
BY CallInvInit, CallInvStep, PTL DEF Spec

(* Queues leak only with a failed POST, whatever calls overlap under a key *)
(* and whichever cleanup removes another's queue.                          *)
THEOREM QueuesHaveOwners == Spec => []QueuesAreOwned
<1>1. CallInv => QueuesAreOwned
  BY DEF CallInv, QueuesFit
<1> QED
  BY <1>1, CallInvariant, PTL

-----------------------------------------------------------------------------
(* A call alone under its key. *)

LoneIsOnly ==
  \A c, d \in Calls : alone[c] /\ On(c) /\ On(d) /\ call[d].key = call[c].key => c = d

(* It has its own queue, and what came in for it is in there or taken.     *)
LoneHasItsQueue ==
  \A c \in Calls :
    alone[c] /\ On(c) /\ Awaits(call[c].key) =>
      /\ queues[call[c].key] = c
      /\ call[c].stage = "collecting" => call[c].queue = c
      /\ heard[c] = call[c].got \cup items[c]

LoneInv == LoneIsOnly /\ LoneHasItsQueue /\ LoneCallMissesNothing

(* A call that moves on is no concern of those alone under other keys.     *)
KeepsToItself(c, row) ==
  /\ \A k \in Key : k # row.key => queues'[k] = queues[k]
  /\ queues'[row.key] = queues[row.key] \/ ~ (row.stage \in {"posting", "collecting"})
  /\ \A q \in Calls :
       items'[q] # items[q] => call[c].stage = "collecting" /\ q = call[c].queue

(* And one that is alone itself keeps, or ends with, what came in for it.  *)
KeepsItsOwn(c, row) ==
  alone[c] /\ Awaits(row.key) =>
    /\ row.stage \in {"posting", "collecting"} => heard[c] = row.got \cup items'[c]
    /\ row.stage = "collecting" => row.queue = c
    /\ row.stage = "done" => row.got = heard[c]

LEMMA LoneMoves ==
  ASSUME CallInv, LoneInv, NEW c \in Calls, On(c),
         NEW row \in Call, call' = [call EXCEPT ![c] = row], row.key = call[c].key,
         KeepsToItself(c, row), KeepsItsOwn(c, row), UNCHANGED <<heard, alone>>
  PROVE  LoneInv'
<1> USE DEF CallInv, LoneInv, KeepsToItself, KeepsItsOwn
<1>call. call'[c] = row /\ \A d \in Calls \ {c} : call'[d] = call[d]
  BY DEF TypeOK
<1>key. row.key \in Key /\ \A d \in Calls : call'[d].key = call[d].key
  BY <1>call DEF IdleIsNew, On
<1>1. LoneIsOnly'
  BY <1>call, <1>key DEF LoneIsOnly, On
<1>2. LoneHasItsQueue'
  <2> SUFFICES ASSUME NEW d \in Calls, alone[d], On(d)', Awaits(call[d].key)
               PROVE  /\ queues'[call[d].key] = d
                      /\ call'[d].stage = "collecting" => call'[d].queue = d
                      /\ heard[d] = call'[d].got \cup items'[d]
    BY <1>key DEF LoneHasItsQueue
  <2>1. On(d)
    BY <1>call DEF On
  <2>2. call[d].key \in Key /\ queues[call[d].key] = d
    BY <2>1 DEF LoneHasItsQueue, IdleIsNew, On
  <2>3. CASE d = c
    BY <2>1, <2>2, <2>3, <1>call DEF On
  <2>4. CASE d # c
    <3>1. call[d].key # call[c].key
      BY <2>1, <2>4 DEF LoneIsOnly
    <3>2. items'[d] = items[d]
      BY <3>1 DEF CollectorsFit
    <3> QED
      BY <2>1, <2>2, <2>4, <3>1, <3>2, <1>call DEF LoneHasItsQueue
  <2> QED
    BY <2>3, <2>4
<1>3. LoneCallMissesNothing'
  BY <1>call, <1>key DEF LoneCallMissesNothing
<1> QED
  BY <1>1, <1>2, <1>3

LEMMA MovesKeepLoneInv ==
  ASSUME CallInv, LoneInv, NEW c \in Calls,
         Selected(c) \/ PostReturns(c) \/ PostFails(c) \/ Take(c) \/ Quiet(c)
  PROVE  LoneInv'
<1> DEFINE k == call[c].key
<1>type. /\ call[c] \in Call /\ k \in Key /\ On(c)
         /\ queues \in [Key -> Calls \cup {None}] /\ items \in [Calls -> SUBSET Callback]
  BY DEF CallInv, TypeOK, CollectorTypeOK, IdleIsNew, On, Selected, PostReturns, PostFails, Take, Quiet
<1>own. alone[c] /\ Awaits(k) =>
          /\ queues[k] = c /\ heard[c] = call[c].got \cup items[c]
          /\ call[c].stage = "collecting" => call[c].queue = c
  BY <1>type DEF LoneInv, LoneHasItsQueue
<1>1. CASE Selected(c)
  <2> DEFINE row == [call[c] EXCEPT !.stage = "done", !.told = "ack"]
  <2>1. call' = [call EXCEPT ![c] = row] /\ ~Awaits(k) /\ UNCHANGED <<queues, items, heard, alone>>
    BY <1>1 DEF Selected, Ends, collectorVars
  <2>2. row \in Call /\ row.key = k /\ row.stage = "done"
    BY <1>type DEF Call, Stages, Told
  <2> HIDE DEF row
  <2>rest. KeepsToItself(c, row)
    BY <1>type, <2>1, <2>2 DEF KeepsToItself
  <2>mine. KeepsItsOwn(c, row)
    BY <1>type, <2>1, <2>2 DEF KeepsItsOwn
  <2> QED
    BY <1>type, <2>1, <2>2, <2>rest, <2>mine, LoneMoves
<1>2. CASE PostReturns(c) /\ queues[k] # None
  <2> DEFINE row == [call[c] EXCEPT !.stage = "collecting", !.queue = queues[k]]
  <2>1. call' = [call EXCEPT ![c] = row] /\ UNCHANGED <<queues, items, heard, alone>>
    BY <1>2 DEF PostReturns, collectorVars
  <2>2. /\ row \in Call /\ row.key = k /\ row.stage = "collecting"
        /\ row.got = call[c].got /\ row.queue = queues[k]
    BY <1>type, <1>2 DEF Call, Stages
  <2> HIDE DEF row
  <2>rest. KeepsToItself(c, row)
    BY <1>type, <1>own, <2>1, <2>2 DEF KeepsToItself
  <2>mine. KeepsItsOwn(c, row)
    BY <1>type, <1>own, <2>1, <2>2 DEF KeepsItsOwn
  <2> QED
    BY <1>type, <1>own, <2>1, <2>2, <2>rest, <2>mine, LoneMoves
<1>3. CASE PostReturns(c) /\ queues[k] = None
  <2> DEFINE told == Parsed(k, {})
             row == [call[c] EXCEPT !.stage = "done", !.told = told]
  <2>1. /\ call' = [call EXCEPT ![c] = row] /\ UNCHANGED <<items, heard, alone>>
        /\ queues' = [queues EXCEPT ![k] = None] /\ Awaits(k)
    BY <1>3 DEF PostReturns, Ends, Cleanup
  <2>2. told \in Told
    BY <1>type, <2>1, ParsedIsTold
  <2> HIDE DEF told
  <2>4. row \in Call /\ row.key = k /\ row.stage = "done"
    BY <1>type, <2>2 DEF Call, Stages
  <2>3. ~alone[c]
    BY <1>3, <1>own, <2>1, NoneAssumption
  <2> HIDE DEF row
  <2>rest. KeepsToItself(c, row)
    BY <1>type, <2>1, <2>3, <2>4 DEF KeepsToItself
  <2>mine. KeepsItsOwn(c, row)
    BY <1>type, <2>1, <2>3, <2>4 DEF KeepsItsOwn
  <2> QED
    BY <1>type, <2>1, <2>3, <2>4, <2>rest, <2>mine, LoneMoves
<1>4. CASE PostFails(c)
  <2> DEFINE told == IF call[c].key.action = "status" THEN "created" ELSE "error"
             row == [call[c] EXCEPT !.stage = "failed", !.told = told]
  <2>1. call' = [call EXCEPT ![c] = row] /\ UNCHANGED <<queues, items, heard, alone>>
    BY <1>4 DEF PostFails, Ends, collectorVars
  <2>2. row \in Call /\ row.key = k /\ row.stage = "failed"
    BY <1>type DEF Call, Stages, Told
  <2> HIDE DEF row
  <2>rest. KeepsToItself(c, row)
    BY <1>type, <2>1, <2>2 DEF KeepsToItself
  <2>mine. KeepsItsOwn(c, row)
    BY <1>type, <2>1, <2>2 DEF KeepsItsOwn
  <2> QED
    BY <1>type, <2>1, <2>2, <2>rest, <2>mine, LoneMoves
<1>5. CASE Take(c)
  <2> DEFINE q == call[c].queue
  <2>1. PICK cb \in items[q] : Get(q, cb) /\ call' = [call EXCEPT ![c].got = @ \cup {cb}]
    BY <1>5 DEF Take
  <2> DEFINE row == [call[c] EXCEPT !.got = @ \cup {cb}]
  <2>2. /\ call' = [call EXCEPT ![c] = row] /\ UNCHANGED <<queues, heard, alone>>
        /\ items' = [items EXCEPT ![q] = @ \ {cb}] /\ call[c].stage = "collecting"
    BY <1>5, <2>1 DEF Take, Get
  <2>4. q \in Calls
    BY <2>2 DEF CallInv, CollectorsFit
  <2>3. /\ row \in Call /\ row.key = k /\ row.stage = "collecting" /\ row.queue = q
        /\ row.got = call[c].got \cup {cb}
    BY <1>type, <2>2, <2>4 DEF Call
  <2>5. items'[q] = items[q] \ {cb} /\ \A r \in Calls \ {q} : items'[r] = items[r]
    BY <1>type, <2>2, <2>4
  <2>6. alone[c] /\ Awaits(k) => q = c /\ heard[c] = row.got \cup items'[c]
    BY <1>own, <2>1, <2>2, <2>3, <2>5
  <2> HIDE DEF row
  <2>rest. KeepsToItself(c, row)
    BY <1>type, <2>2, <2>3, <2>5, <2>6 DEF KeepsToItself
  <2>mine. KeepsItsOwn(c, row)
    BY <1>type, <2>2, <2>3, <2>5, <2>6 DEF KeepsItsOwn
  <2> QED
    BY <1>type, <2>2, <2>3, <2>5, <2>6, <2>rest, <2>mine, LoneMoves
<1>6. CASE Quiet(c)
  <2> DEFINE told == Parsed(k, call[c].got)
             row == [call[c] EXCEPT !.stage = "done", !.told = told]
  <2>1. /\ call' = [call EXCEPT ![c] = row] /\ UNCHANGED <<items, heard, alone>>
        /\ queues' = [queues EXCEPT ![k] = None] /\ call[c].stage = "collecting"
        /\ items[call[c].queue] = {}
    BY <1>6 DEF Quiet, Ends, Cleanup, Silent
  <2>2. Awaits(k) /\ told \in Told
    BY <1>type, <2>1, ParsedIsTold DEF CallInv, CollectorsFit
  <2> HIDE DEF told
  <2>4. row \in Call /\ row.key = k /\ row.stage = "done" /\ row.got = call[c].got
    BY <1>type, <2>2 DEF Call, Stages
  <2> HIDE DEF row
  <2>3. alone[c] /\ Awaits(k) => row.got = heard[c]
    BY <1>own, <2>1, <2>4
  <2>rest. KeepsToItself(c, row)
    BY <1>type, <2>1, <2>3, <2>4 DEF KeepsToItself
  <2>mine. KeepsItsOwn(c, row)
    BY <1>type, <2>1, <2>3, <2>4 DEF KeepsItsOwn
  <2> QED
    BY <1>type, <2>1, <2>3, <2>4, <2>rest, <2>mine, LoneMoves
<1> QED
  BY <1>1, <1>2, <1>3, <1>4, <1>5, <1>6

LEMMA BeginsKeepsLoneInv ==
  ASSUME CallInv, LoneInv, NEW c \in Calls, NEW k \in Key, Begins(c, k)
  PROVE  LoneInv'
<1> DEFINE new == [NoCall EXCEPT !.stage = "posting", !.key = k]
<1>idle. call[c] = NoCall /\ heard[c] = {} /\ heard' = heard
  BY DEF CallInv, IdleIsNew, Begins
<1>new. call' = [call EXCEPT ![c] = new] /\ new.stage = "posting" /\ new.key = k /\ new.got = {}
  <2>1. new.stage = "posting" /\ new.key = k /\ new.got = {}
    BY DEF NoCall
  <2> QED
    BY <2>1 DEF Begins
<1> HIDE DEF new
<1>call. /\ call'[c].stage = "posting" /\ call'[c].key = k /\ call'[c].got = {}
         /\ \A d \in Calls \ {c} : call'[d] = call[d]
  BY <1>new DEF CallInv, TypeOK
<1>items. items[c] = {} /\ items' = items
  <2>1. items[c] = {}
    BY <1>idle DEF CallInv, ItemsFit, NoCall, TypeOK, CollectorTypeOK
  <2> QED
    BY <2>1 DEF Begins, RegistersFirst, Register, collectorVars, CallInv, TypeOK, CollectorTypeOK
<1>queues. /\ Awaits(k) => queues'[k] = c
           /\ \A j \in Key \ {k} : queues'[j] = queues[j]
  BY DEF Begins, RegistersFirst, Register, collectorVars, CallInv, TypeOK, CollectorTypeOK
<1>alone. /\ alone'[c] => OnKey(k) = {}
          /\ \A d \in Calls \ {c} : alone'[d] => alone[d] /\ ~ (On(d) /\ call[d].key = k)
  BY DEF Begins, OnKey
<1>1. LoneIsOnly'
  <2> SUFFICES ASSUME NEW x \in Calls, NEW y \in Calls,
                      alone'[x], On(x)', On(y)', call'[y].key = call'[x].key
               PROVE  x = y
    BY DEF LoneIsOnly
  <2>1. CASE x = c
    BY <2>1, <1>call, <1>alone DEF OnKey, On
  <2>2. CASE x # c
    BY <2>2, <1>call, <1>alone DEF LoneInv, LoneIsOnly, On
  <2> QED
    BY <2>1, <2>2
<1>2. LoneHasItsQueue'
  <2> SUFFICES ASSUME NEW d \in Calls, alone'[d], On(d)', Awaits(call'[d].key)
               PROVE  /\ queues'[call'[d].key] = d
                      /\ call'[d].stage = "collecting" => call'[d].queue = d
                      /\ heard[d] = call'[d].got \cup items[d]
    BY <1>idle, <1>items DEF LoneHasItsQueue, Awaits
  <2>1. CASE d = c
    BY <2>1, <1>call, <1>items, <1>queues, <1>idle
  <2>2. CASE d # c
    <3>1. call'[d] = call[d] /\ On(d) /\ alone[d] /\ call[d].key \in Key \ {k}
      BY <2>2, <1>call, <1>alone DEF On, CallInv, IdleIsNew
    <3> QED
      BY <3>1, <1>queues DEF LoneInv, LoneHasItsQueue
  <2> QED
    BY <2>1, <2>2
<1>3. LoneCallMissesNothing'
  BY <1>call, <1>alone, <1>idle DEF LoneInv, LoneCallMissesNothing, Awaits
<1> QED
  BY <1>1, <1>2, <1>3 DEF LoneInv

LEMMA HeardKeepsLoneInv ==
  ASSUME CallInv, LoneInv, NEW cb \in said, HandleCallback(cb), Hear(cb), UNCHANGED <<call, alone>>
  PROVE  LoneInv'
<1>cb. cb.key \in Key
  BY DEF CallInv, TypeOK, Callback
<1>heard. \A c \in Calls : heard'[c] = IF On(c) /\ call[c].key = cb.key THEN heard[c] \cup {cb}
                                      ELSE heard[c]
  BY DEF Hear, OnKey
<1>queues. queues' = queues
  BY DEF HandleCallback
<1>1. LoneIsOnly'
  BY DEF LoneInv, LoneIsOnly, On
<1>2. LoneHasItsQueue'
  <2> SUFFICES ASSUME NEW d \in Calls, alone[d], On(d), Awaits(call[d].key)
               PROVE  /\ queues[call[d].key] = d
                      /\ call[d].stage = "collecting" => call[d].queue = d
                      /\ heard'[d] = call[d].got \cup items'[d]
    BY <1>queues DEF LoneHasItsQueue, On
  <2>1. /\ queues[call[d].key] = d /\ d # None
        /\ call[d].stage = "collecting" => call[d].queue = d
        /\ heard[d] = call[d].got \cup items[d]
    BY NoneAssumption DEF LoneInv, LoneHasItsQueue
  <2>2. CASE call[d].key = cb.key
    <3>1. items'[d] = items[d] \cup {cb}
      BY <2>1, <2>2 DEF HandleCallback, QueueOf, CallInv, TypeOK, CollectorTypeOK
    <3> QED
      BY <2>1, <2>2, <3>1, <1>heard
  <2>3. CASE call[d].key # cb.key
    <3>1. queues[cb.key] # d
      BY <2>1, <2>3, <1>cb DEF CallInv, QueuesFit, QueuesAreOwned
    <3>2. items'[d] = items[d]
      BY <3>1 DEF HandleCallback, QueueOf, CallInv, TypeOK, CollectorTypeOK
    <3> QED
      BY <2>1, <2>3, <3>2, <1>heard
  <2> QED
    BY <2>2, <2>3
<1>3. LoneCallMissesNothing'
  BY <1>heard DEF LoneInv, LoneCallMissesNothing, On
<1> QED
  BY <1>1, <1>2, <1>3 DEF LoneInv

LEMMA RestartKeepsLoneInv ==
  ASSUME CallInv, LoneInv, Restart PROVE LoneInv'
<1>1. \A c \in Calls : ~On(c)' /\ (call'[c].stage = "done" => call'[c] = call[c])
  BY DEF Restart, On, CallInv, TypeOK, Call
<1>2. UNCHANGED <<heard, alone>>
  BY DEF Restart
<1>3. LoneIsOnly' /\ LoneHasItsQueue'
  BY <1>1 DEF LoneIsOnly, LoneHasItsQueue
<1>4. LoneCallMissesNothing'
  BY <1>1, <1>2 DEF LoneInv, LoneCallMissesNothing
<1> QED
  BY <1>3, <1>4 DEF LoneInv

LEMMA OutsideKeepsLoneInv ==
  ASSUME LoneInv, UNCHANGED <<collectorVars, clientVars>> PROVE LoneInv'
BY DEF LoneInv, LoneIsOnly, LoneHasItsQueue, LoneCallMissesNothing, On, collectorVars, clientVars

LEMMA LoneInvStep == CallInv /\ LoneInv /\ [Next]_vars => LoneInv'
<1> SUFFICES ASSUME CallInv, LoneInv, [Next]_vars PROVE LoneInv'
  OBVIOUS
<1>1. ASSUME NEW c \in Calls, NEW k \in Key, Request(c, k) PROVE LoneInv'
  BY <1>1, BeginsKeepsLoneInv DEF Request
<1>2. ASSUME NEW c \in Calls, NEW p \in Probes, FireHttp(p, c) PROVE LoneInv'
  BY <1>2, ProbeKeys, BeginsKeepsLoneInv DEF FireHttp
<1>3. ASSUME NEW c \in Calls, Selected(c) \/ PostReturns(c) \/ PostFails(c) \/ Take(c) \/ Quiet(c)
      PROVE  LoneInv'
  BY <1>3, MovesKeepLoneInv
<1>4. ASSUME NEW cb \in said, \/ BapReceiver(cb) \/ OnDiscoverCollects(cb)
                              \/ \E c \in Calls : Repeat(c, cb)
      PROVE  LoneInv'
  BY <1>4, HeardKeepsLoneInv DEF BapReceiver, OnDiscoverCollects, Repeat
<1>5. ASSUME \/ \E c \in Calls, n \in Copies : Answers(c, n)
             \/ \E cb \in said : OnDiscover(cb)
             \/ \E p \in Probes : Subscribe(p) \/ ProbeHears(p) \/ ProbeTimesOut(p)
             \/ UNCHANGED vars
      PROVE  LoneInv'
  <2>1. UNCHANGED <<collectorVars, clientVars>>
    BY <1>5 DEF Answers, OnDiscover, Subscribe, ProbeHears, ProbeTimesOut, vars
  <2> QED
    BY <2>1, OutsideKeepsLoneInv
<1>6. CASE Restart
  BY <1>6, RestartKeepsLoneInv
<1> QED
  BY <1>1, <1>2, <1>3, <1>4, <1>5, <1>6 DEF Next

LEMMA LoneInvariant == Spec => []LoneInv
<1>1. Init => LoneInv
  BY DEF Init, LoneInv, LoneIsOnly, LoneHasItsQueue, LoneCallMissesNothing, On, NoCall
<1> QED
  BY <1>1, LoneInvStep, CallInvariant, PTL DEF Spec

(* A call that is alone under its key takes every callback that comes in   *)
(* between its register and its timeout: none is lost to a POST that has   *)
(* not returned, to another call's cleanup or to a callback of other keys. *)
THEOREM LoneCallsMissNothing == Spec => []LoneCallMissesNothing
<1>1. LoneInv => LoneCallMissesNothing
  BY DEF LoneInv
<1> QED
  BY <1>1, LoneInvariant, PTL

-----------------------------------------------------------------------------
(* The sidecar's probes. *)

(* Nothing of a probe's transaction is about before the probe subscribes.  *)
ProbeComesFirst ==
  /\ \A c \in Calls : call[c].stage # "idle" /\ call[c].key.txn \in Probes =>
                     probe[call[c].key.txn] # "idle"
  /\ \A cb \in said : cb.key.txn \in Probes => probe[cb.key.txn] # "idle"
  /\ \A p \in Probes : probe[p] = "idle" => inbox[p] = {}

ProbeInv == ProbeComesFirst /\ ProbeMissesNothing

LEMMA BeginsKeepsProbeInv ==
  ASSUME CallInv, ProbeInv, NEW c \in Calls, NEW k \in Key, Begins(c, k), UNCHANGED probeVars,
         k.txn \in Probes => probe[k.txn] # "idle"
  PROVE  ProbeInv'
<1>1. \A d \in Calls : call'[d] = call[d] \/ call'[d].key = k
  BY DEF Begins, CallInv, TypeOK, NoCall
<1>2. UNCHANGED <<said, probe, inbox, published>>
  BY DEF Begins, sellerVars, probeVars
<1>3. ProbeComesFirst'
  BY <1>1, <1>2 DEF ProbeInv, ProbeComesFirst
<1> QED
  BY <1>2, <1>3 DEF ProbeInv, ProbeMissesNothing

LEMMA AnswersKeepsProbeInv ==
  ASSUME CallInv, ProbeInv, NEW c \in Calls, NEW n \in Copies, Answers(c, n)
  PROVE  ProbeInv'
<1> DEFINE cb == CallbackOf(c, n)
<1>1. said' = said \cup {cb} /\ UNCHANGED <<call, probe, inbox, published>> /\ call[c].stage # "idle"
  BY DEF Answers, clientVars, probeVars
<1>2. cb.key = call[c].key
  BY DEF CallbackOf
<1> HIDE DEF cb
<1>3. ProbeComesFirst'
  BY <1>1, <1>2 DEF ProbeInv, ProbeComesFirst
<1> QED
  BY <1>1, <1>3 DEF ProbeInv, ProbeMissesNothing

LEMMA OnDiscoverKeepsProbeInv ==
  ASSUME CallInv, ProbeInv, NEW cb \in said, OnDiscover(cb)
  PROVE  ProbeInv'
<1>1. UNCHANGED <<call, said, probe>>
  BY DEF OnDiscover, clientVars
<1>2. \/ /\ inbox' = [p \in Probes |-> IF cb.key.txn = p /\ probe[p] = "waiting"
                                       THEN inbox[p] \cup {cb} ELSE inbox[p]]
         /\ published' = IF cb.key.txn \in Probes THEN published \cup {cb} ELSE published
      \/ UNCHANGED <<inbox, published>>
  BY DEF OnDiscover
<1>3. \A p \in Probes : cb.key.txn = p => probe[p] # "idle"
  BY DEF ProbeInv, ProbeComesFirst
<1>4. ProbeComesFirst'
  BY <1>1, <1>2, <1>3 DEF ProbeInv, ProbeComesFirst
<1>5. ProbeMissesNothing'
  BY <1>1, <1>2 DEF ProbeInv, ProbeMissesNothing
<1> QED
  BY <1>4, <1>5 DEF ProbeInv

LEMMA ProbeMovesKeepProbeInv ==
  ASSUME CallInv, ProbeInv, NEW p \in Probes, Subscribe(p) \/ ProbeHears(p) \/ ProbeTimesOut(p)
  PROVE  ProbeInv'
<1>1. UNCHANGED <<call, said, inbox, published>>
  BY DEF Subscribe, ProbeHears, ProbeTimesOut, clientVars, sellerVars
<1>2. \A o \in Probes \ {p} : probe'[o] = probe[o]
  BY DEF Subscribe, ProbeHears, ProbeTimesOut, CallInv, TypeOK
<1>3. \/ probe[p] = "idle" /\ probe'[p] = "waiting"
      \/ probe[p] = "waiting" /\ probe'[p] \in {"found", "empty", "timeout"}
  BY DEF Subscribe, ProbeHears, ProbeTimesOut, CallInv, TypeOK
<1>4. ProbeComesFirst'
  BY <1>1, <1>2, <1>3 DEF ProbeInv, ProbeComesFirst
<1>5. ASSUME probe[p] = "idle" PROVE inbox[p] = {} /\ \A cb \in published : cb.key.txn # p
  BY <1>5 DEF ProbeInv, ProbeComesFirst, CallInv, TypeOK
<1>6. ProbeMissesNothing'
  BY <1>1, <1>2, <1>3, <1>5 DEF ProbeInv, ProbeMissesNothing
<1> QED
  BY <1>4, <1>6 DEF ProbeInv

LEMMA CallMovesKeepProbeInv ==
  ASSUME CallInv, ProbeInv, UNCHANGED <<said, probe, inbox, published>>,
         \A c \in Calls : call'[c].key = call[c].key /\ (call[c].stage = "idle" => call'[c].stage = "idle")
  PROVE  ProbeInv'
BY DEF ProbeInv, ProbeComesFirst, ProbeMissesNothing

LEMMA ProbeInvStep == CallInv /\ ProbeInv /\ [Next]_vars => ProbeInv'
<1> SUFFICES ASSUME CallInv, ProbeInv, [Next]_vars PROVE ProbeInv'
  OBVIOUS
<1>1. ASSUME NEW c \in Calls, NEW k \in Key, Request(c, k) PROVE ProbeInv'
  BY <1>1, BeginsKeepsProbeInv DEF Request
<1>2. ASSUME NEW c \in Calls, NEW p \in Probes, FireHttp(p, c) PROVE ProbeInv'
  <2> DEFINE k == [txn |-> p, action |-> "discover"]
  <2>1. k \in Key /\ k.txn = p
    BY ProbeKeys
  <2>2. Begins(c, k) /\ UNCHANGED probeVars /\ probe[p] # "idle"
    BY <1>2 DEF FireHttp, Fires
  <2> HIDE DEF k
  <2> QED
    BY <2>1, <2>2, BeginsKeepsProbeInv
<1>3. ASSUME NEW c \in Calls, Selected(c) \/ PostReturns(c) \/ PostFails(c) \/ Take(c) \/ Quiet(c)
      PROVE  ProbeInv'
  <2>1. UNCHANGED <<said, probe, inbox, published>>
    BY <1>3 DEF Selected, PostReturns, PostFails, Take, Quiet, sellerVars, probeVars
  <2>2. \A d \in Calls : call'[d].key = call[d].key /\ (call[d].stage = "idle" => call'[d].stage = "idle")
    BY <1>3 DEF Selected, PostReturns, PostFails, Take, Quiet, Ends, CallInv, TypeOK, Call
  <2> QED
    BY <2>1, <2>2, CallMovesKeepProbeInv
<1>4. ASSUME NEW c \in Calls, NEW n \in Copies, Answers(c, n) PROVE ProbeInv'
  BY <1>4, AnswersKeepsProbeInv
<1>5. ASSUME NEW cb \in said, \/ BapReceiver(cb) \/ OnDiscoverCollects(cb)
                              \/ \E c \in Calls : Repeat(c, cb)
      PROVE  ProbeInv'
  BY <1>5, CallMovesKeepProbeInv DEF BapReceiver, OnDiscoverCollects, Repeat, sellerVars, probeVars
<1>6. ASSUME NEW cb \in said, OnDiscover(cb) PROVE ProbeInv'
  BY <1>6, OnDiscoverKeepsProbeInv
<1>7. ASSUME NEW p \in Probes, Subscribe(p) \/ ProbeHears(p) \/ ProbeTimesOut(p) PROVE ProbeInv'
  BY <1>7, ProbeMovesKeepProbeInv
<1>8. CASE Restart
  <2>1. UNCHANGED <<said, probe, inbox, published>>
    BY <1>8 DEF Restart, sellerVars, probeVars
  <2>2. \A d \in Calls : call'[d].key = call[d].key /\ (call[d].stage = "idle" => call'[d].stage = "idle")
    BY <1>8 DEF Restart, On, CallInv, TypeOK, Call
  <2> QED
    BY <2>1, <2>2, CallMovesKeepProbeInv
<1>9. CASE UNCHANGED vars
  BY <1>9, CallMovesKeepProbeInv DEF vars, clientVars, sellerVars, probeVars
<1> QED
  BY <1>1, <1>2, <1>3, <1>4, <1>5, <1>6, <1>7, <1>8, <1>9 DEF Next

LEMMA ProbeInvariant == Spec => []ProbeInv
<1>1. Init => ProbeInv
  BY DEF Init, ProbeInv, ProbeComesFirst, ProbeMissesNothing, NoCall
<1> QED
  BY <1>1, ProbeInvStep, CallInvariant, PTL DEF Spec

(* A probe has every callback of its transaction that went out on Redis    *)
(* while it waits, since it subscribes before it fires its request.        *)
THEOREM ProbesMissNothing == Spec => []ProbeMissesNothing
<1>1. ProbeInv => ProbeMissesNothing
  BY DEF ProbeInv
<1> QED
  BY <1>1, ProbeInvariant, PTL

-----------------------------------------------------------------------------
(* The client keeps the promise to its callers. *)

(* A queue holds again what call r has taken from it: r alone collects     *)
(* from it, or will.                                                       *)
Refills(q, r) ==
  /\ call[r].stage = "collecting" /\ call[r].queue = q
  /\ \A d \in Calls \ {r} : /\ call[d].stage = "collecting" => call[d].queue # q
                            /\ call[d].stage = "posting" => queues[call[d].key] # q

(* A callback is in one place: under way, in one queue, or with one call,  *)
(* unless a seller has sent it again.                                      *)
PlacesFit ==
  /\ \A cb \in wire : cb \notin publishing
  /\ \A q \in Calls : \A cb \in items[q] \cup call[q].got :
       cb \in said /\ cb \notin wire /\ cb \notin publishing
  /\ \A q, r \in Calls : \A cb \in items[q] : /\ cb \in call[r].got => Refills(q, r)
                                              /\ q # r => cb \notin items[r]
  /\ \A q, r \in Calls : \A cb \in call[q].got : q # r => cb \notin call[r].got

(* Whoever refills a queue goes on doing so while the queue is not empty.  *)
RefillsLast == \A q, r \in Calls : items[q] # {} /\ items'[q] # {} /\ Refills(q, r) => Refills(q, r)'

LEMMA FewerKeepsPlaces ==
  ASSUME PlacesFit, \A q \in Calls : items'[q] \subseteq items[q] /\ call'[q].got = call[q].got,
         wire' \subseteq wire, publishing' \subseteq publishing, UNCHANGED said, RefillsLast
  PROVE  PlacesFit'
<1>1. /\ \A cb \in wire' : cb \notin publishing'
      /\ \A q \in Calls : \A cb \in items'[q] \cup call'[q].got :
           cb \in said' /\ cb \notin wire' /\ cb \notin publishing'
      /\ \A q, r \in Calls : \A cb \in call'[q].got : q # r => cb \notin call'[r].got
  BY DEF PlacesFit
<1>2. ASSUME NEW q \in Calls, NEW r \in Calls, NEW cb \in items'[q]
      PROVE  /\ cb \in call'[r].got => Refills(q, r)'
             /\ q # r => cb \notin items'[r]
  <2>1. cb \in items[q] /\ (cb \in call[r].got => Refills(q, r)) /\ (q # r => cb \notin items[r])
    BY <1>2 DEF PlacesFit
  <2> QED
    BY <1>2, <2>1 DEF RefillsLast
<1> QED
  BY <1>1, <1>2 DEF PlacesFit

(* What changes no call and no queue of the dictionary. *)
LEMMA SameCallsRefill ==
  ASSUME UNCHANGED <<call, queues>> PROVE RefillsLast
BY DEF RefillsLast, Refills

LEMMA TakeKeepsPlaces ==
  ASSUME CallInv, PlacesFit, NEW c \in Calls, Take(c) PROVE PlacesFit'
<1> DEFINE q == call[c].queue
<1>1. /\ call[c] \in Call /\ items \in [Calls -> SUBSET Callback] /\ call \in [Calls -> Call] /\ q \in Calls
  BY DEF CallInv, TypeOK, CollectorTypeOK, CollectorsFit, Take
<1>2. PICK cb \in items[q] : Get(q, cb) /\ call' = [call EXCEPT ![c].got = @ \cup {cb}]
  BY DEF Take
<1>3. /\ items'[q] = items[q] \ {cb} /\ \A r \in Calls \ {q} : items'[r] = items[r]
      /\ call'[c].got = call[c].got \cup {cb} /\ \A r \in Calls \ {c} : call'[r].got = call[r].got
  BY <1>1, <1>2 DEF Get, Call
<1>4. UNCHANGED <<wire, publishing, said>>
  BY DEF Take, sellerVars
<1>5. /\ \A r \in Calls : cb \notin items'[r]
      /\ \A r \in Calls \ {c} : cb \notin call[r].got
  <2>1. \A r \in Calls : cb \notin items'[r]
    BY <1>1, <1>2, <1>3 DEF PlacesFit
  <2>2. ASSUME NEW r \in Calls \ {c}, cb \in call[r].got PROVE FALSE
    <3>1. Refills(q, r)
      BY <1>1, <1>2, <2>2 DEF PlacesFit
    <3> QED
      BY <3>1, <2>2 DEF Refills, Take
  <2> QED
    BY <2>1, <2>2
<1>same. RefillsLast
  <2>1. \A r \in Calls : /\ call'[r].stage = call[r].stage /\ call'[r].queue = call[r].queue
                         /\ call'[r].key = call[r].key
    BY <1>1, <1>2 DEF Call
  <2>2. queues' = queues
    BY <1>2 DEF Get
  <2> QED
    BY <2>1, <2>2 DEF RefillsLast, Refills
<1> HIDE DEF q
<1>6. \A r \in Calls : items'[r] \subseteq items[r] /\ cb \notin items'[r]
  BY <1>3, <1>5
<1>7. \A r \in Calls : call'[r].got = IF r = c THEN call[r].got \cup {cb} ELSE call[r].got
  BY <1>3
<1>8. cb \in said \ (wire \cup publishing)
  BY <1>1, <1>2 DEF PlacesFit
<1>9. \A r \in Calls : \A x \in items'[r] \cup call'[r].got : x \in items[r] \cup call[r].got \cup {cb}
  BY <1>6, <1>7
<1>10. \A r, t \in Calls : \A x \in items'[r] : /\ x \in call'[t].got => Refills(r, t)'
                                                /\ r # t => x \notin items'[t]
  <2> SUFFICES ASSUME NEW r \in Calls, NEW t \in Calls, NEW x \in items'[r]
               PROVE  /\ x \in call'[t].got => Refills(r, t)'
                      /\ r # t => x \notin items'[t]
    OBVIOUS
  <2>1. x # cb /\ x \in items[r] /\ (r # t => x \notin items[t])
    BY <1>6 DEF PlacesFit
  <2>2. ASSUME x \in call'[t].got PROVE Refills(r, t)'
    <3>1. x \in call[t].got
      BY <2>1, <2>2, <1>7
    <3>2. Refills(r, t)
      BY <2>1, <3>1 DEF PlacesFit
    <3> QED
      BY <2>1, <3>2, <1>same DEF RefillsLast
  <2> QED
    BY <2>1, <2>2, <1>6
<1>11. \A r, t \in Calls : \A x \in call'[r].got : r # t => x \notin call'[t].got
  <2> SUFFICES ASSUME NEW r \in Calls, NEW t \in Calls, NEW x \in call'[r].got, r # t
               PROVE  x \notin call'[t].got
    OBVIOUS
  <2>1. CASE x = cb
    BY <2>1, <1>5, <1>7
  <2>2. CASE x # cb
    <3>1. x \in call[r].got
      BY <2>2, <1>7
    <3>2. x \notin call[t].got
      BY <3>1 DEF PlacesFit
    <3> QED
      BY <2>2, <3>2, <1>7
  <2> QED
    BY <2>1, <2>2
<1> QED
  BY <1>4, <1>8, <1>9, <1>10, <1>11 DEF PlacesFit

LEMMA HeardKeepsPlaces ==
  ASSUME CallInv, PlacesFit, NEW cb \in said, HandleCallback(cb), UNCHANGED <<call, said>>,
         \/ cb \in wire /\ wire' = wire \ {cb} /\ publishing' = publishing
         \/ cb \in publishing /\ publishing' = publishing \ {cb} /\ wire' = wire
  PROVE  PlacesFit'
<1>1. /\ cb \notin wire' \cup publishing'
      /\ wire' \subseteq wire /\ publishing' \subseteq publishing
  BY DEF PlacesFit
<1>2. \A q \in Calls : cb \notin items[q] /\ cb \notin call[q].got
  BY DEF PlacesFit
<1>3. \/ items' = items
      \/ \E q \in Calls : items' = [items EXCEPT ![q] = @ \cup {cb}]
  BY DEF HandleCallback, QueueOf, CallInv, TypeOK, CollectorTypeOK, Callback
<1>same. RefillsLast
  BY SameCallsRefill DEF HandleCallback
<1>4. CASE items' = items
  BY <1>1, <1>4, <1>same, FewerKeepsPlaces
<1>5. ASSUME NEW q \in Calls, items' = [items EXCEPT ![q] = @ \cup {cb}] PROVE PlacesFit'
  <2>1. \A r \in Calls : items'[r] = IF r = q THEN items[r] \cup {cb} ELSE items[r]
    BY <1>5 DEF CallInv, TypeOK, CollectorTypeOK
  <2>2. \A r \in Calls : \A x \in items'[r] : x \in items[r] \/ (r = q /\ x = cb)
    BY <2>1
  <2>3. \A r \in Calls : \A x \in items'[r] \cup call'[r].got :
          x \in said' /\ x \notin wire' /\ x \notin publishing'
    BY <2>2, <1>1 DEF PlacesFit
  <2>4. \A r, t \in Calls : \A x \in items'[r] : /\ x \in call'[t].got => Refills(r, t)'
                                                 /\ r # t => x \notin items'[t]
    <3> SUFFICES ASSUME NEW r \in Calls, NEW t \in Calls, NEW x \in items'[r]
                 PROVE  /\ x \in call'[t].got => Refills(r, t)'
                        /\ r # t => x \notin items'[t]
      OBVIOUS
    <3>1. CASE x = cb
      BY <3>1, <2>1, <1>2
    <3>2. CASE x # cb
      <4>1. x \in items[r] /\ (x \in call[t].got => Refills(r, t)) /\ (r # t => x \notin items[t])
        BY <3>2, <2>2 DEF PlacesFit
      <4>2. x \in call[t].got => Refills(r, t)'
        BY <4>1 DEF HandleCallback, Refills
      <4> QED
        BY <3>2, <4>1, <4>2, <2>2
    <3> QED
      BY <3>1, <3>2
  <2>5. /\ \A x \in wire' : x \notin publishing'
        /\ \A r, t \in Calls : \A x \in call'[r].got : r # t => x \notin call'[t].got
    BY <1>1 DEF PlacesFit
  <2> QED
    BY <2>3, <2>4, <2>5 DEF PlacesFit
<1> QED
  BY <1>3, <1>4, <1>5

LEMMA RepeatKeepsPlaces ==
  ASSUME CallInv, PlacesFit, NEW c \in Calls, NEW cb \in said, Repeat(c, cb) PROVE PlacesFit'
<1> DEFINE k == call[c].key
           q == call[c].queue
<1>1. /\ call[c].stage = "collecting" /\ cb \in call[c].got /\ queues[k] = q
      /\ UNCHANGED <<call, queues, said, wire, publishing>>
      /\ k \in Key /\ q \in Calls /\ call[q].key = k /\ cb.key = k
  <2>1. /\ call[c].stage = "collecting" /\ cb \in call[c].got /\ queues[cb.key] = q
        /\ UNCHANGED <<call, queues, said, wire, publishing>> /\ c \in OnKey(cb.key)
    BY DEF Repeat, HandleCallback, sellerVars
  <2>2. cb.key = k
    BY <2>1 DEF OnKey
  <2> QED
    BY <2>1, <2>2 DEF CallInv, IdleIsNew, CollectorsFit
<1>2. \A r \in Calls : \A x \in items'[r] : x \in items[r] \/ (x = cb /\ r = q)
  BY <1>1 DEF Repeat, HandleCallback, QueueOf, CallInv, TypeOK, CollectorTypeOK
<1>4. \A d \in Calls \ {c} : /\ call[d].stage = "collecting" => call[d].queue # q
                             /\ call[d].stage = "posting" => queues[call[d].key] # q
  <2> SUFFICES ASSUME NEW d \in Calls \ {c}, call[d].stage \in {"collecting", "posting"},
                      \/ call[d].stage = "collecting" /\ call[d].queue = q
                      \/ call[d].stage = "posting" /\ queues[call[d].key] = q
               PROVE  FALSE
    OBVIOUS
  <2>1. call[d].key \in Key /\ q # None
    BY <1>1, NoneAssumption DEF CallInv, IdleIsNew
  <2>2. call[d].key = k
    BY <1>1, <2>1 DEF CallInv, CollectorsFit, QueuesFit, QueuesAreOwned
  <2>3. d \in OnKey(k)
    BY <2>2 DEF OnKey, On
  <2> QED
    BY <1>1, <2>3 DEF Repeat
<1>5. Refills(q, c)
  BY <1>1, <1>4 DEF Refills
<1>still. \A z \in Calls : z = q => Refills(z, c)'
  BY <1>1, <1>5 DEF Refills
<1>6. \A r \in Calls \ {q} : cb \notin items[r]
  BY <1>1 DEF PlacesFit, Refills
<1>7. \A r \in Calls \ {c} : cb \notin call[r].got
  BY <1>1 DEF PlacesFit
<1>8. cb \in said /\ cb \notin wire /\ cb \notin publishing
  BY <1>1 DEF PlacesFit
<1>same. RefillsLast
  BY <1>1, SameCallsRefill
<1> HIDE DEF q, k
<1>9. /\ \A x \in wire' : x \notin publishing'
      /\ \A r \in Calls : \A x \in items'[r] \cup call'[r].got :
           x \in said' /\ x \notin wire' /\ x \notin publishing'
      /\ \A r, t \in Calls : \A x \in call'[r].got : r # t => x \notin call'[t].got
  BY <1>1, <1>2, <1>8 DEF PlacesFit
<1>10. ASSUME NEW r \in Calls, NEW t \in Calls, NEW x \in items'[r]
       PROVE  /\ x \in call'[t].got => Refills(r, t)'
              /\ r # t => x \notin items'[t]
  <2>2. CASE x = cb
    <3>1. r = q
      BY <2>2, <1>2, <1>6
    <3>2. x \in call'[t].got => t = c
      BY <2>2, <1>1, <1>7
    <3>3. t # q => x \notin items'[t]
      BY <2>2, <1>2, <1>6
    <3> QED
      BY <1>still, <3>1, <3>2, <3>3
  <2>3. CASE x # cb
    <3>1. x \in items[r] /\ (x \in call[t].got => Refills(r, t)) /\ (r # t => x \notin items[t])
      BY <2>3, <1>2 DEF PlacesFit
    <3>2. x \in call[t].got => Refills(r, t)'
      BY <3>1, <1>1 DEF Refills
    <3> QED
      BY <2>3, <3>1, <3>2, <1>1, <1>2
  <2> QED
    BY <2>2, <2>3
<1> QED
  BY <1>9, <1>10 DEF PlacesFit

LEMMA BeginsIsAsk ==
  ASSUME CallInv, PlacesFit, NEW c \in Calls, NEW k \in Key, Begins(c, k)
  PROVE  PlacesFit' /\ E!Ask(c, k)
<1> DEFINE new == [NoCall EXCEPT !.stage = "posting", !.key = k]
<1>idle. call[c] = NoCall /\ call[c].key = None /\ call[c].got = {} /\ ~On(c)
  <2>1. call[c] = NoCall
    BY DEF CallInv, IdleIsNew, Begins
  <2> QED
    BY <2>1 DEF NoCall, On
<1>new. call' = [call EXCEPT ![c] = new] /\ new.stage = "posting" /\ new.key = k /\ new.got = {}
  <2>1. new.stage = "posting" /\ new.key = k /\ new.got = {}
    BY DEF NoCall
  <2> QED
    BY <2>1 DEF Begins
<1> HIDE DEF new
<1>call. /\ call'[c].stage = "posting" /\ call'[c].key = k /\ call'[c].got = {}
         /\ \A d \in Calls \ {c} : call'[d] = call[d]
  BY <1>new DEF CallInv, TypeOK
<1>same. UNCHANGED <<said, wire, publishing>>
  BY DEF Begins, sellerVars
<1>items. \A q \in Calls : items'[q] \subseteq items[q]
  BY DEF Begins, RegistersFirst, Register, collectorVars, CallInv, TypeOK, CollectorTypeOK
<1>refill. RefillsLast
  <2> SUFFICES ASSUME NEW q \in Calls, NEW r \in Calls, items[q] # {}, Refills(q, r)
               PROVE  Refills(q, r)'
    BY DEF RefillsLast
  <2>1. r # c /\ q # c
    BY <1>idle DEF Refills, NoCall, CallInv, ItemsFit, TypeOK, CollectorTypeOK
  <2>2. /\ \A j \in Key : queues'[j] = queues[j] \/ queues'[j] = c
        /\ queues'[k] # q
    <3>1. CASE RegistersFirst(k)
      BY <2>1, <3>1 DEF Begins, Register, CallInv, TypeOK, CollectorTypeOK
    <3>2. CASE ~RegistersFirst(k)
      BY <3>2, NoneAssumption DEF Begins, RegistersFirst, collectorVars, CallInv, QueuesFit
    <3> QED
      BY <3>1, <3>2
  <2>3. \A d \in Calls \ {c} : call[d].stage = "posting" => call[d].key \in Key
    BY DEF CallInv, IdleIsNew
  <2> QED
    BY <2>1, <2>2, <2>3, <1>call DEF Refills
<1>1. PlacesFit'
  BY <1>idle, <1>call, <1>same, <1>items, <1>refill, FewerKeepsPlaces
<1>2. [d \in Calls |-> call'[d].key] = [[d \in Calls |-> call[d].key] EXCEPT ![c] = k]
  BY <1>call
<1>3. {d \in Calls : On(d)'} = {d \in Calls : On(d)} \cup {c}
  BY <1>call DEF On
<1>4. [d \in Calls |-> call'[d].got] = [d \in Calls |-> call[d].got]
  BY <1>idle, <1>call
<1>5. E!Ask(c, k)
  BY <1>2, <1>3, <1>4, <1>idle, <1>same DEF E!Ask
<1> QED
  BY <1>1, <1>5

(* Calls that end keep what they took. *)
LEMMA EndsIsEnd ==
  ASSUME CallInv, PlacesFit, NEW cs \in SUBSET Calls,
         \A c \in Calls : /\ call'[c].key = call[c].key /\ call'[c].got = call[c].got
                          /\ On(c)' <=> On(c) /\ c \notin cs,
         \A q \in Calls : items'[q] \subseteq items[q],
         publishing' \subseteq publishing, UNCHANGED sellerVars, RefillsLast
  PROVE  PlacesFit' /\ E!End(cs)
<1>1. PlacesFit'
  <2>1. UNCHANGED <<said, wire>>
    BY DEF sellerVars
  <2> QED
    BY <2>1, FewerKeepsPlaces
<1>2. {c \in Calls : On(c)'} = {c \in Calls : On(c)} \ cs
  OBVIOUS
<1>3. /\ [c \in Calls |-> call'[c].key] = [c \in Calls |-> call[c].key]
      /\ [c \in Calls |-> call'[c].got] = [c \in Calls |-> call[c].got]
  OBVIOUS
<1> QED
  BY <1>1, <1>2, <1>3 DEF E!End, sellerVars

(* A callback is given, or given again, which the promise does not count.  *)
LEMMA TakeIsGive ==
  ASSUME CallInv, PlacesFit, NEW c \in Calls, Take(c)
  PROVE  UNCHANGED E!vars \/ \E cb \in Callback : E!Give(c, cb)
<1> DEFINE q == call[c].queue
<1>1. /\ call \in [Calls -> Call] /\ items \in [Calls -> SUBSET Callback]
      /\ q \in Calls /\ call[q].key = call[c].key /\ On(c)
  BY DEF CallInv, TypeOK, CollectorTypeOK, CollectorsFit, Take, On
<1>2. PICK cb \in items[q] : call' = [call EXCEPT ![c].got = @ \cup {cb}]
  BY DEF Take
<1>3. /\ cb \in Callback /\ cb \in said /\ cb.key = call[c].key
      /\ \A d \in Calls \ {c} : cb \notin call[d].got
  <2>1. ASSUME NEW d \in Calls \ {c}, cb \in call[d].got PROVE FALSE
    <3>1. Refills(q, d)
      BY <1>1, <1>2, <2>1 DEF PlacesFit
    <3> QED
      BY <3>1, <2>1 DEF Refills, Take
  <2> QED
    BY <1>1, <1>2, <2>1 DEF CallInv, ItemsFit, PlacesFit
<1>4. /\ call'[c].got = call[c].got \cup {cb}
      /\ \A d \in Calls : /\ call'[d].key = call[d].key /\ call'[d].stage = call[d].stage
                          /\ d # c => call'[d].got = call[d].got
  BY <1>1, <1>2 DEF Call
<1>5. [d \in Calls |-> call'[d].got] = [[d \in Calls |-> call[d].got] EXCEPT ![c] = @ \cup {cb}]
  BY <1>4
<1>6. /\ [d \in Calls |-> call'[d].key] = [d \in Calls |-> call[d].key]
      /\ {d \in Calls : On(d)'} = {d \in Calls : On(d)}
  BY <1>4 DEF On
<1>7. UNCHANGED said
  BY DEF Take, sellerVars
<1>8. CASE cb \notin call[c].got
  <2>1. E!Give(c, cb)
    BY <1>1, <1>3, <1>5, <1>6, <1>7, <1>8 DEF E!Give
  <2> QED
    BY <1>3, <2>1
<1>9. CASE cb \in call[c].got
  <2>1. [d \in Calls |-> call'[d].got] = [d \in Calls |-> call[d].got]
    BY <1>4, <1>9
  <2> QED
    BY <2>1, <1>6, <1>7 DEF E!vars
<1> QED
  BY <1>8, <1>9

(* What changes no call and no answer is not seen by the callers. *)
LEMMA UnseenIsStutter ==
  ASSUME \A c \in Calls : call'[c].key = call[c].key /\ call'[c].got = call[c].got /\ (On(c)' <=> On(c)),
         UNCHANGED said
  PROVE  UNCHANGED E!vars
<1>1. /\ [c \in Calls |-> call'[c].key] = [c \in Calls |-> call[c].key]
      /\ [c \in Calls |-> call'[c].got] = [c \in Calls |-> call[c].got]
      /\ {c \in Calls : On(c)'} = {c \in Calls : On(c)}
  OBVIOUS
<1> QED
  BY <1>1 DEF E!vars

LEMMA ExchangeStep ==
  ASSUME CallInv, PlacesFit, [Next]_vars
  PROVE  PlacesFit' /\ [E!Next]_E!vars
<1>types. /\ call \in [Calls -> Call] /\ items \in [Calls -> SUBSET Callback]
          /\ \A cb \in said : cb \in Callback
  BY DEF CallInv, TypeOK, CollectorTypeOK
<1>1. ASSUME NEW c \in Calls, NEW k \in Key, Request(c, k) PROVE PlacesFit' /\ E!Next
  <2>1. PlacesFit' /\ E!Ask(c, k)
    BY <1>1, BeginsIsAsk DEF Request
  <2> QED
    BY <2>1 DEF E!Next
<1>2. ASSUME NEW c \in Calls, NEW p \in Probes, FireHttp(p, c) PROVE PlacesFit' /\ E!Next
  <2> DEFINE k == [txn |-> p, action |-> "discover"]
  <2>1. k \in Key /\ Begins(c, k)
    BY <1>2, ProbeKeys DEF FireHttp
  <2> HIDE DEF k
  <2>2. PlacesFit' /\ E!Ask(c, k)
    BY <2>1, BeginsIsAsk
  <2> QED
    BY <2>1, <2>2 DEF E!Next
<1>3. ASSUME NEW c \in Calls, \/ Selected(c) \/ PostFails(c) \/ Quiet(c)
                              \/ PostReturns(c) /\ queues[call[c].key] = None
      PROVE  PlacesFit' /\ E!Next
  <2>1. \A d \in Calls : /\ call'[d].key = call[d].key /\ call'[d].got = call[d].got
                         /\ On(d)' <=> On(d) /\ d \notin {c}
    BY <1>3, <1>types DEF Selected, PostFails, Quiet, PostReturns, Ends, On, Call
  <2>2. items' = items /\ publishing' = publishing /\ UNCHANGED sellerVars
    BY <1>3 DEF Selected, PostFails, Quiet, PostReturns, Cleanup, collectorVars
  <2>4. RefillsLast
    <3> SUFFICES ASSUME NEW q \in Calls, NEW r \in Calls, items[q] # {}, Refills(q, r)
                 PROVE  Refills(q, r)'
      BY DEF RefillsLast
    <3>1. r # c /\ \A d \in Calls \ {c} : call'[d] = call[d]
      BY <1>3, <1>types DEF Refills, Selected, PostFails, Quiet, Silent, PostReturns, Ends
    <3>2. call'[c].stage \in {"done", "failed"}
      BY <1>3, <1>types DEF Selected, PostFails, Quiet, PostReturns, Ends, Call
    <3>3. \A k \in Key : queues'[k] = queues[k] \/ queues'[k] = None
      BY <1>3 DEF Selected, PostFails, Quiet, PostReturns, Cleanup, collectorVars,
                  CallInv, TypeOK, CollectorTypeOK
    <3>4. \A d \in Calls : call[d].stage = "posting" => call[d].key \in Key
      BY DEF CallInv, IdleIsNew
    <3> QED
      BY <3>1, <3>2, <3>3, <3>4, NoneAssumption DEF Refills
  <2>3. PlacesFit' /\ E!End({c})
    BY <2>1, <2>2, <2>4, EndsIsEnd
  <2> QED
    BY <2>3 DEF E!Next
<1>4. ASSUME NEW c \in Calls, PostReturns(c), queues[call[c].key] # None
      PROVE  PlacesFit' /\ UNCHANGED E!vars
  <2>1. \A d \in Calls : call'[d].key = call[d].key /\ call'[d].got = call[d].got /\ (On(d)' <=> On(d))
    BY <1>4, <1>types DEF PostReturns, On, Call
  <2>2. UNCHANGED <<queues, items, publishing, wire, said>>
    BY <1>4 DEF PostReturns, collectorVars, sellerVars
  <2>3. RefillsLast
    <3> SUFFICES ASSUME NEW q \in Calls, NEW r \in Calls, Refills(q, r) PROVE Refills(q, r)'
      BY DEF RefillsLast
    <3>1. r # c /\ call[c].stage = "posting" /\ \A d \in Calls \ {c} : call'[d] = call[d]
      BY <1>4, <1>types DEF Refills, PostReturns
    <3>2. call'[c].stage = "collecting" /\ call'[c].queue = queues[call[c].key]
      BY <1>4, <1>types DEF PostReturns, Call
    <3> QED
      BY <2>2, <3>1, <3>2 DEF Refills
  <2> QED
    BY <2>1, <2>2, <2>3, FewerKeepsPlaces, UnseenIsStutter
<1>5. ASSUME NEW c \in Calls, Take(c) PROVE PlacesFit' /\ [E!Next]_E!vars
  BY <1>5, TakeKeepsPlaces, TakeIsGive DEF E!Next
<1>6. ASSUME NEW c \in Calls, NEW n \in Copies, Answers(c, n) PROVE PlacesFit' /\ E!Next
  <2> DEFINE cb == CallbackOf(c, n)
  <2>1. cb \in Callback /\ cb.key = call[c].key /\ cb.call = c
    BY <1>6 DEF CallbackOf, Callback, CallInv, IdleIsNew, Answers
  <2>2. /\ cb \notin said /\ said' = said \cup {cb} /\ wire' = wire \cup {cb}
        /\ UNCHANGED <<call, items, queues, publishing>>
    BY <1>6 DEF Answers, collectorVars, clientVars
  <2> HIDE DEF cb
  <2>3. wire \subseteq said /\ publishing \subseteq said
    BY DEF CallInv, TypeOK
  <2>4. PlacesFit'
    BY <2>2, <2>3 DEF PlacesFit, Refills
  <2>5. E!Say(cb)
    BY <2>1, <2>2 DEF E!Say, On
  <2> QED
    BY <2>1, <2>4, <2>5 DEF E!Next
<1>7. ASSUME NEW cb \in said, BapReceiver(cb) \/ OnDiscoverCollects(cb)
      PROVE  PlacesFit' /\ UNCHANGED E!vars
  <2>1. PlacesFit'
    BY <1>7, HeardKeepsPlaces DEF BapReceiver, OnDiscoverCollects, sellerVars
  <2>2. UNCHANGED <<call, said>>
    BY <1>7 DEF BapReceiver, OnDiscoverCollects, sellerVars
  <2> QED
    BY <2>1, <2>2, UnseenIsStutter DEF On
<1>8. ASSUME NEW cb \in said, OnDiscover(cb) PROVE PlacesFit' /\ UNCHANGED E!vars
  <2>1. /\ cb \in wire /\ wire' = wire \ {cb} /\ publishing' = publishing \cup {cb}
        /\ UNCHANGED <<items, queues, call, said>>
    BY <1>8 DEF OnDiscover, collectorVars, clientVars
  <2>2. PlacesFit'
    BY <2>1 DEF PlacesFit, Refills
  <2> QED
    BY <2>1, <2>2, UnseenIsStutter DEF On
<1>9. ASSUME NEW p \in Probes, Subscribe(p) \/ ProbeHears(p) \/ ProbeTimesOut(p)
      PROVE  PlacesFit' /\ UNCHANGED E!vars
  <2>1. UNCHANGED <<items, queues, call, wire, publishing, said>>
    BY <1>9 DEF Subscribe, ProbeHears, ProbeTimesOut, collectorVars, clientVars, sellerVars
  <2> QED
    BY <2>1, SameCallsRefill, FewerKeepsPlaces, UnseenIsStutter DEF On
<1>10. CASE Restart
  <2>1. \A c \in Calls : /\ call'[c].key = call[c].key /\ call'[c].got = call[c].got
                         /\ On(c)' <=> On(c) /\ c \notin Calls
    BY <1>10, <1>types DEF Restart, On, Call
  <2>2. /\ \A q \in Calls : items'[q] \subseteq items[q]
        /\ publishing' \subseteq publishing /\ UNCHANGED sellerVars
    BY <1>10 DEF Restart
  <2>4. RefillsLast
    BY <1>10 DEF Restart, RefillsLast
  <2>3. PlacesFit' /\ E!End(Calls)
    BY <2>1, <2>2, <2>4, EndsIsEnd
  <2> QED
    BY <2>3 DEF E!Next
<1>11. CASE UNCHANGED vars
  <2>1. UNCHANGED <<items, queues, call, wire, publishing, said>>
    BY <1>11 DEF vars, collectorVars, clientVars, sellerVars
  <2> QED
    BY <2>1, SameCallsRefill, FewerKeepsPlaces, UnseenIsStutter DEF On
<1>12. ASSUME NEW cb \in said, NEW c \in Calls, Repeat(c, cb)
       PROVE  PlacesFit' /\ UNCHANGED E!vars
  <2>1. PlacesFit'
    BY <1>12, RepeatKeepsPlaces
  <2>2. UNCHANGED <<call, said>>
    BY <1>12 DEF Repeat, sellerVars
  <2> QED
    BY <2>1, <2>2, UnseenIsStutter DEF On
<1> QED
  BY <1>1, <1>2, <1>3, <1>4, <1>5, <1>6, <1>7, <1>8, <1>9, <1>10, <1>11, <1>12 DEF Next

(* The client keeps the promise of Exchange: a call is given callbacks     *)
(* that sellers sent for its key, each of them goes to one call at most,   *)
(* and none to a call that has ended.                                      *)
THEOREM ClientKeepsPromise == Spec => ImplementsExchange
<1>1. Init => PlacesFit /\ E!Init
  <2> SUFFICES ASSUME Init PROVE PlacesFit /\ E!Init
    OBVIOUS
  <2>1. \A c \in Calls : call[c].key = None /\ call[c].got = {} /\ ~On(c) /\ items[c] = {}
    BY DEF Init, CollectorInit, NoCall, On
  <2>2. said = {} /\ wire = {}
    BY DEF Init
  <2>3. PlacesFit
    BY <2>1, <2>2 DEF PlacesFit
  <2>4. E!Init
    BY <2>1, <2>2 DEF E!Init
  <2> QED
    BY <2>3, <2>4
<1>2. CallInv /\ PlacesFit /\ [Next]_vars => PlacesFit' /\ [E!Next]_E!vars
  BY ExchangeStep
<1> QED
  BY <1>1, <1>2, CallInvariant, PTL DEF Spec, ImplementsExchange, E!Spec

=============================================================================

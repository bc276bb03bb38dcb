--------------------------- MODULE FirstAgentProofs ---------------------------
(***************************************************************************)
(* Theorems about the first agent, for any transactions, items, prices,    *)
(* users, thresholds, requests and restarts.                               *)
(***************************************************************************)
EXTENDS FirstAgent, TLAPS

Chosen == Items \cup {None} \cup {Cheapest(found) : found \in SUBSET Items}

Stored ==
  [dict : Requests \cup {None}, known : BOOLEAN, selected : Chosen,
   order : Requests \cup {"none", "mock"}, error : BOOLEAN]

Typed ==
  /\ session \in [Txns -> Stored]
  /\ request \in [Requests -> Request]
  /\ threshold \in [Users -> Nat]
  /\ pending \subseteq Requests
  /\ stood \subseteq Requests
  /\ orders \subseteq Requests
  /\ doubted \subseteq Txns
  /\ offers \in [Txns -> SUBSET Items]

(* How far a request can be, and what it has got past by then. *)
RequestsFit ==
  \A r \in Requests :
    /\ request[r].stage = "idle" => request[r] = NoRequest
    /\ request[r].stage # "idle" => request[r].txn \in Txns /\ offers[request[r].txn] # {}
    /\ r \in orders => request[r].sent
    /\ request[r].sent => request[r].stage \in {"confirming", "done"}
    /\ request[r].stage = "authorising" =>
         /\ request[r].kind = "commit" /\ request[r].approval = None
         /\ request[r].item \in Items /\ request[r].user \in Users
    /\ request[r].sent \/ request[r].stage \in Working =>
         \/ request[r].kind = "approved"
         \/ Price[request[r].item] * Quantity[request[r].txn] <= request[r].granted
         \/ request[r].unread

(* An approval is filed by a request that is over, and decided by one that *)
(* takes it off the queue before it is over itself.                        *)
ApprovalsFit ==
  /\ \A a \in pending : request[a].stage = "done"
  /\ \A r \in Requests :
       /\ request[r].approval # None => request[request[r].approval].stage = "done"
       /\ request[r].approval \in pending => request[r].stage # "done"
       /\ request[r].approval \in stood =>
            request[r].stage = "done" /\ ~request[r].sent /\ r \notin orders
  /\ \A a \in stood : a \notin pending /\ request[a].stage = "done"

(* A state that came with an error goes no further than select.            *)
DoubtFit ==
  /\ \A r \in Requests :
       /\ request[r].late => request[r].error
       /\ request[r].error =>
            request[r].stage \notin {"initing", "confirming"} /\ ~request[r].sent
  /\ \A t \in doubted :
       /\ offers[t] # {}
       /\ session[t].known => session[t].error
       /\ \A r \in Requests : HoldsState(r, t) => request[r].error

(* An order in a session is of the request that stored the dict; only one  *)
(* that works on this very dict has picked another item in it.             *)
CoherentFit ==
  \A t \in Txns \ crossed :
    session[t].order \in Requests =>
      /\ session[t].known
      /\ session[t].dict = session[t].order
      /\ session[t].order \in orders
      /\ \/ session[t].selected = request[session[t].order].item
         \/ \E r \in Requests : /\ request[r].stage \in Working
                                /\ request[r].txn = t
                                /\ request[r].dict = session[t].dict

Inv == Typed /\ RequestsFit /\ ApprovalsFit /\ DoubtFit /\ CoherentFit

-----------------------------------------------------------------------------
LEMMA NewRequest ==
  /\ NoRequest \in Request
  /\ NoRequest.stage = "idle" /\ ~NoRequest.sent /\ ~NoRequest.late /\ ~NoRequest.error
  /\ NoRequest.approval = None
BY DEF NoRequest, Request

LEMMA InitInv == Init => Inv
<1> SUFFICES ASSUME Init PROVE Inv
  OBVIOUS
<1>1. \A r \in Requests : request[r] = NoRequest
  BY DEF Init
<1>2. Typed
  <2>1. NoSession \in Stored
    BY DEF NoSession, Chosen, Stored
  <2> QED
    BY <2>1, NewRequest DEF Init, Typed
<1>3. RequestsFit
  BY <1>1, NewRequest DEF Init, RequestsFit, Working
<1>4. ApprovalsFit
  BY <1>1, NewRequest DEF Init, ApprovalsFit
<1>5. DoubtFit
  BY <1>1, NewRequest DEF Init, DoubtFit
<1>6. CoherentFit
  BY RequestsAssumption DEF Init, NoSession, CoherentFit
<1> QED
  BY <1>2, <1>3, <1>4, <1>5, <1>6 DEF Inv

(* A request begins: a commit, or a decision on an approval of the queue.  *)
LEMMA BeginsKeepsInv ==
  ASSUME Inv, NEW r \in Requests, request[r].stage = "idle", NEW row \in Request,
         request' = [request EXCEPT ![r] = row],
         row.stage \in {"authorising", "deciding"}, ~row.sent, row.txn \in Txns, offers[row.txn] # {},
         row.approval # None => row.approval \in pending,
         row.stage = "authorising" => /\ row.kind = "commit" /\ row.approval = None
                                      /\ row.item \in Items /\ row.user \in Users
                                      /\ row.txn \in doubted => row.error,
         row.late => row.error,
         UNCHANGED <<session, pending, threshold, orders, offers, restarts, history>>
  PROVE  Inv'
<1> USE DEF Inv
<1>1. request'[r] = row /\ \A q \in Requests \ {r} : request'[q] = request[q]
  BY DEF Typed
<1>2. UNCHANGED <<session, pending, threshold, orders, offers, stood, doubted, crossed>>
  BY DEF history
<1>3. r \notin pending /\ r \notin stood /\ r \notin orders /\ \A q \in Requests : request[q].approval # r
  BY RequestsAssumption, NewRequest DEF ApprovalsFit, RequestsFit
<1>4. Typed'
  BY <1>2 DEF Typed
<1>5. RequestsFit'
  BY <1>1, <1>2 DEF RequestsFit, Working
<1>6. ApprovalsFit'
  <2>1. \A a \in pending : a # r /\ a \in Requests
    BY <1>3 DEF Typed
  <2>2. \A a \in stood : a # r /\ a \in Requests /\ a \notin pending
    BY <1>3 DEF Typed, ApprovalsFit
  <2>3. row.approval # None => row.approval \in pending /\ row.approval \notin stood
    BY <2>2
  <2>4. \A q \in Requests : request[q].approval # None => request[q].approval \in Requests \ {r}
    BY <1>3 DEF Typed, Request
  <2>5. None \notin pending /\ None \notin stood
    BY RequestsAssumption DEF Typed
  <2> QED
    BY <1>1, <1>2, <2>1, <2>2, <2>3, <2>4, <2>5 DEF ApprovalsFit
<1>7. DoubtFit'
  BY <1>1, <1>2 DEF DoubtFit, HoldsState, Working
<1>8. CoherentFit'
  <2>1. \A o \in orders : o \in Requests => o # r
    BY <1>3
  <2> QED
    BY <1>1, <1>2, <2>1 DEF CoherentFit, Working
<1> QED
  BY <1>4, <1>5, <1>6, <1>7, <1>8

LEMMA CommitKeepsInv ==
  ASSUME Inv, NEW r \in Requests, NEW t \in Txns, NEW i \in Items, NEW u \in Users, Commit(r, t, i, u)
  PROVE  Inv'
<1> DEFINE row == [NoRequest EXCEPT !.stage = "authorising", !.kind = "commit", !.txn = t, !.item = i,
                                    !.user = u, !.dict = session[t].dict, !.error = session[t].error,
                                    !.late = t \in doubted]
<1>1. session[t].dict \in Requests \cup {None} /\ session[t].error \in BOOLEAN
  BY DEF Inv, Typed, Stored
<1>2. row \in Request
  <2> DEFINE half == [NoRequest EXCEPT !.stage = "authorising", !.kind = "commit", !.txn = t, !.item = i,
                                       !.user = u]
             whole(late) == [half EXCEPT !.dict = session[t].dict, !.error = session[t].error, !.late = late]
  <2>1. half \in Request
    <3> DEFINE blank == [NoRequest EXCEPT !.stage = "authorising", !.kind = "commit"]
    <3>1. blank \in Request
      BY DEF NoRequest, Request
    <3>2. half = [blank EXCEPT !.txn = t, !.item = i, !.user = u]
      BY Zenon
    <3> HIDE DEF blank
    <3> QED
      BY <3>1, <3>2 DEF Request
  <2>2. ASSUME NEW late \in BOOLEAN PROVE whole(late) \in Request
    <3> HIDE DEF half
    <3> QED
      BY <1>1, <2>1 DEF Request
  <2>3. row = whole(t \in doubted) /\ (t \in doubted) \in BOOLEAN
    OBVIOUS
  <2> HIDE DEF row, whole
  <2> QED
    BY <2>2, <2>3
<1>3. /\ row.stage = "authorising" /\ row.kind = "commit" /\ row.txn = t
      /\ row.item = i /\ row.user = u /\ ~row.sent /\ row.approval = None
      /\ row.error = session[t].error /\ row.late = (t \in doubted)
  BY NewRequest DEF Request
<1>4. request' = [request EXCEPT ![r] = row] /\ request[r].stage = "idle" /\ offers[t] # {} /\ session[t].known
  BY DEF Commit
<1>5. t \in doubted => session[t].error
  BY <1>4 DEF Inv, DoubtFit
<1>6. UNCHANGED <<session, pending, threshold, orders, offers, restarts, history>>
  BY DEF Commit
<1> HIDE DEF row
<1> QED
  BY <1>2, <1>3, <1>4, <1>5, <1>6, BeginsKeepsInv

LEMMA DecideKeepsInv ==
  ASSUME Inv, NEW r \in Requests, NEW a \in Requests, NEW decision \in {"approved", "rejected"},
         Decide(r, a, decision)
  PROVE  Inv'
<1> DEFINE row == [NoRequest EXCEPT !.stage = "deciding", !.kind = decision, !.approval = a,
                                    !.txn = request[a].txn, !.item = request[a].item]
<1>1. request[a].stage = "done" /\ request[a].txn \in Txns /\ offers[request[a].txn] # {}
  BY DEF Decide, Inv, ApprovalsFit, RequestsFit
<1>2. /\ row \in Request /\ row.stage = "deciding" /\ row.txn = request[a].txn
      /\ ~row.sent /\ row.approval = a /\ ~row.late
  BY <1>1 DEF NoRequest, Request, Inv, Typed
<1>3. request' = [request EXCEPT ![r] = row] /\ request[r].stage = "idle" /\ a \in pending
  BY DEF Decide
<1>4. UNCHANGED <<session, pending, threshold, orders, offers, restarts, history>>
  BY DEF Decide
<1> HIDE DEF row
<1> QED
  BY <1>1, <1>2, <1>3, <1>4, BeginsKeepsInv

-----------------------------------------------------------------------------
(* A request goes on or ends; what it decides, files or doubts fits.       *)
LEMMA MovesKeepFit ==
  ASSUME Inv, NEW r \in Requests, NEW row \in Request,
         request' = [request EXCEPT ![r] = row],
         request[r].stage \notin {"idle", "done"}, row.stage \notin {"idle", "authorising"},
         row.txn = request[r].txn, row.kind = request[r].kind, row.approval = request[r].approval,
         request[r].sent => row.sent,
         row.sent => row.stage \in {"confirming", "done"},
         row.sent \/ row.stage \in Working =>
           \/ row.kind = "approved"
           \/ Price[row.item] * Quantity[row.txn] <= row.granted
           \/ row.unread,
         row.late => row.error,
         row.error => row.stage \notin {"initing", "confirming"} /\ ~row.sent,
         row.stage \in Working /\ row.txn \in doubted => row.error,
         pending' \subseteq pending \cup {r},
         r \in pending' => row.stage = "done",
         row.approval \in pending' => row.stage # "done",
         \/ stood' = stood
         \/ /\ stood' = stood \cup {row.approval}
            /\ row.approval \in pending /\ row.approval \notin pending'
            /\ DecidesAlone(r, row.approval)
            /\ row.stage = "done" /\ ~row.sent,
         \/ doubted' = doubted
         \/ /\ doubted' = doubted \cup {row.txn}
            /\ row.stage = "done"
            /\ \A p \in Requests \ {r} : ~HoldsState(p, row.txn),
         \A t \in Txns : \/ /\ session'[t].known = session[t].known
                            /\ session'[t].error = session[t].error
                            /\ t \in doubted' => t \in doubted
                         \/ t \in doubted' => session'[t].error,
         UNCHANGED <<orders, offers>>
  PROVE  RequestsFit' /\ ApprovalsFit' /\ DoubtFit'
<1> USE DEF Inv
<1>1. request'[r] = row /\ \A p \in Requests \ {r} : request'[p] = request[p]
  BY DEF Typed
<1>2. None \notin pending /\ None \notin stood /\ pending \subseteq Requests /\ stood \subseteq Requests
  BY RequestsAssumption DEF Typed
<1>3. r \notin pending /\ r \notin stood /\ \A p \in Requests : request[p].approval # r
  BY RequestsAssumption DEF ApprovalsFit
<1>4. row.txn \in Txns /\ offers[row.txn] # {} /\ (~row.sent => r \notin orders)
  BY DEF RequestsFit
<1>5. RequestsFit'
  BY <1>1, <1>4 DEF RequestsFit
<1>6. ApprovalsFit'
  <2>1. \A a \in pending' : request'[a].stage = "done"
    BY <1>1, <1>2 DEF ApprovalsFit
  <2>2. \A p \in Requests : /\ request'[p].approval = request[p].approval
                            /\ request[p].approval # None =>
                                 request'[request[p].approval] = request[request[p].approval]
    BY <1>1, <1>3 DEF Typed, Request
  <2>3. ASSUME NEW p \in Requests PROVE request'[p].approval \in pending' => request'[p].stage # "done"
    BY <1>1, <1>3, <2>2 DEF ApprovalsFit
  <2>4. ASSUME NEW p \in Requests, request'[p].approval \in stood'
        PROVE  request'[p].stage = "done" /\ ~request'[p].sent /\ p \notin orders
    <3>1. CASE request[p].approval \in stood
      <4>1. p # r
        BY <3>1 DEF ApprovalsFit
      <4> QED
        BY <1>1, <3>1, <4>1 DEF ApprovalsFit
    <3>2. CASE request[p].approval \notin stood
      <4>1. /\ request[p].approval = row.approval /\ row.approval \in pending
            /\ DecidesAlone(r, row.approval) /\ row.stage = "done" /\ ~row.sent
        BY <2>2, <2>4, <3>2
      <4>2. p = r
        <5>1. request[p].stage \notin {"idle", "done"}
          BY <1>2, <4>1, NewRequest DEF ApprovalsFit, RequestsFit
        <5> QED
          BY <4>1, <5>1 DEF DecidesAlone
      <4> QED
        BY <1>1, <1>4, <4>1, <4>2
    <3> QED
      BY <3>1, <3>2
  <2>5. ASSUME NEW a \in stood' PROVE a \notin pending' /\ request'[a].stage = "done"
    <3>1. CASE a \in stood
      BY <1>1, <1>2, <1>3, <3>1 DEF ApprovalsFit
    <3>2. CASE a \notin stood
      BY <1>1, <1>2, <1>3, <3>2 DEF ApprovalsFit
    <3> QED
      BY <3>1, <3>2
  <2>6. \A p \in Requests : request'[p].approval # None => request'[request'[p].approval].stage = "done"
    BY <2>2 DEF ApprovalsFit
  <2> QED
    BY <2>1, <2>3, <2>4, <2>5, <2>6 DEF ApprovalsFit
<1>7. DoubtFit'
  <2>1. \A p \in Requests : /\ request'[p].late => request'[p].error
                            /\ request'[p].error =>
                                 /\ request'[p].stage \notin {"initing", "confirming"}
                                 /\ ~request'[p].sent
    BY <1>1 DEF DoubtFit
  <2>2. ASSUME NEW t \in doubted' PROVE offers[t] # {} /\ (session'[t].known => session'[t].error)
    BY <1>4 DEF DoubtFit, Typed
  <2>3. ASSUME NEW t \in doubted', NEW p \in Requests, HoldsState(p, t)'
        PROVE  request'[p].error
    <3>1. CASE p = r
      BY <1>1, <2>3, <3>1 DEF HoldsState, Working
    <3>2. CASE p # r
      <4>1. HoldsState(p, t) /\ request'[p] = request[p]
        BY <1>1, <2>3, <3>2 DEF HoldsState
      <4>2. t \in doubted
        BY <3>2, <4>1
      <4> QED
        BY <4>1, <4>2 DEF DoubtFit
    <3> QED
      BY <3>1, <3>2
  <2> QED
    BY <2>1, <2>2, <2>3 DEF DoubtFit
<1> QED
  BY <1>5, <1>6, <1>7

(* Only who works on the stored dict picks another item in it.             *)
LEMMA PicksKeepCoherentFit ==
  ASSUME Inv, NEW r \in Requests, NEW row \in Request,
         request' = [request EXCEPT ![r] = row],
         row.txn = request[r].txn, row.item = request[r].item,
         request[r].stage \in Working => row.stage \in Working /\ row.dict = request[r].dict,
         \A t \in Txns :
           /\ session'[t].known = session[t].known
           /\ session'[t].dict = session[t].dict
           /\ session'[t].order = session[t].order
           /\ \/ session'[t].selected = session[t].selected
              \/ t = row.txn /\ session[t].dict = row.dict /\ row.stage \in Working,
         UNCHANGED <<orders, crossed>>
  PROVE  CoherentFit'
<1> USE DEF Inv
<1>1. request'[r] = row /\ \A p \in Requests \ {r} : request'[p] = request[p]
  BY DEF Typed
<1>2. \A p \in Requests : request'[p].item = request[p].item
  BY <1>1
<1>3. \A p \in Requests : request[p].stage \in Working =>
        request'[p].stage \in Working /\ request'[p].txn = request[p].txn /\ request'[p].dict = request[p].dict
  BY <1>1
<1> SUFFICES ASSUME NEW t \in Txns, t \notin crossed, session[t].order \in Requests
             PROVE  /\ session'[t].known
                    /\ session'[t].dict = session'[t].order
                    /\ session'[t].order \in orders
                    /\ \/ session'[t].selected = request'[session'[t].order].item
                       \/ \E p \in Requests : /\ request'[p].stage \in Working
                                              /\ request'[p].txn = t
                                              /\ request'[p].dict = session'[t].dict
  BY DEF CoherentFit
<1>4. /\ session[t].known /\ session[t].dict = session[t].order /\ session[t].order \in orders
      /\ \/ session[t].selected = request[session[t].order].item
         \/ \E p \in Requests : /\ request[p].stage \in Working
                                /\ request[p].txn = t
                                /\ request[p].dict = session[t].dict
  BY DEF CoherentFit
<1>5. CASE session'[t].selected = session[t].selected
  BY <1>2, <1>3, <1>4, <1>5
<1>6. CASE t = row.txn /\ session[t].dict = row.dict /\ row.stage \in Working
  BY <1>1, <1>4, <1>6
<1> QED
  BY <1>5, <1>6

(* The end of a request stores its own order, none, or a crossed one.      *)
LEMMA EndsKeepCoherentFit ==
  ASSUME Inv, NEW r \in Requests, NEW row \in Request,
         request' = [request EXCEPT ![r] = row],
         row.txn = request[r].txn, row.txn \in Txns, row.item = request[r].item,
         NEW selected, NEW order, NEW error,
         session' = [session EXCEPT ![row.txn] =
           [dict |-> r, known |-> TRUE, selected |-> selected, order |-> order, error |-> error]],
         \/ order \notin Requests
         \/ order = r /\ r \in orders /\ selected = row.item
         \/ row.txn \in crossed',
         crossed \subseteq crossed', UNCHANGED orders
  PROVE  CoherentFit'
<1> USE DEF Inv
<1>1. request'[r] = row /\ \A p \in Requests \ {r} : request'[p] = request[p]
  BY DEF Typed
<1>2. \A t \in Txns \ {row.txn} : session'[t] = session[t]
  BY DEF Typed
<1>3. /\ session'[row.txn].dict = r /\ session'[row.txn].known
      /\ session'[row.txn].selected = selected /\ session'[row.txn].order = order
  BY DEF Typed
<1>4. \A p \in Requests : request'[p].item = request[p].item
  BY <1>1
<1> SUFFICES ASSUME NEW t \in Txns, t \notin crossed', session'[t].order \in Requests
             PROVE  /\ session'[t].known
                    /\ session'[t].dict = session'[t].order
                    /\ session'[t].order \in orders
                    /\ \/ session'[t].selected = request'[session'[t].order].item
                       \/ \E p \in Requests : /\ request'[p].stage \in Working
                                              /\ request'[p].txn = t
                                              /\ request'[p].dict = session'[t].dict
  BY DEF CoherentFit
<1>5. CASE t = row.txn
  BY <1>1, <1>3, <1>5
<1>6. CASE t # row.txn
  <2>1. /\ session[t].known /\ session[t].dict = session[t].order /\ session[t].order \in orders
        /\ \/ session[t].selected = request[session[t].order].item
           \/ \E p \in Requests : /\ request[p].stage \in Working
                                  /\ request[p].txn = t
                                  /\ request[p].dict = session[t].dict
    BY <1>2, <1>6 DEF CoherentFit
  <2>2. \A p \in Requests : request[p].txn = t => request'[p] = request[p]
    BY <1>1, <1>6
  <2> QED
    BY <1>2, <1>4, <1>6, <2>1, <2>2
<1> QED
  BY <1>5, <1>6

-----------------------------------------------------------------------------
(* A session that differs in what is selected. *)
LEMMA PickMoves ==
  ASSUME Inv, NEW t \in Txns, NEW i \in Chosen, NEW dict, Picks(t, i, dict)
  PROVE  /\ session' \in [Txns -> Stored]
         /\ \A u \in Txns :
              /\ session'[u].known = session[u].known
              /\ session'[u].error = session[u].error
              /\ session'[u].dict = session[u].dict
              /\ session'[u].order = session[u].order
              /\ session'[u].selected = session[u].selected \/ (u = t /\ session[u].dict = dict)
BY DEF Inv, Typed, Picks, Stored

(* The threshold decides: the request is filed, or picks its item.         *)
LEMMA AuthorisedKeepsInv ==
  ASSUME Inv, NEW r \in Requests, Authorised(r)
  PROVE  Inv'
<1> DEFINE q == request[r]
<1>1. /\ q \in Request /\ q.stage = "authorising" /\ q.kind = "commit" /\ q.item \in Items
      /\ q.user \in Users /\ q.approval = None /\ ~q.sent /\ q.txn \in Txns
      /\ q.late => q.error
      /\ q.txn \in doubted => q.error
  BY DEF Authorised, Inv, Typed, RequestsFit, DoubtFit, HoldsState
<1>2. PICK unread \in BOOLEAN :
        IF Over(q.txn, q.item, Limit(q.user, unread))
        THEN /\ pending' = pending \cup {r}
             /\ request' = [request EXCEPT ![r] =
                  [[q EXCEPT !.granted = Granted(q.user), !.unread = unread]
                     EXCEPT !.stage = "done", !.reply = "pending_approval"]]
             /\ UNCHANGED session
        ELSE /\ Picks(q.txn, q.item, q.dict)
             /\ request' = [request EXCEPT ![r] =
                  [[q EXCEPT !.granted = Granted(q.user), !.unread = unread] EXCEPT !.stage = "selecting"]]
             /\ UNCHANGED pending
  BY DEF Authorised
<1>3. UNCHANGED <<threshold, orders, offers, stood, doubted, crossed>>
  BY DEF Authorised, history
<1> DEFINE granted == Granted(q.user)
           limit   == Limit(q.user, unread)
           read    == [q EXCEPT !.granted = granted, !.unread = unread]
<1>4. granted \in Nat /\ (limit = granted \/ unread)
  <2>1. threshold[q.user] \in Nat
    BY <1>1 DEF Inv, Typed
  <2> QED
    BY <2>1 DEF Granted, Limit
<1>5. None \notin pending /\ pending \subseteq Requests
  BY RequestsAssumption DEF Inv, Typed
<1>6. CASE Over(q.txn, q.item, limit)
  <2> DEFINE row == [read EXCEPT !.stage = "done", !.reply = "pending_approval"]
  <2>1. pending' = pending \cup {r} /\ session' = session /\ request' = [request EXCEPT ![r] = row]
    BY <1>2, <1>6
  <2>2. /\ row \in Request /\ row.stage = "done" /\ ~row.sent /\ row.error = q.error
        /\ row.late = q.late /\ row.txn = q.txn /\ row.approval = None /\ row.kind = q.kind
        /\ row.item = q.item
    <3>1. row \in Request
      BY <1>1, <1>4 DEF Request
    <3>2. row.stage = "done" /\ ~row.sent /\ row.error = q.error /\ row.late = q.late
      BY <1>1, <1>4 DEF Request
    <3>3. row.txn = q.txn /\ row.approval = None /\ row.kind = q.kind /\ row.item = q.item
      BY <1>1, <1>4 DEF Request
    <3> QED
      BY <3>1, <3>2, <3>3
  <2> HIDE DEF row
  <2>3. Typed'
    BY <1>3, <2>1, <2>2 DEF Inv, Typed
  <2>4. RequestsFit' /\ ApprovalsFit' /\ DoubtFit'
    BY RequestsAssumption, <1>1, <1>3, <1>5, <2>1, <2>2, MovesKeepFit DEF Working
  <2>5. CoherentFit'
    BY <1>1, <1>3, <2>1, <2>2, PicksKeepCoherentFit DEF Working
  <2> QED
    BY <2>3, <2>4, <2>5 DEF Inv
<1>7. CASE ~Over(q.txn, q.item, limit)
  <2> DEFINE row == [read EXCEPT !.stage = "selecting"]
  <2>1. pending' = pending /\ Picks(q.txn, q.item, q.dict) /\ request' = [request EXCEPT ![r] = row]
    BY <1>2, <1>7
  <2>2. /\ row \in Request /\ row.stage = "selecting" /\ ~row.sent /\ row.error = q.error
        /\ row.late = q.late /\ row.txn = q.txn /\ row.approval = None /\ row.kind = q.kind
        /\ row.item = q.item /\ row.granted = granted /\ row.unread = unread /\ row.dict = q.dict
    <3>1. row \in Request
      BY <1>1, <1>4 DEF Request
    <3>2. row.stage = "selecting" /\ row.granted = granted /\ row.unread = unread
      BY <1>1, <1>4 DEF Request
    <3> QED
      BY <1>1, <1>4, <3>1, <3>2 DEF Request
  <2>3. Price[row.item] * Quantity[row.txn] <= row.granted \/ row.unread
    <3>1. Price[q.item] \in Nat /\ Quantity[q.txn] \in Nat
      BY <1>1, PricesAssumption
    <3> QED
      BY <1>4, <1>7, <2>2, <3>1 DEF Over
  <2>4. q.item \in Chosen
    BY <1>1 DEF Chosen
  <2> HIDE DEF row
  <2>5. Typed'
    BY <1>1, <1>3, <2>1, <2>2, <2>4, PickMoves DEF Inv, Typed
  <2>6. RequestsFit' /\ ApprovalsFit' /\ DoubtFit'
    <3>1. \A t \in Txns : session'[t].known = session[t].known /\ session'[t].error = session[t].error
      BY <1>1, <2>1, <2>4, PickMoves
    <3>2. r \notin pending'
      BY <1>1, <2>1 DEF Inv, ApprovalsFit
    <3> QED
      BY <1>1, <1>3, <1>5, <2>1, <2>2, <2>3, <3>1, <3>2, MovesKeepFit
  <2>7. CoherentFit'
    <3>1. \A t \in Txns :
            /\ session'[t].known = session[t].known
            /\ session'[t].dict = session[t].dict
            /\ session'[t].order = session[t].order
            /\ session'[t].selected = session[t].selected \/ (t = q.txn /\ session[t].dict = q.dict)
      BY <1>1, <2>1, <2>4, PickMoves
    <3>2. row.stage \in Working /\ q.stage \notin Working
      BY <1>1, <2>2 DEF Working
    <3> QED
      BY <1>3, <2>1, <2>2, <3>1, <3>2, PicksKeepCoherentFit
  <2> QED
    BY <2>5, <2>6, <2>7 DEF Inv
<1> QED
  BY <1>6, <1>7

LEMMA RejectedKeepsInv ==
  ASSUME Inv, NEW r \in Requests, Rejected(r)
  PROVE  Inv'
<1> DEFINE q == request[r]
           row == [q EXCEPT !.stage = "done", !.reply = "cancelled"]
<1>1. q \in Request /\ q.stage = "deciding" /\ ~q.sent /\ q.txn \in Txns /\ (q.late => q.error)
  BY DEF Rejected, Inv, Typed, RequestsFit, DoubtFit
<1>2. /\ row \in Request /\ row.stage = "done" /\ ~row.sent /\ row.error = q.error
      /\ row.late = q.late /\ row.txn = q.txn /\ row.approval = q.approval /\ row.kind = q.kind
      /\ row.item = q.item
  BY <1>1 DEF Request
<1>3. /\ request' = [request EXCEPT ![r] = row]
      /\ pending' = pending \ {q.approval}
      /\ \/ stood' = stood
         \/ stood' = stood \cup {q.approval} /\ q.approval \in pending /\ DecidesAlone(r, q.approval)
      /\ UNCHANGED <<session, threshold, orders, offers, doubted, crossed>>
  BY DEF Rejected, Popped
<1> HIDE DEF row
<1>4. Typed'
  BY <1>2, <1>3 DEF Inv, Typed
<1>5. RequestsFit' /\ ApprovalsFit' /\ DoubtFit'
  BY <1>1, <1>2, <1>3, MovesKeepFit DEF Working
<1>6. CoherentFit'
  BY <1>1, <1>2, <1>3, PicksKeepCoherentFit DEF Working
<1> QED
  BY <1>4, <1>5, <1>6 DEF Inv

(* An approval goes on with the stored dict, or invents an order.          *)
LEMMA ApprovedKeepsInv ==
  ASSUME Inv, NEW r \in Requests, Approved(r)
  PROVE  Inv'
<1> DEFINE q == request[r]
           t == q.txn
<1>1. /\ q \in Request /\ q.stage = "deciding" /\ q.kind = "approved" /\ ~q.sent /\ t \in Txns
      /\ q.late => q.error
  BY DEF Approved, Inv, Typed, RequestsFit, DoubtFit
<1>2. UNCHANGED <<threshold, orders, offers, stood, doubted, crossed>>
  BY DEF Approved, history
<1>3. r \notin pending /\ q.item \in Chosen
  BY <1>1 DEF Inv, ApprovalsFit, Request, Chosen
<1>4. CASE session[t].known
  <2> DEFINE row == [q EXCEPT !.stage = "selecting", !.dict = session[t].dict,
                              !.error = session[t].error, !.late = t \in doubted]
  <2>1. pending' = pending /\ Picks(t, q.item, session[t].dict) /\ request' = [request EXCEPT ![r] = row]
    BY <1>4 DEF Approved
  <2>2. session[t].dict \in Requests \cup {None} /\ session[t].error \in BOOLEAN
    BY <1>1 DEF Inv, Typed, Stored
  <2>3. /\ row \in Request /\ row.stage = "selecting" /\ ~row.sent /\ row.error = session[t].error
        /\ row.late = (t \in doubted) /\ row.txn = t /\ row.approval = q.approval
        /\ row.kind = "approved" /\ row.item = q.item /\ row.dict = session[t].dict
    <3> DEFINE next(late) == [q EXCEPT !.stage = "selecting", !.dict = session[t].dict,
                                       !.error = session[t].error, !.late = late]
    <3>1. ASSUME NEW late \in BOOLEAN
          PROVE  /\ next(late) \in Request /\ next(late).late = late
                 /\ next(late).stage = "selecting" /\ ~next(late).sent
                 /\ next(late).error = session[t].error /\ next(late).dict = session[t].dict
                 /\ next(late).txn = t /\ next(late).approval = q.approval
                 /\ next(late).kind = "approved" /\ next(late).item = q.item
      <4>1. next(late) \in Request
        BY <1>1, <2>2 DEF Request
      <4>2. /\ next(late).late = late /\ next(late).stage = "selecting" /\ ~next(late).sent
            /\ next(late).error = session[t].error /\ next(late).dict = session[t].dict
        BY <1>1, <2>2 DEF Request
      <4>3. /\ next(late).txn = t /\ next(late).approval = q.approval
            /\ next(late).kind = "approved" /\ next(late).item = q.item
        BY <1>1, <2>2 DEF Request
      <4> QED
        BY <4>1, <4>2, <4>3
    <3>2. row = next(t \in doubted) /\ (t \in doubted) \in BOOLEAN
      OBVIOUS
    <3> HIDE DEF row, next
    <3> QED
      BY <3>1, <3>2
  <2>4. t \in doubted => session[t].error
    BY <1>4 DEF Inv, DoubtFit
  <2> HIDE DEF row
  <2>5. Typed'
    BY <1>1, <1>2, <1>3, <2>1, <2>3, PickMoves DEF Inv, Typed
  <2>6. RequestsFit' /\ ApprovalsFit' /\ DoubtFit'
    <3>1. \A u \in Txns : session'[u].known = session[u].known /\ session'[u].error = session[u].error
      BY <1>1, <1>3, <2>1, PickMoves
    <3> QED
      BY <1>1, <1>2, <1>3, <2>1, <2>3, <2>4, <3>1, MovesKeepFit
  <2>7. CoherentFit'
    <3>1. \A u \in Txns :
            /\ session'[u].known = session[u].known
            /\ session'[u].dict = session[u].dict
            /\ session'[u].order = session[u].order
            /\ \/ session'[u].selected = session[u].selected
               \/ u = t /\ session[u].dict = session[t].dict
      BY <1>1, <1>3, <2>1, PickMoves
    <3>2. row.stage \in Working /\ q.stage \notin Working
      BY <1>1, <2>3 DEF Working
    <3> QED
      BY <1>2, <2>1, <2>3, <3>1, <3>2, PicksKeepCoherentFit
  <2> QED
    BY <2>5, <2>6, <2>7 DEF Inv
<1>5. CASE ~session[t].known
  <2> DEFINE row == [q EXCEPT !.stage = "done", !.reply = "invented"]
  <2>1. pending' = pending \ {q.approval} /\ session' = session /\ request' = [request EXCEPT ![r] = row]
    BY <1>5 DEF Approved, Popped
  <2>2. /\ row \in Request /\ row.stage = "done" /\ ~row.sent /\ row.error = q.error
        /\ row.late = q.late /\ row.txn = t /\ row.approval = q.approval
        /\ row.kind = "approved" /\ row.item = q.item
    BY <1>1 DEF Request
  <2> HIDE DEF row
  <2>3. Typed'
    BY <1>2, <2>1, <2>2 DEF Inv, Typed
  <2>4. RequestsFit' /\ ApprovalsFit' /\ DoubtFit'
    BY <1>1, <1>2, <2>1, <2>2, MovesKeepFit DEF Working
  <2>5. CoherentFit'
    BY <1>1, <1>2, <2>1, <2>2, PicksKeepCoherentFit DEF Working
  <2> QED
    BY <2>3, <2>4, <2>5 DEF Inv
<1> QED
  BY <1>4, <1>5

-----------------------------------------------------------------------------
(* The graph goes on. *)
LEMMA AdvanceKeepsInv ==
  ASSUME Inv, NEW r \in Requests, NEW stage \in {"initing", "confirming"}, Advance(r, stage),
         request[r].stage \in {"selecting", "initing"}, ~request[r].error
  PROVE  Inv'
<1> DEFINE q == request[r]
           row == [q EXCEPT !.stage = stage, !.sent = (stage = "confirming")]
<1>1. /\ q \in Request /\ ~q.sent /\ ~q.late /\ q.txn \in Txns /\ q.stage \notin {"idle", "done"}
      /\ q.stage \in Working /\ q.txn \notin doubted
      /\ \/ q.kind = "approved"
         \/ Price[q.item] * Quantity[q.txn] <= q.granted
         \/ q.unread
  BY DEF Inv, Typed, RequestsFit, DoubtFit, HoldsState, Working
<1>2. /\ row \in Request /\ row.stage = stage /\ row.error = q.error /\ row.late = q.late
      /\ row.txn = q.txn /\ row.approval = q.approval /\ row.kind = q.kind /\ row.item = q.item
      /\ row.granted = q.granted /\ row.unread = q.unread /\ row.dict = q.dict
      /\ row.sent => stage = "confirming"
  <2>1. CASE stage = "confirming"
    <3>1. row = [q EXCEPT !.stage = "confirming", !.sent = TRUE]
      BY <2>1
    <3> HIDE DEF row
    <3> QED
      BY <1>1, <2>1, <3>1 DEF Request
  <2>2. CASE stage = "initing"
    <3>1. row = [q EXCEPT !.stage = "initing", !.sent = FALSE]
      BY <2>2
    <3> HIDE DEF row
    <3> QED
      BY <1>1, <2>2, <3>1 DEF Request
  <2> QED
    BY <2>1, <2>2
<1>3. /\ request' = [request EXCEPT ![r] = row]
      /\ UNCHANGED <<session, pending, threshold, orders, offers, stood, doubted, crossed>>
  BY DEF Advance, history
<1> HIDE DEF row
<1>4. Typed'
  BY <1>2, <1>3 DEF Inv, Typed
<1>5. stage \in Working
  BY DEF Working
<1>6. RequestsFit' /\ ApprovalsFit' /\ DoubtFit'
  <2>1. r \notin pending
    BY <1>1 DEF Inv, ApprovalsFit
  <2> QED
    BY <1>1, <1>2, <1>3, <1>5, <2>1, MovesKeepFit
<1>7. CoherentFit'
  BY <1>1, <1>2, <1>3, <1>5, PicksKeepCoherentFit
<1> QED
  BY <1>4, <1>6, <1>7 DEF Inv

(* The graph is over, and its result is stored. *)
LEMMA EndsKeepsInv ==
  ASSUME Inv, NEW r \in Requests, request[r].stage \in Working,
         NEW selected \in Items \cup {None}, NEW order \in Requests \cup {"mock"}, NEW error \in BOOLEAN,
         NEW reply \in {"live", "mock"}, Ends(r, selected, order, error, reply),
         \/ order = "mock"
         \/ order = r /\ r \in orders /\ selected = request[r].item
         \/ request[r].txn \in crossed',
         \/ doubted' = doubted /\ (request[r].txn \in doubted => error)
         \/ /\ doubted' = doubted \cup {request[r].txn} /\ error
            /\ \A p \in Requests \ {r} : ~HoldsState(p, request[r].txn),
         crossed \subseteq crossed'
  PROVE  Inv'
<1> DEFINE q == request[r]
           row == [q EXCEPT !.stage = "done", !.reply = reply]
<1>1. /\ q \in Request /\ q.txn \in Txns /\ q.stage \notin {"idle", "done"}
      /\ q.late => q.error
      /\ q.error => ~q.sent
      /\ \/ q.kind = "approved"
         \/ Price[q.item] * Quantity[q.txn] <= q.granted
         \/ q.unread
  BY DEF Inv, Typed, RequestsFit, DoubtFit, Working
<1>2. /\ row \in Request /\ row.stage = "done" /\ row.sent = q.sent /\ row.error = q.error
      /\ row.late = q.late /\ row.txn = q.txn /\ row.approval = q.approval /\ row.kind = q.kind
      /\ row.item = q.item /\ row.granted = q.granted /\ row.unread = q.unread
  <2>1. row \in Request
    BY <1>1 DEF Request
  <2>2. row.stage = "done" /\ row.sent = q.sent /\ row.error = q.error /\ row.late = q.late
    BY <1>1 DEF Request
  <2>3. row.txn = q.txn /\ row.approval = q.approval /\ row.kind = q.kind
    BY <1>1 DEF Request
  <2>4. row.item = q.item /\ row.granted = q.granted /\ row.unread = q.unread
    BY <1>1 DEF Request
  <2> QED
    BY <2>1, <2>2, <2>3, <2>4
<1>3. /\ request' = [request EXCEPT ![r] = row]
      /\ pending' = pending \ {q.approval}
      /\ session' = [session EXCEPT ![q.txn] =
           [dict |-> r, known |-> TRUE, selected |-> selected, order |-> order, error |-> error]]
      /\ UNCHANGED <<threshold, orders, offers, stood>>
  BY DEF Ends, Popped
<1> HIDE DEF row
<1>4. Typed'
  <2>1. [dict |-> r, known |-> TRUE, selected |-> selected, order |-> order, error |-> error] \in Stored
    BY DEF Chosen, Stored
  <2> QED
    BY <1>1, <1>2, <1>3, <2>1 DEF Inv, Typed
<1>5. RequestsFit' /\ ApprovalsFit' /\ DoubtFit'
  <2>1. \A t \in Txns \ {q.txn} : session'[t] = session[t]
    BY <1>3 DEF Inv, Typed
  <2>2. session'[q.txn].error = error
    BY <1>1, <1>3 DEF Inv, Typed
  <2>3. \A t \in Txns : \/ /\ session'[t].known = session[t].known
                           /\ session'[t].error = session[t].error
                           /\ t \in doubted' => t \in doubted
                        \/ t \in doubted' => session'[t].error
    BY <2>1, <2>2
  <2>4. row.stage \notin Working
    BY <1>2 DEF Working
  <2>5. r \notin pending
    BY <1>1 DEF Inv, ApprovalsFit
  <2> QED
    BY <1>1, <1>2, <1>3, <2>3, <2>4, <2>5, MovesKeepFit
<1>6. CoherentFit'
  BY RequestsAssumption, <1>1, <1>2, <1>3, EndsKeepCoherentFit
<1> QED
  BY <1>4, <1>5, <1>6 DEF Inv

LEMMA ErrorKeepsInv ==
  ASSUME Inv, NEW r \in Requests, request[r].stage \in Working, EndsInError(r)
  PROVE  Inv'
<1>1. request[r].item \in Items \cup {None}
  BY DEF Inv, Typed, Request
<1> QED
  BY <1>1, EndsKeepsInv DEF EndsInError, Fallback

LEMMA SelectKeepsInv ==
  ASSUME Inv, NEW r \in Requests, Select(r)
  PROVE  Inv'
<1>1. CASE EndsInError(r)
  BY <1>1, ErrorKeepsInv DEF Select, Working
<1>2. CASE ~request[r].error /\ Advance(r, "initing")
  BY <1>2, AdvanceKeepsInv DEF Select
<1> QED
  BY <1>1, <1>2 DEF Select, Skips

LEMMA SendInitKeepsInv ==
  ASSUME Inv, NEW r \in Requests, SendInit(r)
  PROVE  Inv'
<1>1. CASE EndsInError(r)
  BY <1>1, ErrorKeepsInv DEF SendInit, Working
<1>2. CASE Advance(r, "confirming")
  <2>1. ~request[r].error
    BY DEF SendInit, Inv, DoubtFit
  <2> QED
    BY <1>2, <2>1, AdvanceKeepsInv DEF SendInit
<1> QED
  BY <1>1, <1>2 DEF SendInit

(* Who takes an on_confirm has a state without an error.                   *)
LEMMA OnConfirmKeepsInv ==
  ASSUME Inv, NEW r \in Requests, NEW o \in Requests, OnConfirm(r, o)
  PROVE  Inv'
<1>1. /\ request[r].item \in Items \cup {None}
      /\ request[r].stage \in Working
      /\ o \in orders /\ Ends(r, request[r].item, o, FALSE, "live")
      /\ doubted' = doubted
      /\ crossed' = IF o = r THEN crossed ELSE crossed \cup {request[r].txn}
  BY DEF OnConfirm, Inv, Typed, Request, Working
<1>2. request[r].txn \notin doubted
  BY DEF OnConfirm, Inv, DoubtFit, HoldsState, Working
<1> QED
  BY <1>1, <1>2, EndsKeepsInv

LEMMA CrashKeepsInv ==
  ASSUME Inv, NEW r \in Requests, AgentCrashes(r)
  PROVE  Inv'
<1>1. PICK p \in Requests : Ends(r, request[p].item, "mock", request[r].error, "mock")
  BY DEF AgentCrashes, Fallback
<1>2. /\ request[p].item \in Items \cup {None} /\ request[r].error \in BOOLEAN
      /\ request[r].stage \in Working /\ doubted' = doubted /\ crossed' = crossed
  BY DEF AgentCrashes, Inv, Typed, Request
<1>3. request[r].txn \in doubted => request[r].error
  BY <1>2 DEF Inv, DoubtFit, HoldsState
<1> QED
  BY <1>1, <1>2, <1>3, EndsKeepsInv

-----------------------------------------------------------------------------
(* The seller, /compare, the sweeper, the admin, the process.              *)
LEMMA SellerOrdersKeepsInv ==
  ASSUME Inv, NEW r \in Requests, SellerOrders(r)
  PROVE  Inv'
<1> USE DEF Inv
<1>1. /\ request[r].sent /\ orders' = orders \cup {r}
      /\ UNCHANGED <<session, pending, threshold, request, offers, stood, doubted, crossed>>
  BY DEF SellerOrders, history
<1>2. Typed'
  BY <1>1 DEF Typed
<1>3. RequestsFit'
  BY <1>1 DEF RequestsFit
<1>4. ApprovalsFit'
  BY <1>1 DEF ApprovalsFit
<1>5. DoubtFit'
  BY <1>1 DEF DoubtFit, HoldsState
<1>6. CoherentFit'
  BY <1>1 DEF CoherentFit
<1> QED
  BY <1>2, <1>3, <1>4, <1>5, <1>6

(* The stored dict is forgotten, or is made anew by /compare.              *)
LEMMA ForgottenKeepsInv ==
  ASSUME Inv, NEW t \in Txns, NEW dict \in Stored, dict.order = "none",
         session' = [session EXCEPT ![t] = dict],
         offers' \in [Txns -> SUBSET Items],
         \A u \in Txns : offers[u] # {} => offers'[u] # {},
         dict.known => offers[t] = {},
         UNCHANGED <<pending, threshold, request, orders, history>>
  PROVE  Inv'
<1> USE DEF Inv
<1>1. session'[t] = dict /\ \A u \in Txns \ {t} : session'[u] = session[u]
  BY DEF Typed
<1>2. UNCHANGED <<stood, doubted, crossed>>
  BY DEF history
<1>3. Typed'
  <2>1. session' \in [Txns -> Stored]
    BY DEF Typed
  <2> QED
    BY <1>2, <2>1 DEF Typed
<1>4. RequestsFit'
  BY DEF RequestsFit
<1>5. ApprovalsFit'
  BY <1>2 DEF ApprovalsFit
<1>6. DoubtFit'
  BY <1>1, <1>2 DEF DoubtFit, HoldsState, Typed
<1>7. CoherentFit'
  <2> SUFFICES ASSUME NEW u \in Txns, u \notin crossed, session'[u].order \in Requests
               PROVE  /\ session'[u].known
                      /\ session'[u].dict = session'[u].order
                      /\ session'[u].order \in orders
                      /\ \/ session'[u].selected = request[session'[u].order].item
                         \/ \E r \in Requests : /\ request[r].stage \in Working
                                                /\ request[r].txn = u
                                                /\ request[r].dict = session'[u].dict
    BY <1>2 DEF CoherentFit
  <2>1. u # t
    BY RequestsAssumption, <1>1
  <2> QED
    BY <1>1, <2>1 DEF CoherentFit
<1> QED
  BY <1>3, <1>4, <1>5, <1>6, <1>7

LEMMA CompareKeepsInv ==
  ASSUME Inv, NEW t \in Txns, NEW found \in SUBSET Items \ {{}}, Compare(t, found)
  PROVE  Inv'
<1> DEFINE dict == [NoSession EXCEPT !.known = TRUE, !.selected = Cheapest(found)]
<1>1. dict \in Stored /\ dict.order = "none"
  <2>1. Cheapest(found) \in Chosen
    BY DEF Chosen
  <2> QED
    BY <2>1 DEF NoSession, Stored
<1>2. offers' \in [Txns -> SUBSET Items] /\ \A u \in Txns : offers[u] # {} => offers'[u] # {}
  BY DEF Compare, Inv, Typed
<1>3. /\ session' = [session EXCEPT ![t] = dict]
      /\ offers[t] = {}
      /\ UNCHANGED <<pending, threshold, request, orders, history>>
  BY DEF Compare
<1> HIDE DEF dict
<1> QED
  BY <1>1, <1>2, <1>3, ForgottenKeepsInv

LEMMA SweepKeepsInv ==
  ASSUME Inv, NEW t \in Txns, Sweep(t)
  PROVE  Inv'
<1>1. NoSession \in Stored /\ NoSession.order = "none" /\ ~NoSession.known
  BY DEF NoSession, Stored, Chosen
<1>2. /\ session' = [session EXCEPT ![t] = NoSession]
      /\ UNCHANGED <<pending, threshold, request, orders, offers, history>>
  BY DEF Sweep
<1>3. offers' \in [Txns -> SUBSET Items] /\ \A u \in Txns : offers[u] # {} => offers'[u] # {}
  BY <1>2 DEF Inv, Typed
<1> QED
  BY <1>1, <1>2, <1>3, ForgottenKeepsInv

LEMMA UpdateUserKeepsInv ==
  ASSUME Inv, NEW u \in Users, NEW x \in Thresholds, UpdateUser(u, x)
  PROVE  Inv'
<1> USE DEF Inv
<1>1. /\ threshold' = [threshold EXCEPT ![u] = x]
      /\ UNCHANGED <<session, pending, request, orders, offers, stood, doubted, crossed>>
  BY DEF UpdateUser, history
<1>2. Typed'
  BY ThresholdsAssumption, <1>1 DEF Typed
<1>3. RequestsFit' /\ ApprovalsFit'
  BY <1>1 DEF RequestsFit, ApprovalsFit
<1>4. DoubtFit'
  BY <1>1 DEF DoubtFit, HoldsState
<1>5. CoherentFit'
  BY <1>1 DEF CoherentFit
<1> QED
  BY <1>2, <1>3, <1>4, <1>5

LEMMA RestartKeepsInv ==
  ASSUME Inv, Restart
  PROVE  Inv'
<1> USE DEF Inv
<1>1. /\ session' = [t \in Txns |-> NoSession]
      /\ pending' = {}
      /\ UNCHANGED <<threshold, orders, offers, stood, doubted, crossed>>
  BY DEF Restart, history
<1>2. /\ NoSession \in Stored
      /\ ~NoSession.known /\ NoSession.order = "none"
  BY DEF NoSession, Chosen, Stored
<1>3. request' \in [Requests -> Request]
  <2>1. \A r \in Requests : [request[r] EXCEPT !.stage = "done"] \in Request
    BY DEF Typed, Request
  <2> QED
    BY <2>1 DEF Restart, Typed
<1>4. \A r \in Requests :
        /\ request[r].stage = "idle" => request'[r] = request[r]
        /\ request[r].stage # "idle" => request'[r].stage = "done"
        /\ request'[r].txn = request[r].txn /\ request'[r].kind = request[r].kind
        /\ request'[r].item = request[r].item
        /\ request'[r].granted = request[r].granted /\ request'[r].unread = request[r].unread
        /\ request'[r].approval = request[r].approval /\ request'[r].sent = request[r].sent
        /\ request'[r].late = request[r].late /\ request'[r].error = request[r].error
  BY DEF Restart, Typed, Request
<1>5. Typed'
  BY <1>1, <1>2, <1>3 DEF Typed
<1>6. RequestsFit'
  BY <1>1, <1>4 DEF RequestsFit, Working
<1>7. ApprovalsFit'
  <2>1. \A r \in Requests : request[r].approval # None => request[r].approval \in Requests
    BY DEF Typed, Request
  <2>2. \A r \in Requests : request[r].stage = "done" => request'[r].stage = "done"
    BY <1>4
  <2>3. \A r \in Requests : request[r].approval # None => request[request[r].approval].stage = "done"
    BY DEF ApprovalsFit
  <2>4. \A r \in Requests : request'[r].approval # None => request'[request'[r].approval].stage = "done"
    BY <1>4, <2>1, <2>2, <2>3
  <2>5. \A a \in stood : request'[a].stage = "done"
    BY <2>2 DEF Typed, ApprovalsFit
  <2> QED
    BY <1>1, <1>4, <2>2, <2>4, <2>5 DEF ApprovalsFit
<1>8. DoubtFit'
  BY <1>1, <1>2, <1>4, NewRequest DEF DoubtFit, HoldsState, Working, Typed, RequestsFit
<1>9. CoherentFit'
  BY RequestsAssumption, <1>1, <1>2 DEF CoherentFit
<1> QED
  BY <1>5, <1>6, <1>7, <1>8, <1>9

-----------------------------------------------------------------------------
LEMMA InvStep == Inv /\ [Next]_vars => Inv'
<1> SUFFICES ASSUME Inv, [Next]_vars PROVE Inv'
  OBVIOUS
<1>1. CASE UNCHANGED vars
  BY <1>1 DEF vars, history, Inv, Typed, RequestsFit, ApprovalsFit, DoubtFit, CoherentFit, HoldsState
<1>2. CASE \E t \in Txns : \/ \E found \in SUBSET Items \ {{}} : Compare(t, found)
                           \/ Sweep(t)
  BY <1>2, CompareKeepsInv, SweepKeepsInv
<1>3. CASE \E u \in Users, x \in Thresholds : UpdateUser(u, x)
  BY <1>3, UpdateUserKeepsInv
<1>4. ASSUME NEW r \in Requests, \E t \in Txns, i \in Items, u \in Users : Commit(r, t, i, u)
      PROVE  Inv'
  BY <1>4, CommitKeepsInv
<1>5. ASSUME NEW r \in Requests,
             \E a \in Requests, decision \in {"approved", "rejected"} : Decide(r, a, decision)
      PROVE  Inv'
  BY <1>5, DecideKeepsInv
<1>6. ASSUME NEW r \in Requests, Authorised(r) \/ Rejected(r) \/ Approved(r)
      PROVE  Inv'
  BY <1>6, AuthorisedKeepsInv, RejectedKeepsInv, ApprovedKeepsInv
<1>7. ASSUME NEW r \in Requests, Select(r) \/ SendInit(r) \/ SellerOrders(r)
      PROVE  Inv'
  BY <1>7, SelectKeepsInv, SendInitKeepsInv, SellerOrdersKeepsInv
<1>8. ASSUME NEW r \in Requests, NEW o \in Requests, OnConfirm(r, o)
      PROVE  Inv'
  BY <1>8, OnConfirmKeepsInv
<1>9. ASSUME NEW r \in Requests, ConfirmFails(r)
      PROVE  Inv'
  BY <1>9, ErrorKeepsInv DEF ConfirmFails, Working
<1>10. ASSUME NEW r \in Requests, AgentCrashes(r)
       PROVE  Inv'
  BY <1>10, CrashKeepsInv
<1>11. CASE Restart
  BY <1>11, RestartKeepsInv
<1> QED
  BY <1>1, <1>2, <1>3, <1>4, <1>5, <1>6, <1>7, <1>8, <1>9, <1>10, <1>11 DEF Next

LEMMA Invariant == Spec => []Inv
<1> QED
  BY InitInv, InvStep, PTL DEF Spec

-----------------------------------------------------------------------------
(* The limits of the first agent's autonomy: an order above the threshold  *)
(* that held for its user when its commit was checked comes from an        *)
(* approval, or the lookup of that threshold failed; whatever requests     *)
(* overlap and however thresholds move meanwhile (server.py, commit).      *)
THEOREM LargeOrdersAreApproved == Spec => []LargeIsApproved
<1>1. Inv => LargeIsApproved
  BY DEF Inv, Typed, RequestsFit, LargeIsApproved
<1> QED
  BY <1>1, Invariant, PTL

(* A rejection that no other decision overlaps stands: nothing that was    *)
(* queued, retried or resumed orders through it (server.py,                *)
(* decide_approval).                                                       *)
THEOREM RejectionsStand == Spec => []RejectionStands
<1>1. Inv => RejectionStands
  BY DEF Inv, Typed, ApprovalsFit, RejectionStands
<1> QED
  BY <1>1, Invariant, PTL

(* After a request ended in an error while no other held the state, no     *)
(* request that took the state later orders (nodes.py, send_select).       *)
THEOREM DoubtsAreFinal == Spec => []DoubtIsFinal
<1>1. Inv => DoubtIsFinal
  BY DEF Inv, Typed, RequestsFit, DoubtFit, DoubtIsFinal
<1> QED
  BY <1>1, Invariant, PTL

(* Between requests a session shows an order of the seller with the item   *)
(* that was ordered, if every on_confirm met its own request (session.py,  *)
(* server.py, commit).                                                     *)
THEOREM SessionsAreCoherent == Spec => []SessionIsCoherent
<1>1. Inv => SessionIsCoherent
  <2> SUFFICES ASSUME Inv, NEW t \in Txns, t \notin crossed, session[t].order \in Requests,
                      \A r \in Requests : ~HoldsState(r, t)
               PROVE  /\ session[t].order \in orders
                      /\ request[session[t].order].item = session[t].selected
    BY DEF SessionIsCoherent
  <2>1. \A r \in Requests : request[r].txn = t => request[r].stage \notin Working
    BY DEF HoldsState
  <2> QED
    BY <2>1 DEF Inv, CoherentFit
<1> QED
  BY <1>1, Invariant, PTL
=============================================================================

-------------------------- MODULE MultiNetworkSearch --------------------------
(***************************************************************************)
(* The discovery engine (services/discovery_engine/src): a search is sent  *)
(* to every network at once, each call behind the network's breaker and    *)
(* its own timeout; when the last call has ended, the answers are merged.  *)
(* Searches overlap and share the breakers, which are guarded by a lock    *)
(* for one transition at a time, not across a call.                        *)
(***************************************************************************)
EXTENDS Catalog

CONSTANTS
  Searches,         \* searches, each made once
  FailureThreshold, \* failures that open a closed circuit
  Answers           \* Answers[n]: lists of items network n may answer with

ASSUME FailureThresholdAssumption == FailureThreshold \in Nat \ {0}
ASSUME AnswersAssumption ==
  IsFiniteSet(Networks) /\ \A n \in Networks : Answers[n] \subseteq Seq(Items)

VARIABLES
  breaker,  \* breaker[n]: state, failure_count, recovery timeout elapsed
  search,   \* search[s]: "new", "out", "done", "cancelled"
  result    \* result[s][n]: status and items of the call to network n

searchVars == <<breaker, search, result>>

CircuitStates == {"closed", "open", "half_open"}

(* "none" before the call, "calling" while it is out.  "error" stands for  *)
(* the statuses of the ways a call fails (timeout, upstream, connection,   *)
(* parsing, unknown), which are only reported.                             *)
Statuses == {"none", "calling", "ok", "error", "circuit_open"}

NetworkResult == [status : Statuses, items : Seq(Items)]

SearchTypeOK ==
  /\ breaker \in [Networks -> [state : CircuitStates, count : Nat, elapsed : BOOLEAN]]
  /\ search \in [Searches -> {"new", "out", "done", "cancelled"}]
  /\ result \in [Searches -> [Networks -> NetworkResult]]

SearchInit ==
  /\ breaker = [n \in Networks |-> [state |-> "closed", count |-> 0, elapsed |-> FALSE]]
  /\ search = [s \in Searches |-> "new"]
  /\ result = [s \in Searches |-> [n \in Networks |-> [status |-> "none", items |-> <<>>]]]

-----------------------------------------------------------------------------
(* CircuitBreaker: one operator per method. *)

(* HALF_OPEN lets everybody through, not one probe. *)
AllowsRequest(b) == b.state # "open" \/ b.elapsed

AfterAllow(b) == IF b.state = "open" /\ b.elapsed THEN [b EXCEPT !.state = "half_open"] ELSE b

(* Whatever the state, also when the call was admitted long before.        *)
RecordSuccess(b) == [state |-> "closed", count |-> 0, elapsed |-> FALSE]

(* A failure in the open state stamps opened_at again. *)
RecordFailure(b) ==
  LET trips == b.state = "half_open" \/ b.count + 1 >= FailureThreshold
  IN  [state   |-> IF trips THEN "open" ELSE b.state,
       count   |-> b.count + 1,
       elapsed |-> IF trips THEN FALSE ELSE b.elapsed]

RecoveryElapses(n) ==
  /\ breaker[n].state = "open"
  /\ ~breaker[n].elapsed
  /\ breaker' = [breaker EXCEPT ![n].elapsed = TRUE]
  /\ UNCHANGED <<search, result>>

-----------------------------------------------------------------------------
(* MultiNetworkCoordinator.search and ResilienceManager.call. *)

Begins(s) ==
  /\ search[s] = "new"
  /\ search' = [search EXCEPT ![s] = "out"]
  /\ UNCHANGED <<breaker, result>>

EndsWith(s, n, status, items) ==
  result' = [result EXCEPT ![s][n] = [status |-> status, items |-> items]]

(* The gate. *)
CallsNetwork(s, n) ==
  /\ search[s] = "out"
  /\ result[s][n].status = "none"
  /\ EndsWith(s, n, IF AllowsRequest(breaker[n]) THEN "calling" ELSE "circuit_open", <<>>)
  /\ breaker' = [breaker EXCEPT ![n] = AfterAllow(@)]
  /\ UNCHANGED search

Succeeds(s, n) ==
  /\ result[s][n].status = "calling"
  /\ \E items \in Answers[n] : EndsWith(s, n, "ok", items)
  /\ breaker' = [breaker EXCEPT ![n] = RecordSuccess(@)]
  /\ UNCHANGED search

(* asyncio.wait_for gives up, or the network's caller raises: every error  *)
(* is turned into a status, none is raised.                                *)
Fails(s, n) ==
  /\ result[s][n].status = "calling"
  /\ EndsWith(s, n, "error", <<>>)
  /\ breaker' = [breaker EXCEPT ![n] = RecordFailure(@)]
  /\ UNCHANGED search

FansInOnFirst(s) == \E n \in Networks : result[s][n].status \notin {"none", "calling"}

FansInWhenAnswered(s) == \A n \in Networks : result[s][n].status = "ok"

(* gather returns when every call has. *)
FansIn(s) == \A n \in Networks : result[s][n].status \notin {"none", "calling"}

Done(s) ==
  /\ search[s] = "out"
  /\ FansIn(s)
  /\ search' = [search EXCEPT ![s] = "done"]
  /\ UNCHANGED <<breaker, result>>

(* The task of the search is cancelled: each call that is out counts as a  *)
(* failure of its network.                                                 *)
Cancelled(s) ==
  /\ search[s] = "out"
  /\ search' = [search EXCEPT ![s] = "cancelled"]
  /\ result' = [result EXCEPT ![s] =
                  [n \in Networks |-> IF @[n].status = "calling"
                                      THEN [status |-> "error", items |-> <<>>] ELSE @[n]]]
  /\ breaker' = [n \in Networks |-> IF result[s][n].status = "calling"
                                    THEN RecordFailure(breaker[n]) ELSE breaker[n]]

SearchNext ==
  \/ \E s \in Searches : Begins(s) \/ Done(s) \/ Cancelled(s)
  \/ \E s \in Searches, n \in Networks : CallsNetwork(s, n) \/ Succeeds(s, n) \/ Fails(s, n)
  \/ \E n \in Networks : RecoveryElapses(n)

SearchSpec == SearchInit /\ [][SearchNext]_searchVars

(* Tasks are scheduled, and timeout_s ends every call. *)
SearchFairness ==
  \A s \in Searches :
    /\ WF_searchVars(Done(s))
    /\ \A n \in Networks : WF_searchVars(CallsNetwork(s, n)) /\ WF_searchVars(Succeeds(s, n) \/ Fails(s, n))

SearchFairSpec == SearchSpec /\ SearchFairness

-----------------------------------------------------------------------------
(* What a search returns: MultiSearchResult. *)

Responded(s) == {n \in Networks : result[s][n].status = "ok"}

Failed(s) == {n \in Networks : result[s][n].status \in {"error", "circuit_open"}}

Degraded(s) == Failed(s) # {}

(* What a network listed: nothing, unless it answered. *)
Answer(s, n) == [i \in 1..Len(result[s][n].items) |-> [item |-> result[s][n].items[i], network |-> n]]

(* The listings of a search, network after network. *)
Order == CHOOSE f \in [1..Cardinality(Networks) -> Networks] :
           \A i, j \in 1..Cardinality(Networks) : f[i] = f[j] => i = j

Listings(s) ==
  LET upTo[k \in 0..Cardinality(Networks)] ==
        IF k = 0 THEN <<>>
        ELSE upTo[k - 1] \o Answer(s, Order[k])
  IN  upTo[Cardinality(Networks)]

Catalogue(s) == Merge(Listings(s))

-----------------------------------------------------------------------------
(* A search that returns accounts for every network once, as responded or  *)
(* failed, and loses nothing of a network that answered, whichever others  *)
(* failed: each item of its answer stands in the catalogue under an entry  *)
(* that names the network and is no dearer, and nothing else is there.     *)
NothingLost ==
  \A s \in Searches :
    search[s] = "done" =>
      /\ Responded(s) \cup Failed(s) = Networks
      /\ \A n \in Responded(s) : \A i \in 1..Len(result[s][n].items) :
           \E e \in Catalogue(s) : StandsFor(e, Answer(s, n)[i])
      /\ \A e \in Catalogue(s) : e.sources \subseteq Responded(s)

(* What NothingLost rests on: only an answer brings items, and a search    *)
(* returns when all its calls have ended.                                  *)
SearchInv ==
  /\ SearchTypeOK
  /\ \A s \in Searches, n \in Networks : result[s][n].status # "ok" => result[s][n].items = <<>>
  /\ \A s \in Searches : search[s] = "done" => FansIn(s)

(* A search ends, whatever the networks do and however many are down. *)
SearchEnds == \A s \in Searches : search[s] = "out" ~> search[s] # "out"
=============================================================================

----------------------------- MODULE VendorAccess -----------------------------
(***************************************************************************)
(* How the ERP adapter reaches its vendors: services/erp-adapter/src,      *)
(* adapters/ and security/oauth.py, from the worker and the budget route   *)
(* down to the HTTP calls.                                                 *)
(*                                                                         *)
(* A vendor has one token cache (SAP and Oracle) and one circuit breaker,  *)
(* which pushes and budget checks share.  A push takes a token from the    *)
(* cache, or waits for the lock under which one is fetched; with SAP it    *)
(* then fetches a CSRF token; then it posts the order.  A budget check     *)
(* asks every vendor at once, and the orchestrator's client asks again     *)
(* when it gets no answer.                                                 *)
(*                                                                         *)
(* A token is its number in the order they were issued, 0 stands for none. *)
(* Row, lease and back-off of a push are in ErpOutbox.                     *)
(***************************************************************************)
EXTENDS Naturals, FiniteSets

CONSTANTS
  Vendors,      \* ERP_VENDORS
  Kind,         \* Kind[v]: "sap", "oracle" or "mock"
  Pushes,       \* rows of the outbox under way
  Target,       \* Target[p]: the vendor of row p
  Checks,       \* budget checks
  Required,     \* ERP_BUDGET_CHECK_REQUIRED
  FailMax,      \* fail_max of the breakers
  MaxAttempts,  \* attempts of a row
  MaxLosses     \* bound: tokens a vendor stops accepting, or a cache lets go

ASSUME VendorAssumption ==
  /\ Kind \in [Vendors -> {"sap", "oracle", "mock"}]
  /\ Target \in [Pushes -> Vendors]
  /\ Required \in BOOLEAN
  /\ FailMax \in Nat \ {0} /\ MaxAttempts \in Nat \ {0} /\ MaxLosses \in Nat

VARIABLES
  cache,    \* cache[v]: the token OAuthTokenCache holds
  fresh,    \* fresh[v]: it has not reached expires_at_monotonic
  lock,     \* lock[v]: the push that fetches a token
  issued,   \* issued[v]: tokens the identity provider issued
  accepted, \* accepted[v]: those the vendor accepts
  spent,    \* history: fresh tokens the cache let go
  dropped,  \* history: tokens the vendor refused with invalidate() as the answer
  circuit,  \* circuit[v]: as in CircuitBreaker
  push,     \* push[p]: where it is, its token, its attempts, why it is dead
  check     \* check[k]: where it is, its tries and the vendors' answers

vars == <<cache, fresh, lock, issued, accepted, spent, dropped, circuit, push, check>>
tokens == <<cache, fresh, lock, issued, accepted, spent, dropped>>

(* Pure operators on a circuit; call and streak are not looked at. *)
Breaker == INSTANCE CircuitBreaker WITH Calls <- Pushes, call <- push, streak <- spent

NoOne == "no one"

ASSUME NoOneAssumption == NoOne \notin Pushes

Push == [pc : {"due", "lock", "refresh", "csrf", "post", "done", "dead"}, token : Nat,
         tries : 1 .. MaxAttempts, cause : {"none", "token", "rejected", "exhausted"}]

(* What a call to a vendor's budget route may come to. *)
VendorAnswers == {"yes", "no", "transient", "permanent"}

Check == [pc : {"idle", "fanned", "allowed", "denied", "failopen", "error"}, tries : 1 .. 2,
          says : [Vendors -> {"none", "asked"} \cup VendorAnswers]]

TypeOK ==
  /\ cache \in [Vendors -> Nat] /\ fresh \in [Vendors -> BOOLEAN]
  /\ lock \in [Vendors -> Pushes \cup {NoOne}]
  /\ issued \in [Vendors -> Nat] /\ spent \in [Vendors -> Nat]
  /\ accepted \in [Vendors -> SUBSET Nat] /\ dropped \in [Vendors -> SUBSET Nat]
  /\ circuit \in [Vendors -> Breaker!Circuit]
  /\ push \in [Pushes -> Push]
  /\ check \in [Checks -> Check]

Init ==
  /\ cache = [v \in Vendors |-> 0] /\ fresh = [v \in Vendors |-> FALSE]
  /\ lock = [v \in Vendors |-> NoOne]
  /\ issued = [v \in Vendors |-> 0] /\ spent = [v \in Vendors |-> 0]
  /\ accepted = [v \in Vendors |-> {}] /\ dropped = [v \in Vendors |-> {}]
  /\ circuit = [v \in Vendors |-> Breaker!Closed]
  /\ push = [p \in Pushes |-> [pc |-> "due", token |-> 0, tries |-> 1, cause |-> "none"]]
  /\ check = [k \in Checks |-> [pc |-> "idle", tries |-> 1, says |-> [v \in Vendors |-> "none"]]]

-----------------------------------------------------------------------------
(* A push and its token. *)

Becomes(p, row) == push' = [push EXCEPT ![p] = row]

(* The step after the token: SAP wants a CSRF token first. *)
Holding(p, t) ==
  [push[p] EXCEPT !.pc = IF Kind[Target[p]] = "sap" THEN "csrf" ELSE "post", !.token = t]

(* What the worker does with an attempt that may be repeated. *)
Retried(p) ==
  IF push[p].tries < MaxAttempts
  THEN [push[p] EXCEPT !.pc = "due", !.token = 0, !.tries = @ + 1]
  ELSE [push[p] EXCEPT !.pc = "dead", !.cause = "exhausted"]

Notes(v, cb) == circuit' = [circuit EXCEPT ![v] = cb]

(* push_po up to its first await: breaker_call's gate, then get(), whose   *)
(* first look at the cache takes no lock.                                  *)
PushBegins(p) ==
  LET v == Target[p]
  IN  /\ push[p].pc = "due"
      /\ IF Breaker!Admits(circuit[v])
         THEN /\ Notes(v, Breaker!Gated(circuit[v]))
              /\ Becomes(p, IF Kind[v] = "mock" \/ fresh[v] THEN Holding(p, cache[v])
                            ELSE [push[p] EXCEPT !.pc = "lock"])
         ELSE Becomes(p, Retried(p)) /\ UNCHANGED circuit
      /\ UNCHANGED <<tokens, check>>

(* The second look, under the lock: another push may have fetched one.     *)
Unchecked(v) == FALSE  \* without the second look

SecondLook(v) == fresh[v]

GetsLock(p) ==
  LET v == Target[p]
  IN  /\ push[p].pc = "lock"
      /\ lock[v] = NoOne
      /\ IF SecondLook(v)
         THEN Becomes(p, Holding(p, cache[v])) /\ UNCHANGED lock
         ELSE Becomes(p, [push[p] EXCEPT !.pc = "refresh"]) /\ lock' = [lock EXCEPT ![v] = p]
      /\ UNCHANGED <<cache, fresh, issued, accepted, spent, dropped, circuit, check>>

(* _refresh got a token. *)
Refreshed(p) ==
  LET v == Target[p]
      t == issued[v] + 1
  IN  /\ push[p].pc = "refresh"
      /\ issued' = [issued EXCEPT ![v] = t]
      /\ accepted' = [accepted EXCEPT ![v] = @ \cup {t}]
      /\ cache' = [cache EXCEPT ![v] = t]
      /\ fresh' = [fresh EXCEPT ![v] = TRUE]
      /\ lock' = [lock EXCEPT ![v] = NoOne]
      /\ Becomes(p, Holding(p, t))
      /\ UNCHANGED <<spent, dropped, circuit, check>>

(* The lock after a refresh that failed: `async with` gives it back. *)
HeldOn(v) == lock  \* released on success only

Released(v) == [lock EXCEPT ![v] = NoOne]

(* The identity provider is down, slow or says no: no error of the vendor  *)
(* tree, so the worker takes it for unexpected, and tries again; the       *)
(* breaker counts it.                                                      *)
RefreshFails(p) ==
  LET v == Target[p]
  IN  /\ push[p].pc = "refresh"
      /\ lock' = Released(v)
      /\ Notes(v, Breaker!NotedFailure(circuit[v]))
      /\ Becomes(p, Retried(p))
      /\ UNCHANGED <<cache, fresh, issued, accepted, spent, dropped, check>>

(* invalidate(): whatever the cache holds by now. *)
KeepsToken(v) == UNCHANGED <<cache, fresh, spent>>  \* without invalidate()

Invalidates(v) ==
  /\ cache' = [cache EXCEPT ![v] = 0]
  /\ fresh' = [fresh EXCEPT ![v] = FALSE]
  /\ spent' = [spent EXCEPT ![v] = IF fresh[v] THEN @ + 1 ELSE @]

-----------------------------------------------------------------------------
(* The vendor's answers to a push. *)

Waits(p) == push[p].pc \in {"csrf", "post"}

Known(p) == Kind[Target[p]] = "mock" \/ push[p].token \in accepted[Target[p]]

CsrfFetched(p) ==
  /\ push[p].pc = "csrf" /\ Known(p)
  /\ Becomes(p, [push[p] EXCEPT !.pc = "post"])
  /\ UNCHANGED <<tokens, circuit, check>>

(* 401 when the CSRF token is fetched: a permanent error like any 4xx, and *)
(* the token stays in the cache.                                           *)
CsrfUnauthorized(p) ==
  /\ push[p].pc = "csrf" /\ ~Known(p)
  /\ Becomes(p, [push[p] EXCEPT !.pc = "dead", !.cause = "token"])
  /\ UNCHANGED <<tokens, circuit, check>>

PushAccepted(p) ==
  /\ push[p].pc = "post" /\ Known(p)
  /\ Notes(Target[p], Breaker!NotedSuccess(circuit[Target[p]]))
  /\ Becomes(p, [push[p] EXCEPT !.pc = "done"])
  /\ UNCHANGED <<tokens, check>>

(* 401 when the order is posted: the cache is emptied, the row waits. *)
PushUnauthorized(p) ==
  LET v == Target[p]
  IN  /\ push[p].pc = "post" /\ ~Known(p)
      /\ Invalidates(v)
      /\ dropped' = [dropped EXCEPT ![v] = @ \cup {push[p].token}]
      /\ Notes(v, Breaker!NotedFailure(circuit[v]))
      /\ Becomes(p, Retried(p))
      /\ UNCHANGED <<lock, issued, accepted, check>>

(* 5xx, network, time out. *)
PushFails(p) ==
  /\ Waits(p)
  /\ Notes(Target[p], Breaker!NotedFailure(circuit[Target[p]]))
  /\ Becomes(p, Retried(p))
  /\ UNCHANGED <<tokens, check>>

(* Any other 4xx, or an answer without its number; not for the breaker.    *)
PushRejected(p) ==
  /\ Waits(p)
  /\ Becomes(p, [push[p] EXCEPT !.pc = "dead", !.cause = "rejected"])
  /\ UNCHANGED <<tokens, circuit, check>>

-----------------------------------------------------------------------------
(* A budget check: ErpAdapterClient.budget_check, the route, the vendors.  *)

Asks(k, says) == check' = [check EXCEPT ![k].says = says, ![k].pc = "fanned"]

(* gather starts a call per vendor; an open circuit raises in its place.   *)
CheckBegins(k) ==
  /\ check[k].pc = "idle"
  /\ Asks(k, [v \in Vendors |-> IF Breaker!Admits(circuit[v]) THEN "asked" ELSE "transient"])
  /\ circuit' = [v \in Vendors |->
                   IF Breaker!Admits(circuit[v]) THEN Breaker!Gated(circuit[v]) ELSE circuit[v]]
  /\ UNCHANGED <<tokens, push>>

VendorSays(k, v, answer) ==
  /\ check[k].pc = "fanned" /\ check[k].says[v] = "asked"
  /\ check' = [check EXCEPT ![k].says[v] = answer]
  /\ Notes(v, CASE answer \in {"yes", "no"} -> Breaker!NotedSuccess(circuit[v])
                [] answer = "transient" -> Breaker!NotedFailure(circuit[v])
                [] answer = "permanent" -> circuit[v])
  /\ UNCHANGED <<tokens, push>>

(* The client asks a second time, and then goes on without an answer, or   *)
(* refuses to.                                                             *)
Unanswered(k) ==
  IF check[k].tries = 1 THEN [check[k] EXCEPT !.pc = "idle", !.tries = 2]
  ELSE [check[k] EXCEPT !.pc = IF Required THEN "error" ELSE "failopen"]

(* MultiVendorAdapter.check_budget: a vendor that fails denies. *)
Allows(says) == \A v \in Vendors : says[v] = "yes"

Available(says) == Cardinality(Vendors) > 1 \/ \A v \in Vendors : says[v] \in {"yes", "no"}

CheckAnswered(k) ==
  LET says == check[k].says
  IN  /\ check[k].pc = "fanned"
      /\ \A v \in Vendors : says[v] # "asked"
      /\ check' = [check EXCEPT ![k] =
            IF ~Available(says) THEN Unanswered(k)
            ELSE [check[k] EXCEPT !.pc = IF Allows(says) THEN "allowed" ELSE "denied"]]
      /\ UNCHANGED <<tokens, circuit, push>>

(* The route's wait_for and the client's own time out (both 800 ms): the   *)
(* calls under way are cancelled.                                          *)
CheckTimesOut(k) ==
  /\ check[k].pc = "fanned"
  /\ \E v \in Vendors : check[k].says[v] = "asked"
  /\ check' = [check EXCEPT ![k] = Unanswered(k)]
  /\ UNCHANGED <<tokens, circuit, push>>

-----------------------------------------------------------------------------
(* Time and the vendors. *)

Losses(v) == spent[v] + (issued[v] - Cardinality(accepted[v]))

(* The cached token reaches the end of its time in the cache. *)
CacheExpires(v) ==
  /\ fresh[v]
  /\ Losses(v) < MaxLosses
  /\ fresh' = [fresh EXCEPT ![v] = FALSE]
  /\ spent' = [spent EXCEPT ![v] = @ + 1]
  /\ UNCHANGED <<cache, lock, issued, accepted, dropped, circuit, push, check>>

(* The vendor accepts a token no longer: its life was shorter than the     *)
(* minute the cache gives any token, or it was withdrawn.                  *)
TokenEnds(v, t) ==
  /\ Losses(v) < MaxLosses
  /\ accepted' = [accepted EXCEPT ![v] = @ \ {t}]
  /\ UNCHANGED <<cache, fresh, lock, issued, spent, dropped, circuit, push, check>>

CoolsDown(v) ==
  /\ Breaker!Blocks(circuit[v])
  /\ Notes(v, [circuit[v] EXCEPT !.cooling = FALSE])
  /\ UNCHANGED <<tokens, push, check>>

PushStep(p) ==
  \/ PushBegins(p)
  \/ GetsLock(p)
  \/ Refreshed(p)
  \/ RefreshFails(p)
  \/ CsrfFetched(p)
  \/ CsrfUnauthorized(p)
  \/ PushAccepted(p)
  \/ PushUnauthorized(p)
  \/ PushFails(p)
  \/ PushRejected(p)

CheckStep(k) ==
  \/ CheckBegins(k)
  \/ \E v \in Vendors, answer \in VendorAnswers : VendorSays(k, v, answer)
  \/ CheckAnswered(k)
  \/ CheckTimesOut(k)

Next ==
  \/ \E p \in Pushes : PushStep(p)
  \/ \E k \in Checks : CheckStep(k)
  \/ \E v \in Vendors : CacheExpires(v)
  \/ \E v \in Vendors : \E t \in accepted[v] : TokenEnds(v, t)
  \/ \E v \in Vendors : CoolsDown(v)

Spec == Init /\ [][Next]_vars

(* An HTTP call ends (aiohttp bounds it), asyncio runs what is ready, and  *)
(* the outbox hands a waiting row to its worker again.                     *)
Fairness ==
  /\ \A p \in Pushes : WF_vars(PushStep(p))
  /\ \A k \in Checks : WF_vars(CheckStep(k))

FairSpec == Spec /\ Fairness

-----------------------------------------------------------------------------
(* "refresh single-flighted" (oauth.py): however many calls find the cache *)
(* empty or its token out of time, one token is fetched for them; tokens   *)
(* issued are the tokens let go and the one the cache holds.               *)
OneRefreshPerLoss ==
  \A v \in Vendors : issued[v] = spent[v] + (IF fresh[v] THEN 1 ELSE 0)

(* "invalidate so the next attempt forces a refresh" (sap.py, oracle.py):  *)
(* no attempt that starts after the cache was told to drop a token is made *)
(* with it, whichever refreshes and other 401s were under way.  A 401 to   *)
(* SAP's CSRF request tells the cache nothing: see TokenLossIsRetried.     *)
DroppedIsNotReused ==
  [][\A p \in Pushes :
       push'[p].token # push[p].token => push'[p].token \notin dropped[Target[p]]]_vars

(* Every row is decided and every check answered, whichever refresh fails  *)
(* while others wait for its lock.                                         *)
AllSettle ==
  /\ \A p \in Pushes : <>(push[p].pc \in {"done", "dead"})
  /\ \A k \in Checks : <>(check[k].pc \in {"allowed", "denied", "failopen", "error"})

(* What oauth.py has invalidate() for, "the vendor returns 401 on a call   *)
(* that used a (presumably expired) cached value": the token would be      *)
(* fetched anew, and its loss cost no row its order.                       *)
TokenLossIsRetried == \A p \in Pushes : push[p].cause # "token"

(* What routes.py says of the budget route: "On vendor unavailable returns *)
(* 503", and the orchestrator decides.  An answer that denies would be the *)
(* no of a vendor.                                                         *)
DenialIsANo == \A k \in Checks : check[k].pc = "denied" => \E v \in Vendors : check[k].says[v] = "no"
=============================================================================

--------------------------- MODULE GuardedCallsProofs ---------------------------
(***************************************************************************)
(* Theorems about calls to others that go through a breaker each: those    *)
(* of the ERP adapter to its vendors, with the token cache and its lock,   *)
(* for any vendors, rows, checks and attempts; and those of the discovery  *)
(* engine to its networks, with the catalogue merged of their answers, for *)
(* any networks, items and searches.                                       *)
(***************************************************************************)
EXTENDS VendorAccess, MultiNetworkSearch, FiniteSetTheorems, WellFoundedInduction, TLAPS

-----------------------------------------------------------------------------
(* The token cache. *)

Fetching(v) == {p \in Pushes : Target[p] = v /\ push[p].pc = "refresh"}

TokenTypes ==
  /\ cache \in [Vendors -> Nat] /\ fresh \in [Vendors -> BOOLEAN]
  /\ lock \in [Vendors -> Pushes \cup {NoOne}]
  /\ issued \in [Vendors -> Nat] /\ spent \in [Vendors -> Nat]
  /\ accepted \in [Vendors -> SUBSET Nat] /\ dropped \in [Vendors -> SUBSET Nat]
  /\ push \in [Pushes -> Push]

(* The lock is held by whoever fetches a token, and only while none is     *)
(* fresh: this is what makes a second look under the lock enough.          *)
LockIsHeldToFetch ==
  \A v \in Vendors :
    /\ lock[v] # NoOne => lock[v] \in Fetching(v)
    /\ \A p \in Fetching(v) : lock[v] = p /\ ~fresh[v]

(* A fresh token is the last one issued. *)
FreshIsNewest == \A v \in Vendors : fresh[v] => cache[v] = issued[v] /\ issued[v] > 0

(* What the cache dropped was issued, and is no longer the fresh one. *)
DroppedIsGone ==
  \A v \in Vendors :
    /\ \A t \in dropped[v] : t > 0 /\ t <= issued[v]
    /\ fresh[v] => cache[v] \notin dropped[v]
    /\ Kind[v] = "mock" => dropped[v] = {} /\ cache[v] = 0 /\ ~fresh[v]

(* A call to a vendor that asks for a token carries one it was issued.     *)
CallsCarryTokens ==
  \A p \in Pushes :
    /\ push[p].token <= issued[Target[p]]
    /\ push[p].pc \in {"csrf", "post"} /\ Kind[Target[p]] # "mock" => push[p].token > 0
    /\ Kind[Target[p]] = "mock" => push[p].pc \notin {"lock", "refresh"}

TokenInv ==
  /\ TokenTypes
  /\ LockIsHeldToFetch
  /\ FreshIsNewest
  /\ OneRefreshPerLoss
  /\ DroppedIsGone
  /\ CallsCarryTokens

-----------------------------------------------------------------------------
(* What a push may become without the lock: it keeps its type, and carries *)
(* a token that was issued, unless its vendor asks for none.               *)
Carries(p, row) ==
  /\ row \in Push
  /\ row.pc # "refresh"
  /\ row.token <= issued[Target[p]]
  /\ row.pc \in {"csrf", "post"} /\ Kind[Target[p]] # "mock" => row.token > 0
  /\ Kind[Target[p]] = "mock" => row.pc # "lock"

LEMMA RowsCarry ==
  ASSUME TokenInv, NEW p \in Pushes
  PROVE  /\ Retried(p).token = 0 \/ Retried(p) = [push[p] EXCEPT !.pc = "dead", !.cause = "exhausted"]
         /\ Carries(p, Retried(p))
         /\ fresh[Target[p]] \/ Kind[Target[p]] = "mock" =>
              Carries(p, Holding(p, cache[Target[p]]))
         /\ \A cause \in {"token", "rejected"} : Carries(p, [push[p] EXCEPT !.pc = "dead", !.cause = cause])
         /\ Carries(p, [push[p] EXCEPT !.pc = "done"])
         /\ push[p].pc = "csrf" => Carries(p, [push[p] EXCEPT !.pc = "post"])
         /\ Kind[Target[p]] # "mock" => Carries(p, [push[p] EXCEPT !.pc = "lock"])
<1> USE VendorAssumption DEF Carries
<1>type. /\ Target[p] \in Vendors
         /\ push[p] \in Push
         /\ issued[Target[p]] \in Nat /\ cache[Target[p]] \in Nat
         /\ MaxAttempts \in Nat
         /\ push[p].token <= issued[Target[p]]
         /\ push[p].pc \in {"csrf", "post"} /\ Kind[Target[p]] # "mock" => push[p].token > 0
  BY DEF TokenInv, TokenTypes, CallsCarryTokens
<1>1. Retried(p).token = 0 \/ Retried(p) = [push[p] EXCEPT !.pc = "dead", !.cause = "exhausted"]
  BY <1>type DEF Retried, Push
<1>2. Carries(p, Retried(p))
  <2>1. CASE push[p].tries < MaxAttempts
    <3>1. Retried(p) = [push[p] EXCEPT !.pc = "due", !.token = 0, !.tries = @ + 1]
      BY <2>1 DEF Retried
    <3>2. push[p].tries + 1 \in 1 .. MaxAttempts
      BY <2>1, <1>type DEF Push
    <3>3. Retried(p) = [pc |-> "due", token |-> 0, tries |-> push[p].tries + 1,
                        cause |-> push[p].cause]
      BY <3>1, <1>type DEF Push
    <3> QED
      BY <3>2, <3>3, <1>type DEF Push
  <2>2. CASE ~(push[p].tries < MaxAttempts)
    <3>1. Retried(p) = [push[p] EXCEPT !.pc = "dead", !.cause = "exhausted"]
      BY <2>2 DEF Retried
    <3> QED
      BY <3>1, <1>type DEF Push
  <2> QED
    BY <2>1, <2>2
<1>3. ASSUME fresh[Target[p]] \/ Kind[Target[p]] = "mock"
      PROVE  Carries(p, Holding(p, cache[Target[p]]))
  <2>1. /\ cache[Target[p]] <= issued[Target[p]]
        /\ Kind[Target[p]] # "mock" => cache[Target[p]] > 0
    BY <1>3, <1>type DEF TokenInv, FreshIsNewest, DroppedIsGone
  <2> QED
    BY <2>1, <1>type DEF Holding, Push
<1>4. \A cause \in {"token", "rejected"} : Carries(p, [push[p] EXCEPT !.pc = "dead", !.cause = cause])
  BY <1>type DEF Push
<1>5. /\ Carries(p, [push[p] EXCEPT !.pc = "done"])
      /\ push[p].pc = "csrf" => Carries(p, [push[p] EXCEPT !.pc = "post"])
      /\ Kind[Target[p]] # "mock" => Carries(p, [push[p] EXCEPT !.pc = "lock"])
  BY <1>type DEF Push
<1> QED
  BY <1>1, <1>2, <1>3, <1>4, <1>5

(* Such a change, away from the lock and the cache, is harmless.           *)
LEMMA RowMoves ==
  ASSUME TokenInv, UNCHANGED tokens,
         NEW p \in Pushes, NEW row, push' = [push EXCEPT ![p] = row],
         Carries(p, row), push[p].pc # "refresh"
  PROVE  TokenInv'
<1> USE DEF TokenInv, tokens, Carries
<1>1. TokenTypes'
  BY DEF TokenTypes
<1>2. LockIsHeldToFetch'
  <2>1. \A v \in Vendors : Fetching(v)' = Fetching(v)
    BY DEF Fetching, TokenTypes
  <2> QED
    BY <2>1 DEF LockIsHeldToFetch
<1>3. FreshIsNewest' /\ OneRefreshPerLoss' /\ DroppedIsGone'
  BY DEF FreshIsNewest, OneRefreshPerLoss, DroppedIsGone
<1>4. CallsCarryTokens'
  BY DEF CallsCarryTokens, TokenTypes
<1> QED
  BY <1>1, <1>2, <1>3, <1>4

(* The steps under the lock, and those that drop a token.                  *)
LEMMA TakesLock ==
  ASSUME TokenInv, NEW p \in Pushes, GetsLock(p), ~fresh[Target[p]] PROVE TokenInv'
<1> DEFINE v == Target[p]
<1> USE VendorAssumption, NoOneAssumption DEF TokenInv
<1>type. v \in Vendors /\ push[p] \in Push /\ push[p].pc = "lock" /\ lock[v] = NoOne
  BY DEF TokenTypes, GetsLock
<1>eff. /\ push' = [push EXCEPT ![p] = [push[p] EXCEPT !.pc = "refresh"]]
        /\ lock' = [lock EXCEPT ![v] = p]
        /\ UNCHANGED <<cache, fresh, issued, accepted, spent, dropped>>
  BY DEF GetsLock, SecondLook, Becomes
<1>row. [push[p] EXCEPT !.pc = "refresh"] \in Push /\ push'[p].pc = "refresh" /\ push'[p].token = push[p].token
  BY <1>type, <1>eff DEF Push, TokenTypes
<1>others. \A q \in Pushes \ {p} : push'[q] = push[q]
  BY <1>eff DEF TokenTypes
<1>1. TokenTypes'
  BY <1>type, <1>eff, <1>row DEF TokenTypes
<1>2. LockIsHeldToFetch'
  <2>1. \A q \in Fetching(v) : q \in Pushes /\ FALSE
    BY <1>type DEF LockIsHeldToFetch, Fetching
  <2>2. Fetching(v)' = {p}
    BY <2>1, <1>row, <1>others DEF Fetching
  <2>3. \A w \in Vendors \ {v} : Fetching(w)' = Fetching(w)
    BY <1>row, <1>others DEF Fetching
  <2>4. lock'[v] = p /\ \A w \in Vendors \ {v} : lock'[w] = lock[w]
    BY <1>type, <1>eff DEF TokenTypes
  <2> QED
    BY <2>2, <2>3, <2>4, <1>eff DEF LockIsHeldToFetch, GetsLock
<1>3. FreshIsNewest' /\ OneRefreshPerLoss' /\ DroppedIsGone'
  BY <1>eff DEF FreshIsNewest, OneRefreshPerLoss, DroppedIsGone
<1>4. CallsCarryTokens'
  BY <1>type, <1>eff, <1>row, <1>others DEF CallsCarryTokens
<1> QED
  BY <1>1, <1>2, <1>3, <1>4

(* What a refresh leaves of the lock, whether it got a token or not.       *)
LEMMA LockIsGivenBack ==
  ASSUME TokenInv, NEW p \in Pushes, push[p].pc = "refresh",
         NEW row \in Push, row.pc # "refresh",
         push' = [push EXCEPT ![p] = row],
         lock' = [lock EXCEPT ![Target[p]] = NoOne],
         \A w \in Vendors \ {Target[p]} : fresh'[w] = fresh[w]
  PROVE  LockIsHeldToFetch'
<1> DEFINE v == Target[p]
<1> USE VendorAssumption, NoOneAssumption DEF TokenInv
<1>1. v \in Vendors /\ Fetching(v) = {p}
  BY DEF LockIsHeldToFetch, Fetching
<1>2. Fetching(v)' = {}
  BY <1>1 DEF Fetching, TokenTypes
<1>3. \A w \in Vendors \ {v} : Fetching(w)' = Fetching(w)
  BY DEF Fetching, TokenTypes
<1>4. lock'[v] = NoOne /\ \A w \in Vendors \ {v} : lock'[w] = lock[w]
  BY <1>1 DEF TokenTypes
<1> QED
  BY <1>1, <1>2, <1>3, <1>4 DEF LockIsHeldToFetch

LEMMA Refreshes ==
  ASSUME TokenInv, NEW p \in Pushes, Refreshed(p) PROVE TokenInv'
<1> DEFINE v == Target[p]
           t == issued[v] + 1
           row == Holding(p, t)
<1> USE VendorAssumption DEF TokenInv
<1>type. /\ v \in Vendors /\ push[p] \in Push /\ push[p].pc = "refresh"
         /\ issued[v] \in Nat /\ Kind[v] # "mock" /\ ~fresh[v] /\ lock[v] = p
  BY DEF TokenTypes, Refreshed, CallsCarryTokens, LockIsHeldToFetch, Fetching
<1>eff. /\ push' = [push EXCEPT ![p] = row]
        /\ lock' = [lock EXCEPT ![v] = NoOne]
        /\ issued' = [issued EXCEPT ![v] = t]
        /\ cache' = [cache EXCEPT ![v] = t]
        /\ fresh' = [fresh EXCEPT ![v] = TRUE]
        /\ accepted' = [accepted EXCEPT ![v] = @ \cup {t}]
        /\ UNCHANGED <<spent, dropped>>
  BY DEF Refreshed, Becomes
<1>row. row \in Push /\ row.pc \in {"csrf", "post"} /\ row.token = t
  <2>1. t \in Nat
    BY <1>type
  <2>2. \A pc \in {"csrf", "post"} :
          LET r == [push[p] EXCEPT !.pc = pc, !.token = t]
          IN  r \in Push /\ r.pc = pc /\ r.token = t
    BY <2>1, <1>type DEF Push
  <2> QED
    BY <2>2 DEF Holding
<1>1. TokenTypes'
  BY <1>type, <1>eff, <1>row DEF TokenTypes
<1>2. LockIsHeldToFetch'
  <2>1. \A w \in Vendors \ {v} : fresh'[w] = fresh[w]
    BY <1>eff DEF TokenTypes
  <2> QED
    BY <2>1, <1>type, <1>eff, <1>row, LockIsGivenBack
<1>new. /\ issued'[v] = t /\ cache'[v] = t /\ fresh'[v] = TRUE
        /\ \A w \in Vendors \ {v} : /\ issued'[w] = issued[w]
                                    /\ cache'[w] = cache[w]
                                    /\ fresh'[w] = fresh[w]
  BY <1>type, <1>eff DEF TokenTypes
<1>3. FreshIsNewest'
  BY <1>type, <1>new DEF FreshIsNewest
<1>4. OneRefreshPerLoss'
  BY <1>type, <1>eff, <1>new DEF OneRefreshPerLoss, TokenTypes
<1>5. DroppedIsGone'
  BY <1>type, <1>eff, <1>new DEF DroppedIsGone, TokenTypes
<1>6. CallsCarryTokens'
  <2>1. push'[p] = row /\ \A q \in Pushes \ {p} : push'[q] = push[q]
    BY <1>eff DEF TokenTypes
  <2>2. \A w \in Vendors : issued[w] <= issued'[w] /\ issued[w] \in Nat /\ issued'[w] \in Nat
    BY <1>new, <1>type DEF TokenTypes
  <2>3. \A q \in Pushes : push[q].token \in Nat /\ Target[q] \in Vendors
    BY DEF TokenTypes, Push
  <2> QED
    BY <1>type, <1>new, <1>row, <2>1, <2>2, <2>3 DEF CallsCarryTokens
<1> QED
  BY <1>1, <1>2, <1>3, <1>4, <1>5, <1>6

LEMMA RefreshEndsEmpty ==
  ASSUME TokenInv, NEW p \in Pushes, RefreshFails(p) PROVE TokenInv'
<1> USE VendorAssumption DEF TokenInv
<1>eff. /\ push[p].pc = "refresh"
        /\ push' = [push EXCEPT ![p] = Retried(p)]
        /\ lock' = [lock EXCEPT ![Target[p]] = NoOne]
        /\ UNCHANGED <<cache, fresh, issued, accepted, spent, dropped>>
  BY DEF RefreshFails, Released, Becomes
<1>row. Carries(p, Retried(p))
  BY RowsCarry
<1>1. TokenTypes'
  BY <1>eff, <1>row DEF TokenTypes, Carries
<1>2. LockIsHeldToFetch'
  BY <1>eff, <1>row, LockIsGivenBack DEF Carries
<1>3. FreshIsNewest' /\ OneRefreshPerLoss' /\ DroppedIsGone'
  BY <1>eff DEF FreshIsNewest, OneRefreshPerLoss, DroppedIsGone
<1>4. CallsCarryTokens'
  BY <1>eff, <1>row DEF CallsCarryTokens, Carries, TokenTypes
<1> QED
  BY <1>1, <1>2, <1>3, <1>4

LEMMA Refuses ==
  ASSUME TokenInv, NEW p \in Pushes, PushUnauthorized(p) PROVE TokenInv'
<1> DEFINE v == Target[p]
           t == push[p].token
<1> USE VendorAssumption DEF TokenInv
<1>eff. /\ push[p].pc = "post" /\ ~Known(p)
        /\ push' = [push EXCEPT ![p] = Retried(p)]
        /\ cache' = [cache EXCEPT ![v] = 0]
        /\ fresh' = [fresh EXCEPT ![v] = FALSE]
        /\ spent' = [spent EXCEPT ![v] = IF fresh[v] THEN @ + 1 ELSE @]
        /\ dropped' = [dropped EXCEPT ![v] = @ \cup {t}]
        /\ UNCHANGED <<lock, issued, accepted>>
  BY DEF PushUnauthorized, Invalidates, Becomes
<1>row. Carries(p, Retried(p))
  BY RowsCarry
<1>type. v \in Vendors /\ Kind[v] # "mock" /\ t \in Nat /\ t > 0 /\ t <= issued[v]
  BY <1>eff DEF Known, CallsCarryTokens, TokenTypes, Push
<1>1. TokenTypes'
  BY <1>eff, <1>row, <1>type DEF TokenTypes, Carries
<1>new. /\ cache'[v] = 0 /\ fresh'[v] = FALSE /\ dropped'[v] = dropped[v] \cup {t}
        /\ spent'[v] = IF fresh[v] THEN spent[v] + 1 ELSE spent[v]
        /\ \A w \in Vendors \ {v} : /\ cache'[w] = cache[w]
                                    /\ fresh'[w] = fresh[w]
                                    /\ spent'[w] = spent[w]
                                    /\ dropped'[w] = dropped[w]
  BY <1>type, <1>eff DEF TokenTypes
<1>2. LockIsHeldToFetch'
  <2>1. \A w \in Vendors : Fetching(w)' = Fetching(w)
    BY <1>eff, <1>row DEF Fetching, Carries, TokenTypes
  <2> QED
    BY <2>1, <1>eff, <1>new DEF LockIsHeldToFetch
<1>3. FreshIsNewest'
  BY <1>eff, <1>new DEF FreshIsNewest
<1>4. OneRefreshPerLoss'
  <2>1. issued[v] \in Nat /\ spent[v] \in Nat /\ fresh[v] \in BOOLEAN
    BY <1>type DEF TokenTypes
  <2> QED
    BY <2>1, <1>type, <1>eff, <1>new DEF OneRefreshPerLoss
<1>5. DroppedIsGone'
  BY <1>type, <1>eff, <1>new DEF DroppedIsGone
<1>6. CallsCarryTokens'
  BY <1>eff, <1>row DEF CallsCarryTokens, Carries, TokenTypes
<1> QED
  BY <1>1, <1>2, <1>3, <1>4, <1>5, <1>6

LEMMA Expires ==
  ASSUME TokenInv, NEW v \in Vendors, CacheExpires(v) PROVE TokenInv'
<1> USE DEF TokenInv
<1>eff. /\ fresh[v]
        /\ fresh' = [fresh EXCEPT ![v] = FALSE]
        /\ spent' = [spent EXCEPT ![v] = @ + 1]
        /\ UNCHANGED <<cache, lock, issued, accepted, dropped, push>>
  BY DEF CacheExpires
<1>1. TokenTypes'
  BY <1>eff DEF TokenTypes
<1>new. /\ fresh'[v] = FALSE /\ spent'[v] = spent[v] + 1 /\ spent[v] \in Nat /\ issued[v] \in Nat
        /\ \A w \in Vendors \ {v} : fresh'[w] = fresh[w] /\ spent'[w] = spent[w]
  BY <1>eff DEF TokenTypes
<1>2. LockIsHeldToFetch'
  BY <1>eff, <1>new DEF LockIsHeldToFetch, Fetching
<1>3. FreshIsNewest' /\ DroppedIsGone' /\ CallsCarryTokens'
  BY <1>eff, <1>new DEF FreshIsNewest, DroppedIsGone, CallsCarryTokens
<1>4. OneRefreshPerLoss'
  BY <1>eff, <1>new DEF OneRefreshPerLoss
<1> QED
  BY <1>1, <1>2, <1>3, <1>4

LEMMA AcceptsNoMore ==
  ASSUME TokenInv, NEW v \in Vendors, NEW t \in accepted[v], TokenEnds(v, t) PROVE TokenInv'
<1> USE DEF TokenInv
<1>eff. /\ accepted' = [accepted EXCEPT ![v] = @ \ {t}]
        /\ UNCHANGED <<cache, fresh, lock, issued, spent, dropped, push>>
  BY DEF TokenEnds
<1>1. TokenTypes'
  BY <1>eff DEF TokenTypes
<1>2. LockIsHeldToFetch' /\ FreshIsNewest' /\ OneRefreshPerLoss' /\ DroppedIsGone' /\ CallsCarryTokens'
  BY <1>eff DEF LockIsHeldToFetch, Fetching, FreshIsNewest, OneRefreshPerLoss, DroppedIsGone, CallsCarryTokens
<1> QED
  BY <1>1, <1>2

-----------------------------------------------------------------------------
LEMMA TokenInvInit == Init => TokenInv
<1> SUFFICES ASSUME Init PROVE TokenInv
  OBVIOUS
<1> USE VendorAssumption DEF Init
<1>1. TokenTypes
  <2>1. [pc |-> "due", token |-> 0, tries |-> 1, cause |-> "none"] \in Push
    BY DEF Push
  <2> QED
    BY <2>1 DEF TokenTypes
<1>2. \A v \in Vendors : Fetching(v) = {}
  BY DEF Fetching
<1>3. LockIsHeldToFetch /\ FreshIsNewest
  BY <1>2 DEF LockIsHeldToFetch, FreshIsNewest
<1>4. OneRefreshPerLoss /\ DroppedIsGone /\ CallsCarryTokens
  BY DEF OneRefreshPerLoss, DroppedIsGone, CallsCarryTokens
<1> QED
  BY <1>1, <1>3, <1>4 DEF TokenInv

LEMMA PushKeepsTokenInv ==
  ASSUME TokenInv, NEW p \in Pushes, PushStep(p) PROVE TokenInv'
<1> DEFINE v == Target[p]
<1>carry. /\ Carries(p, Retried(p))
          /\ fresh[v] \/ Kind[v] = "mock" => Carries(p, Holding(p, cache[v]))
          /\ \A cause \in {"token", "rejected"} :
               Carries(p, [push[p] EXCEPT !.pc = "dead", !.cause = cause])
          /\ Carries(p, [push[p] EXCEPT !.pc = "done"])
          /\ push[p].pc = "csrf" => Carries(p, [push[p] EXCEPT !.pc = "post"])
          /\ Kind[v] # "mock" => Carries(p, [push[p] EXCEPT !.pc = "lock"])
  BY RowsCarry
<1> USE RowMoves DEF tokens, Becomes
<1>1. CASE PushBegins(p)
  <2>1. push[p].pc = "due" /\ UNCHANGED tokens
    BY <1>1 DEF PushBegins
  <2>2. \/ push' = [push EXCEPT ![p] = Retried(p)]
        \/ Kind[v] # "mock" /\ push' = [push EXCEPT ![p] = [push[p] EXCEPT !.pc = "lock"]]
        \/ (Kind[v] = "mock" \/ fresh[v]) /\ push' = [push EXCEPT ![p] = Holding(p, cache[v])]
    BY <1>1 DEF PushBegins
  <2> QED
    BY <2>1, <2>2, <1>carry
<1>2. CASE GetsLock(p)
  <2>1. CASE fresh[v]
    BY <2>1, <1>2, <1>carry DEF GetsLock, SecondLook
  <2> QED
    BY <2>1, <1>2, TakesLock
<1>3. CASE Refreshed(p)
  BY <1>3, Refreshes
<1>4. CASE RefreshFails(p)
  BY <1>4, RefreshEndsEmpty
<1>5. CASE CsrfFetched(p)
  BY <1>5, <1>carry DEF CsrfFetched
<1>6. CASE CsrfUnauthorized(p)
  BY <1>6, <1>carry DEF CsrfUnauthorized
<1>7. CASE PushAccepted(p)
  BY <1>7, <1>carry DEF PushAccepted
<1>8. CASE PushUnauthorized(p)
  BY <1>8, Refuses
<1>9. CASE PushFails(p)
  BY <1>9, <1>carry DEF PushFails, Waits
<1>10. CASE PushRejected(p)
  BY <1>10, <1>carry DEF PushRejected, Waits
<1> QED
  BY <1>1, <1>2, <1>3, <1>4, <1>5, <1>6, <1>7, <1>8, <1>9, <1>10 DEF PushStep

LEMMA TokenInvStays ==
  ASSUME TokenInv, UNCHANGED <<tokens, push>> PROVE TokenInv'
BY DEF TokenInv, TokenTypes, LockIsHeldToFetch, Fetching, FreshIsNewest, OneRefreshPerLoss,
       DroppedIsGone, CallsCarryTokens, tokens

LEMMA TokenInvStep == TokenInv /\ [Next]_vars => TokenInv'
<1> SUFFICES ASSUME TokenInv, [Next]_vars PROVE TokenInv'
  OBVIOUS
<1>1. ASSUME NEW p \in Pushes, PushStep(p) PROVE TokenInv'
  BY <1>1, PushKeepsTokenInv
<1>2. ASSUME NEW k \in Checks, CheckStep(k) PROVE UNCHANGED <<tokens, push>>
  BY <1>2 DEF CheckStep, CheckBegins, VendorSays, CheckAnswered, CheckTimesOut
<1>3. ASSUME NEW v \in Vendors, CacheExpires(v) PROVE TokenInv'
  BY <1>3, Expires
<1>4. ASSUME NEW v \in Vendors, NEW t \in accepted[v], TokenEnds(v, t) PROVE TokenInv'
  BY <1>4, AcceptsNoMore
<1>5. ASSUME NEW v \in Vendors, CoolsDown(v) PROVE UNCHANGED <<tokens, push>>
  BY <1>5 DEF CoolsDown
<1>6. CASE UNCHANGED vars
  BY <1>6, TokenInvStays DEF vars, tokens
<1> QED
  BY <1>1, <1>2, <1>3, <1>4, <1>5, <1>6, TokenInvStays DEF Next

LEMMA TokenInvariant == Spec => []TokenInv
<1>1. Init => TokenInv
  BY TokenInvInit
<1>2. TokenInv /\ [Next]_vars => TokenInv'
  BY TokenInvStep
<1> QED
  BY <1>1, <1>2, PTL DEF Spec

(* oauth.py's single flight, for any number of waiting pushes: tokens are  *)
(* fetched only to replace one that was let go.                            *)
THEOREM RefreshIsSingleFlight == Spec => []OneRefreshPerLoss
<1>1. TokenInv => OneRefreshPerLoss
  BY DEF TokenInv
<1> QED
  BY <1>1, TokenInvariant, PTL

(* A token that the cache was told to drop comes back from nowhere: not    *)
(* from a refresh under way, nor from the second look of those who wait.   *)
THEOREM DropIsFinal == Spec => DroppedIsNotReused
<1>1. TokenInv /\ [Next]_vars =>
        [\A p \in Pushes :
           push'[p].token # push[p].token => push'[p].token \notin dropped[Target[p]]]_vars
  <2> SUFFICES ASSUME TokenInv, Next, NEW q \in Pushes, push'[q].token # push[q].token
               PROVE  push'[q].token \notin dropped[Target[q]]
    OBVIOUS
  <2> USE VendorAssumption
  <2>type. \A p \in Pushes : /\ push[p] \in Push
                             /\ Target[p] \in Vendors
                             /\ issued[Target[p]] \in Nat
    BY DEF TokenInv, TokenTypes
  <2>zero. \A v \in Vendors : 0 \notin dropped[v]
    BY DEF TokenInv, DroppedIsGone
  <2>1. PICK p \in Pushes : PushStep(p)
    <3>1. ~(push' = push)
      OBVIOUS
    <3> QED
      BY <3>1 DEF Next, CheckStep, CheckBegins, VendorSays, CheckAnswered, CheckTimesOut,
                  CacheExpires, TokenEnds, CoolsDown
  <2>2. \E row : push' = [push EXCEPT ![p] = row]
    BY <2>1 DEF PushStep, PushBegins, GetsLock, Refreshed, RefreshFails, CsrfFetched, CsrfUnauthorized,
                PushAccepted, PushUnauthorized, PushFails, PushRejected, Becomes
  <2>3. q = p
    BY <2>2 DEF TokenInv, TokenTypes
  <2> DEFINE v == Target[p]
             Safe(row) == row.token = push[p].token \/ row.token \notin dropped[v]
  <2>4. Safe(Retried(p))
    <3>1. [push[p] EXCEPT !.pc = "dead", !.cause = "exhausted"].token = push[p].token
      BY <2>type DEF Push
    <3>2. Retried(p).token = 0 \/ Retried(p) = [push[p] EXCEPT !.pc = "dead", !.cause = "exhausted"]
      BY RowsCarry
    <3>3. 0 \notin dropped[v]
      BY <2>type, <2>zero
    <3> QED
      BY <3>1, <3>2, <3>3
  <2>5. \A t : Holding(p, t).token = t
    BY <2>type DEF Holding, Push
  <2>6. fresh[v] \/ Kind[v] = "mock" => Safe(Holding(p, cache[v]))
    BY <2>5, <2>type DEF TokenInv, DroppedIsGone
  <2>7. Safe(Holding(p, issued[v] + 1))
    <3>1. \A t \in dropped[v] : t \in Nat /\ t <= issued[v]
      BY <2>type DEF TokenInv, TokenTypes, DroppedIsGone
    <3> QED
      BY <3>1, <2>5, <2>type
  <2>8. /\ Safe([push[p] EXCEPT !.pc = "lock"])
        /\ Safe([push[p] EXCEPT !.pc = "refresh"])
        /\ Safe([push[p] EXCEPT !.pc = "post"])
        /\ Safe([push[p] EXCEPT !.pc = "done"])
        /\ Safe([push[p] EXCEPT !.pc = "dead", !.cause = "token"])
        /\ Safe([push[p] EXCEPT !.pc = "dead", !.cause = "rejected"])
    BY <2>type DEF Push
  <2>9. \A row : push' = [push EXCEPT ![p] = row] => push'[p] = row
    BY DEF TokenInv, TokenTypes
  <2> HIDE DEF Safe
  <2>10. Safe(push'[p])
    <3> USE <2>9 DEF Becomes
    <3>1. CASE PushBegins(p)
      <4>1. \/ push' = [push EXCEPT ![p] = Retried(p)]
            \/ push' = [push EXCEPT ![p] = [push[p] EXCEPT !.pc = "lock"]]
            \/ (Kind[v] = "mock" \/ fresh[v]) /\ push' = [push EXCEPT ![p] = Holding(p, cache[v])]
        BY <3>1 DEF PushBegins
      <4>2. CASE push' = [push EXCEPT ![p] = Retried(p)]
        BY <4>2, <2>4
      <4>3. CASE push' = [push EXCEPT ![p] = [push[p] EXCEPT !.pc = "lock"]]
        BY <4>3, <2>8
      <4>4. CASE (Kind[v] = "mock" \/ fresh[v]) /\ push' = [push EXCEPT ![p] = Holding(p, cache[v])]
        BY <4>4, <2>6
      <4> QED
        BY <4>1, <4>2, <4>3, <4>4
    <3>2. CASE GetsLock(p)
      <4>1. \/ fresh[v] /\ push' = [push EXCEPT ![p] = Holding(p, cache[v])]
            \/ push' = [push EXCEPT ![p] = [push[p] EXCEPT !.pc = "refresh"]]
        BY <3>2 DEF GetsLock, SecondLook
      <4>2. CASE fresh[v] /\ push' = [push EXCEPT ![p] = Holding(p, cache[v])]
        BY <4>2, <2>6
      <4>3. CASE push' = [push EXCEPT ![p] = [push[p] EXCEPT !.pc = "refresh"]]
        BY <4>3, <2>8
      <4> QED
        BY <4>1, <4>2, <4>3
    <3>3. CASE Refreshed(p)
      BY <3>3, <2>7 DEF Refreshed
    <3>4. CASE RefreshFails(p) \/ PushUnauthorized(p) \/ PushFails(p)
      BY <3>4, <2>4 DEF RefreshFails, PushUnauthorized, PushFails
    <3>5. CASE CsrfFetched(p)
      BY <3>5, <2>8 DEF CsrfFetched
    <3>6. CASE CsrfUnauthorized(p)
      BY <3>6, <2>8 DEF CsrfUnauthorized
    <3>7. CASE PushAccepted(p)
      BY <3>7, <2>8 DEF PushAccepted
    <3>8. CASE PushRejected(p)
      BY <3>8, <2>8 DEF PushRejected
    <3> QED
      BY <2>1, <3>1, <3>2, <3>3, <3>4, <3>5, <3>6, <3>7, <3>8 DEF PushStep
  <2> QED
    BY <2>3, <2>10 DEF Safe
<1> QED
  BY <1>1, TokenInvariant, PTL DEF Spec, DroppedIsNotReused

-----------------------------------------------------------------------------
(* The merge (aggregator.py). *)

(* A set of numbers has a least one. *)
LEMMA LeastOf ==
  ASSUME NEW S \in SUBSET Nat, S # {}
  PROVE  \E m \in S : \A k \in S : m <= k
<1>1. PICK m \in S : \A k \in S : <<k, m>> \notin OpToRel(<, Nat)
  BY NatLessThanWellFounded, WFMin, Zenon
<1>2. ASSUME NEW k \in S
      PROVE  m <= k
  <2>1. k \in Nat /\ m \in Nat
    OBVIOUS
  <2>2. ~(k < m)
    BY <1>1, <2>1 DEF OpToRel
  <2> QED
    BY <2>1, <2>2
<1> QED
  BY <1>2

(* The choice of anchors up to listing n. *)
Anchoring(ls, f, n) == \A i \in 1..n : f[i] = \A j \in 1..(i - 1) : f[j] => ~Joins(ls[i], ls[j])

(* There is one for every n: the least without one would be one more than  *)
(* a number that has one.                                                  *)
LEMMA AnchoringExists ==
  ASSUME NEW ls, NEW n \in Nat
  PROVE  \E f \in [1..n -> BOOLEAN] : Anchoring(ls, f, n)
<1> DEFINE Bad == {m \in Nat : ~ \E f \in [1..m -> BOOLEAN] : Anchoring(ls, f, m)}
<1> SUFFICES ASSUME Bad # {} PROVE FALSE
  OBVIOUS
<1>1. PICK m \in Bad : \A k \in Bad : m <= k
  BY LeastOf
<1>2. m \in Nat /\ ~ \E f \in [1..m -> BOOLEAN] : Anchoring(ls, f, m)
  BY <1>1
<1>3. \A k \in Nat : k < m => \E f \in [1..k -> BOOLEAN] : Anchoring(ls, f, k)
  BY <1>1, <1>2
<1> HIDE DEF Bad
<1>4. CASE m = 0
  <2>1. [i \in 1..0 |-> TRUE] \in [1..0 -> BOOLEAN] /\ Anchoring(ls, [i \in 1..0 |-> TRUE], 0)
    BY DEF Anchoring
  <2> QED
    BY <1>2, <1>4, <2>1
<1>5. CASE m # 0
  <2>1. m - 1 \in Nat /\ m - 1 < m
    BY <1>2, <1>5
  <2>2. PICK f \in [1..(m - 1) -> BOOLEAN] : Anchoring(ls, f, m - 1)
    BY <1>3, <2>1
  <2> DEFINE last == \A j \in 1..(m - 1) : f[j] => ~Joins(ls[m], ls[j])
             g == [i \in 1..m |-> IF i = m THEN last ELSE f[i]]
  <2>3. last \in BOOLEAN
    OBVIOUS
  <2> HIDE DEF last
  <2>4. g \in [1..m -> BOOLEAN] /\ (\A i \in 1..(m - 1) : g[i] = f[i]) /\ g[m] = last
    BY <1>2, <2>1, <2>2, <2>3
  <2> HIDE DEF g
  <2>5. ASSUME NEW i \in 1..m
        PROVE  g[i] = \A j \in 1..(i - 1) : g[j] => ~Joins(ls[i], ls[j])
    <3>1. \A j \in 1..(i - 1) : g[j] = f[j]
      BY <1>2, <2>4
    <3>2. CASE i = m
      BY <2>4, <3>1, <3>2 DEF last
    <3>3. CASE i # m
      <4>1. i \in 1..(m - 1)
        BY <1>2, <3>3
      <4>2. f[i] = \A j \in 1..(i - 1) : f[j] => ~Joins(ls[i], ls[j])
        BY <2>2, <4>1 DEF Anchoring
      <4> QED
        BY <2>4, <3>1, <4>1, <4>2
    <3> QED
      BY <3>2, <3>3
  <2>6. Anchoring(ls, g, m)
    BY <2>5 DEF Anchoring
  <2> QED
    BY <1>2, <2>4, <2>6
<1> QED
  BY <1>4, <1>5

LEMMA AnchorIs ==
  ASSUME NEW ls, Len(ls) \in Nat
  PROVE  /\ Anchor(ls) \in [1..Len(ls) -> BOOLEAN]
         /\ Anchoring(ls, Anchor(ls), Len(ls))
<1> DEFINE P(f) == f = [i \in 1..Len(ls) |-> \A j \in 1..(i - 1) : f[j] => ~Joins(ls[i], ls[j])]
<1>1. Anchor(ls) = CHOOSE f : P(f)
  BY DEF Anchor
<1>2. PICK f \in [1..Len(ls) -> BOOLEAN] : Anchoring(ls, f, Len(ls))
  BY AnchoringExists
<1>3. P(f)
  BY <1>2 DEF Anchoring
<1>4. P(CHOOSE h : P(h))
  <2> HIDE DEF P
  <2> QED
    BY <1>3, Zenon
<1> DEFINE a == Anchor(ls)
<1>5. a = [i \in 1..Len(ls) |-> \A j \in 1..(i - 1) : a[j] => ~Joins(ls[i], ls[j])]
  BY <1>1, <1>4, Zenon
<1> HIDE DEF a
<1>6. a \in [1..Len(ls) -> BOOLEAN] /\ Anchoring(ls, a, Len(ls))
  BY <1>5 DEF Anchoring
<1> QED
  BY <1>6 DEF a

(* Who takes a listing is an anchor of its bucket. *)
LEMMA TakenByAnAnchor ==
  ASSUME NEW ls, Len(ls) \in Nat, NEW i \in 1..Len(ls)
  PROVE  /\ TakenBy(ls, i) \in {a \in 1..Len(ls) : Anchor(ls)[a]}
         /\ SameBucket(ls[i], ls[TakenBy(ls, i)])
<1>1. CASE Anchor(ls)[i]
  BY <1>1 DEF TakenBy, SameBucket
<1>2. CASE ~Anchor(ls)[i]
  <2> DEFINE matches == {j \in 1..(i - 1) : Anchor(ls)[j] /\ Joins(ls[i], ls[j])}
             first == CHOOSE j \in matches : \A k \in matches : j <= k
  <2>1. Anchor(ls)[i] = \A j \in 1..(i - 1) : Anchor(ls)[j] => ~Joins(ls[i], ls[j])
    BY AnchorIs DEF Anchoring
  <2>2. matches \in SUBSET Nat /\ matches # {}
    BY <1>2, <2>1
  <2>3. \E j \in matches : \A k \in matches : j <= k
    <3> HIDE DEF matches
    <3> QED
      BY <2>2, LeastOf
  <2>4. first \in matches
    <3> HIDE DEF matches
    <3> QED
      BY <2>3
  <2>5. TakenBy(ls, i) = first
    BY <1>2 DEF TakenBy
  <2>6. \A j \in matches : j \in 1..Len(ls) /\ Anchor(ls)[j] /\ SameBucket(ls[i], ls[j])
    BY DEF Joins
  <2> QED
    BY <2>4, <2>5, <2>6
<1> QED
  BY <1>1, <1>2

(* The cheapest of a cluster. *)
LEMMA CanonicalIs ==
  ASSUME NEW ls \in Seq(Listing), NEW is \in SUBSET (1..Len(ls)), is # {}
  PROVE  /\ Canonical(ls, is) \in is
         /\ \A j \in is : ls[Canonical(ls, is)].item.price <= ls[j].item.price
<1> DEFINE prices == {ls[j].item.price : j \in is}
<1>1. ASSUME NEW j \in is
      PROVE  ls[j].item.price \in Nat
  <2>1. ls[j] \in Listing
    OBVIOUS
  <2>2. ls[j].item \in Items
    BY <2>1 DEF Listing
  <2> QED
    BY <2>2, ItemsAssumption
<1>2. \E p \in prices : \A q \in prices : p <= q
  <2>1. prices \in SUBSET Nat /\ prices # {}
    BY <1>1
  <2> HIDE DEF prices
  <2> QED
    BY <2>1, LeastOf
<1>3. \E i \in is : \A j \in is : ls[i].item.price <= ls[j].item.price
  BY <1>2
<1> QED
  BY <1>3 DEF Canonical

(* The merge loses nothing and adds nothing: each listing is found under   *)
(* an entry with its network, its signature and no higher price, and the   *)
(* sources of an entry are networks that listed something.                 *)
THEOREM MergeLosesNothing ==
  ASSUME NEW ls \in Seq(Listing)
  PROVE  /\ \A i \in 1..Len(ls) : \E e \in Merge(ls) : StandsFor(e, ls[i])
         /\ \A e \in Merge(ls) : e.sources \subseteq {ls[i].network : i \in 1..Len(ls)}
<1> DEFINE entry(a) ==
      LET is == Cluster(ls, a)
      IN  [item    |-> ls[Canonical(ls, is)].item,
           sources |-> {ls[i].network : i \in is},
           keys    |-> IF Cardinality(is) > 1 THEN {ls[i].item.id : i \in is} ELSE {}]
<1>1. Merge(ls) = {entry(a) : a \in {i \in 1..Len(ls) : Anchor(ls)[i]}}
  BY DEF Merge
<1>2. ASSUME NEW i \in 1..Len(ls)
      PROVE  \E e \in Merge(ls) : StandsFor(e, ls[i])
  <2> DEFINE a == TakenBy(ls, i)
             is == Cluster(ls, a)
             c == Canonical(ls, is)
  <2>1. a \in {j \in 1..Len(ls) : Anchor(ls)[j]}
    BY TakenByAnAnchor
  <2>2. is \in SUBSET (1..Len(ls)) /\ i \in is
    BY DEF Cluster
  <2>3. c \in is /\ \A j \in is : ls[c].item.price <= ls[j].item.price
    BY <2>2, CanonicalIs
  <2>4. \A j \in is : SameBucket(ls[j], ls[a])
    BY TakenByAnAnchor DEF Cluster
  <2>5. ls[c].item.sig = ls[i].item.sig
    BY <2>2, <2>3, <2>4 DEF SameBucket
  <2>6. Cardinality(is) > 1 \/ is = {i}
    <3>1. IsFiniteSet(is) /\ Cardinality(is) \in Nat
      <4>1. IsFiniteSet(1..Len(ls))
        BY FS_Interval
      <4> QED
        BY <2>2, <4>1, FS_Subset, FS_CardinalityType, Zenon
    <3>2. Cardinality({i}) = 1
      BY FS_Singleton
    <3>3. {i} \in SUBSET is
      BY <2>2
    <3>4. Cardinality({i}) <= Cardinality(is) /\ (Cardinality(is) = Cardinality({i}) => is = {i})
      BY <3>1, <3>3, FS_Subset, Zenon
    <3> QED
      BY <3>1, <3>2, <3>4
  <2> HIDE DEF a, is, c
  <2> DEFINE e == [item    |-> ls[c].item,
                   sources |-> {ls[j].network : j \in is},
                   keys    |-> IF Cardinality(is) > 1 THEN {ls[j].item.id : j \in is} ELSE {}]
  <2>7. ls[i].item.id \in e.keys \cup {e.item.id}
    <3>1. CASE Cardinality(is) > 1
      BY <2>2, <3>1
    <3>2. CASE is = {i}
      BY <2>3, <3>2
    <3> QED
      BY <2>6, <3>1, <3>2
  <2>8. StandsFor(e, ls[i])
    BY <2>2, <2>3, <2>5, <2>7 DEF StandsFor
  <2>9. e = entry(a)
    BY DEF a, is, c
  <2> QED
    BY <1>1, <2>1, <2>8, <2>9
<1>3. ASSUME NEW e \in Merge(ls)
      PROVE  e.sources \subseteq {ls[i].network : i \in 1..Len(ls)}
  <2>1. PICK a \in 1..Len(ls) : e = entry(a)
    BY <1>1
  <2>2. Cluster(ls, a) \subseteq 1..Len(ls)
    BY DEF Cluster
  <2> QED
    BY <2>1, <2>2
<1> QED
  BY <1>2, <1>3

-----------------------------------------------------------------------------
(* The fan-in (coordinator.py). *)

(* Sequences joined one after the other. *)
JoinedUp(b, f, n) == f[0] = <<>> /\ \A k \in 1..n : f[k] = f[k - 1] \o b[k]

LEMMA JoinedUpExists ==
  ASSUME NEW L, NEW N \in Nat, NEW b \in [1..N -> Seq(L)], NEW n \in 0..N
  PROVE  \E f \in [0..n -> Seq(L)] : JoinedUp(b, f, n)
<1> DEFINE Bad == {m \in 0..N : ~ \E f \in [0..m -> Seq(L)] : JoinedUp(b, f, m)}
<1> SUFFICES ASSUME Bad # {} PROVE FALSE
  OBVIOUS
<1>1. PICK m \in Bad : \A k \in Bad : m <= k
  <2>1. Bad \in SUBSET Nat
    OBVIOUS
  <2> HIDE DEF Bad
  <2> QED
    BY <2>1, LeastOf
<1>2. m \in 0..N /\ ~ \E f \in [0..m -> Seq(L)] : JoinedUp(b, f, m)
  BY <1>1
<1>3. ASSUME NEW k \in 0..N, k < m
      PROVE  \E f \in [0..k -> Seq(L)] : JoinedUp(b, f, k)
  <2>1. k \notin Bad
    <3> HIDE DEF Bad
    <3> QED
      BY <1>1, <1>2, <1>3
  <2> QED
    BY <2>1
<1> HIDE DEF Bad
<1>4. CASE m = 0
  <2>1. [k \in 0..0 |-> <<>>] \in [0..0 -> Seq(L)] /\ JoinedUp(b, [k \in 0..0 |-> <<>>], 0)
    BY DEF JoinedUp
  <2> QED
    BY <1>2, <1>4, <2>1
<1>5. CASE m # 0
  <2>1. m \in 1..N /\ m - 1 \in 0..N /\ m - 1 < m
    BY <1>2, <1>5
  <2>2. PICK f \in [0..(m - 1) -> Seq(L)] : JoinedUp(b, f, m - 1)
    BY <1>3, <2>1
  <2> DEFINE last == f[m - 1] \o b[m]
             g == [k \in 0..m |-> IF k = m THEN last ELSE f[k]]
  <2>3. last \in Seq(L)
    BY <2>1
  <2> HIDE DEF last
  <2>4. g \in [0..m -> Seq(L)] /\ (\A k \in 0..(m - 1) : g[k] = f[k]) /\ g[m] = last
    BY <2>1, <2>3
  <2> HIDE DEF g
  <2>5. ASSUME NEW k \in 1..m
        PROVE  g[k] = g[k - 1] \o b[k]
    <3>1. k - 1 \in 0..(m - 1)
      BY <2>1
    <3>2. CASE k = m
      BY <2>4, <3>1, <3>2 DEF last
    <3>3. CASE k # m
      <4>1. k \in 1..(m - 1) /\ k \in 0..(m - 1)
        BY <2>1, <3>3
      <4> QED
        BY <2>2, <2>4, <3>1, <4>1 DEF JoinedUp
    <3> QED
      BY <3>2, <3>3
  <2>6. g[0] = <<>>
    BY <2>1, <2>2, <2>4 DEF JoinedUp
  <2>7. JoinedUp(b, g, m)
    BY <2>5, <2>6 DEF JoinedUp
  <2> QED
    BY <1>2, <2>4, <2>7
<1> QED
  BY <1>4, <1>5

(* Sequence c has everything that is in b[1] ... b[n]. *)
HasAll(c, b, n) == \A j \in 1..n : \A i \in 1..Len(b[j]) : \E p \in 1..Len(c) : c[p] = b[j][i]

(* Nothing gets lost in joining. *)
LEMMA JoinedUpHasAll ==
  ASSUME NEW L, NEW N \in Nat, NEW b \in [1..N -> Seq(L)],
         NEW f \in [0..N -> Seq(L)], JoinedUp(b, f, N)
  PROVE  HasAll(f[N], b, N)
<1> SUFFICES ASSUME NEW j \in 1..N, NEW i \in 1..Len(b[j])
             PROVE  \E p \in 1..Len(f[N]) : f[N][p] = b[j][i]
  BY DEF HasAll
<1> DEFINE Has(m) == \E p \in 1..Len(f[m]) : f[m][p] = b[j][i]
           Bad == {m \in j..N : ~Has(m)}
<1> SUFFICES ASSUME ~Has(N) PROVE FALSE
  OBVIOUS
<1> HIDE DEF Has
<1>1. PICK m \in Bad : \A k \in Bad : m <= k
  <2>1. Bad \in SUBSET Nat /\ N \in Bad
    OBVIOUS
  <2> HIDE DEF Bad
  <2> QED
    BY <2>1, LeastOf
<1>2. m \in j..N /\ ~Has(m) /\ (m - 1 \in j..N => Has(m - 1))
  <2>1. m \in j..N /\ ~Has(m)
    BY <1>1
  <2>2. m - 1 \notin Bad
    <3> HIDE DEF Bad
    <3> QED
      BY <1>1, <2>1
  <2> QED
    BY <2>1, <2>2
<1> USE DEF Has
<1> HIDE DEF Bad
<1>3. m \in 1..N /\ m - 1 \in 0..N
  BY <1>2
<1>4. f[m - 1] \in Seq(L) /\ b[m] \in Seq(L) /\ f[m] = f[m - 1] \o b[m]
  BY <1>3 DEF JoinedUp
<1> DEFINE u == f[m - 1]
           v == b[m]
<1>5. /\ Len(f[m]) = Len(u) + Len(v)
      /\ \A p \in 1..Len(u) : f[m][p] = u[p]
      /\ \A p \in 1..Len(v) : f[m][Len(u) + p] = v[p]
  <2> HIDE DEF u, v
  <2>1. u \in Seq(L) /\ v \in Seq(L) /\ f[m] = u \o v
    BY <1>4 DEF u, v
  <2> QED
    BY <2>1
<1>6. Len(u) \in Nat /\ Len(v) \in Nat
  BY <1>4
<1>7. CASE m = j
  <2>1. i \in 1..Len(v) /\ v[i] = b[j][i]
    BY <1>7
  <2> HIDE DEF u, v
  <2>2. Len(u) + i \in 1..Len(f[m]) /\ f[m][Len(u) + i] = b[j][i]
    <3>1. i \in Nat /\ 1 <= i /\ i <= Len(v)
      BY <1>6, <2>1
    <3>2. f[m][Len(u) + i] = v[i]
      BY <1>5, <2>1
    <3>3. Len(f[m]) = Len(u) + Len(v)
      BY <1>5
    <3>4. Len(u) + i \in 1..Len(f[m])
      BY <1>6, <3>1, <3>3
    <3> QED
      BY <2>1, <3>2, <3>4
  <2> QED
    BY <1>2, <2>2
<1>8. CASE m # j
  <2>0. m - 1 \in j..N
    BY <1>2, <1>8
  <2>1. PICK p \in 1..Len(u) : u[p] = b[j][i]
    BY <1>2, <2>0
  <2> HIDE DEF u, v
  <2>2. p \in 1..Len(f[m]) /\ f[m][p] = b[j][i]
    BY <1>5, <1>6, <2>1
  <2> QED
    BY <1>2, <2>2
<1> QED
  BY <1>7, <1>8

(* It can be done in one way. *)
LEMMA JoinedUpIsOne ==
  ASSUME NEW N \in Nat, NEW b, NEW f, NEW g, JoinedUp(b, f, N), JoinedUp(b, g, N), NEW n \in 0..N
  PROVE  f[n] = g[n]
<1> DEFINE Bad == {m \in 0..N : f[m] # g[m]}
<1> SUFFICES ASSUME n \in Bad PROVE FALSE
  OBVIOUS
<1>1. PICK m \in Bad : \A k \in Bad : m <= k
  <2>1. Bad \in SUBSET Nat
    OBVIOUS
  <2> HIDE DEF Bad
  <2> QED
    BY <2>1, LeastOf
<1>2. m \in 0..N /\ f[m] # g[m]
  BY <1>1
<1>3. CASE m = 0
  BY <1>2, <1>3 DEF JoinedUp
<1>4. CASE m # 0
  <2>1. m - 1 \in 0..N /\ m \in 1..N /\ m - 1 < m
    BY <1>2, <1>4
  <2>2. m - 1 \notin Bad
    <3> HIDE DEF Bad
    <3> QED
      BY <1>1, <1>2, <2>1
  <2>3. f[m - 1] = g[m - 1]
    BY <2>1, <2>2
  <2> QED
    BY <1>2, <2>1, <2>3 DEF JoinedUp
<1> QED
  BY <1>3, <1>4

(* Every network has its place in the order. *)
LEMMA OrderIs ==
  /\ Cardinality(Networks) \in Nat
  /\ Order \in [1..Cardinality(Networks) -> Networks]
  /\ \A n \in Networks : \E k \in 1..Cardinality(Networks) : Order[k] = n
<1> DEFINE N == Cardinality(Networks)
<1>1. IsFiniteSet(Networks)
  BY AnswersAssumption
<1>2. N \in Nat /\ ExistsBijection(1..N, Networks)
  BY <1>1, FS_CardinalityType
<1>3. \E f \in [1..N -> Networks] : \A i, j \in 1..N : f[i] = f[j] => i = j
  <2>1. PICK f \in Bijection(1..N, Networks) : TRUE
    BY <1>2 DEF ExistsBijection
  <2>2. f \in [1..N -> Networks] /\ \A i, j \in 1..N : f[i] = f[j] => i = j
    BY <2>1 DEF Bijection, Injection, IsInjective
  <2> QED
    BY <2>2
<1>4. Order \in [1..N -> Networks] /\ \A i, j \in 1..N : Order[i] = Order[j] => i = j
  BY <1>3 DEF Order
<1>5. Order \in Injection(1..N, Networks)
  BY <1>4 DEF Injection, IsInjective
<1>6. IsFiniteSet(1..N) /\ Cardinality(1..N) = N
  BY <1>2, FS_Interval
<1>7. Order \in Surjection(1..N, Networks)
  BY <1>1, <1>5, <1>6, FS_Injection
<1> QED
  BY <1>2, <1>4, <1>7 DEF Surjection

(* Listings are of networks that answered, and all that these listed. *)
LEMMA ListingsAre ==
  ASSUME SearchInv, NEW s \in Searches
  PROVE  /\ Listings(s) \in Seq([item : Items, network : Responded(s)])
         /\ \A n \in Networks : \A i \in 1..Len(result[s][n].items) :
              \E p \in 1..Len(Listings(s)) : Listings(s)[p] = Answer(s, n)[i]
<1> DEFINE N == Cardinality(Networks)
           L == [item : Items, network : Responded(s)]
           b == [k \in 1..N |-> Answer(s, Order[k])]
           P(f) == f = [k \in 0..N |-> IF k = 0 THEN <<>> ELSE f[k - 1] \o Answer(s, Order[k])]
           all == CHOOSE f : P(f)
<1>1. N \in Nat /\ Order \in [1..N -> Networks]
  BY OrderIs
<1>2. ASSUME NEW n \in Networks
      PROVE  Answer(s, n) \in Seq(L) /\ Len(Answer(s, n)) = Len(result[s][n].items)
  <2>1. result[s][n].items \in Seq(Items)
    BY DEF SearchInv, SearchTypeOK, NetworkResult
  <2>2. result[s][n].items = <<>> \/ n \in Responded(s)
    BY DEF SearchInv, Responded
  <2>3. \A i \in 1..Len(result[s][n].items) :
          [item |-> result[s][n].items[i], network |-> n] \in L
    BY <2>1, <2>2
  <2> QED
    BY <2>1, <2>3 DEF Answer
<1>3. b \in [1..N -> Seq(L)]
  <2>1. \A k \in 1..N : Answer(s, Order[k]) \in Seq(L)
    BY <1>1, <1>2
  <2> HIDE DEF L
  <2> QED
    BY <2>1
<1>4. PICK f \in [0..N -> Seq(L)] : JoinedUp(b, f, N)
  <2> HIDE DEF L, b, N
  <2> QED
    BY <1>1, <1>3, JoinedUpExists
<1>5. P(f)
  <2> HIDE DEF L, N
  <2>1. f[0] = <<>> /\ \A k \in 1..N : f[k] = f[k - 1] \o Answer(s, Order[k])
    BY <1>1, <1>4 DEF JoinedUp
  <2>2. ASSUME NEW k \in 0..N
        PROVE  f[k] = IF k = 0 THEN <<>> ELSE f[k - 1] \o Answer(s, Order[k])
    <3>1. CASE k = 0
      BY <2>1, <3>1
    <3>2. CASE k # 0
      <4>1. k \in 1..N
        BY <1>1, <3>2
      <4>2. f[k] = f[k - 1] \o Answer(s, Order[k])
        BY <2>1, <4>1
      <4> QED
        BY <3>2, <4>2
    <3> QED
      BY <3>1, <3>2
  <2> QED
    BY <1>4, <2>2
<1>6. P(all)
  <2> HIDE DEF P
  <2> QED
    BY <1>5, Zenon
<1>7. Listings(s) = all[N]
  BY DEF Listings
<1> HIDE DEF all
<1>8. JoinedUp(b, all, N)
  <2> HIDE DEF N
  <2>1. \A k \in 0..N : all[k] = IF k = 0 THEN <<>> ELSE all[k - 1] \o Answer(s, Order[k])
    BY <1>6, Zenon
  <2>2. all[0] = <<>>
    BY <1>1, <2>1
  <2>3. ASSUME NEW k \in 1..N
        PROVE  all[k] = all[k - 1] \o b[k]
    <3>1. k \in 0..N /\ k # 0
      BY <1>1
    <3>2. all[k] = all[k - 1] \o Answer(s, Order[k])
      BY <2>1, <3>1
    <3> QED
      BY <3>2
  <2> QED
    BY <2>2, <2>3 DEF JoinedUp
<1>9. Listings(s) = f[N]
  <2>1. N \in 0..N
    BY <1>1
  <2> HIDE DEF N, b, L
  <2> QED
    BY <1>1, <1>4, <1>7, <1>8, <2>1, JoinedUpIsOne
<1>10. ASSUME NEW n \in Networks, NEW i \in 1..Len(result[s][n].items)
       PROVE  \E p \in 1..Len(Listings(s)) : Listings(s)[p] = Answer(s, n)[i]
  <2>1. PICK k \in 1..N : Order[k] = n
    BY OrderIs
  <2>2. b[k] = Answer(s, n)
    BY <2>1
  <2>3. i \in 1..Len(b[k])
    BY <1>2, <2>2
  <2>4. \E p \in 1..Len(f[N]) : f[N][p] = b[k][i]
    <3>1. HasAll(f[N], b, N)
      <4> HIDE DEF N, b, L
      <4> QED
        BY <1>1, <1>3, <1>4, JoinedUpHasAll
    <3> QED
      BY <2>3, <3>1 DEF HasAll
  <2> QED
    BY <1>9, <2>2, <2>4
<1>11. Listings(s) \in Seq(L)
  <2>1. N \in 0..N
    BY <1>1
  <2> HIDE DEF N, L
  <2> QED
    BY <1>4, <1>9, <2>1
<1> QED
  BY <1>10, <1>11

(* Every operation of a search leaves what NothingLost rests on. *)
LEMMA SearchInvInit == SearchInit => SearchInv
BY DEF SearchInit, SearchInv, SearchTypeOK, NetworkResult, CircuitStates, Statuses, FansIn

LEMMA ResultMoves ==
  ASSUME SearchInv, NEW s \in Searches, NEW n \in Networks,
         NEW status \in Statuses, NEW items \in Seq(Items), EndsWith(s, n, status, items),
         status # "ok" => items = <<>>
  PROVE  /\ result' \in [Searches -> [Networks -> NetworkResult]]
         /\ \A t \in Searches, m \in Networks : result'[t][m].status # "ok" => result'[t][m].items = <<>>
         /\ \A t \in Searches, m \in Networks : <<t, m>> # <<s, n>> => result'[t][m] = result[t][m]
         /\ result'[s][n].status = status
BY DEF SearchInv, SearchTypeOK, EndsWith, NetworkResult

LEMMA BreakersAreTyped ==
  ASSUME NEW b \in [state : CircuitStates, count : Nat, elapsed : BOOLEAN]
  PROVE  {AfterAllow(b), RecordSuccess(b), RecordFailure(b)}
           \subseteq [state : CircuitStates, count : Nat, elapsed : BOOLEAN]
<1> DEFINE Circuit == [state : CircuitStates, count : Nat, elapsed : BOOLEAN]
<1>1. AfterAllow(b) \in Circuit
  BY DEF AfterAllow, CircuitStates
<1>2. RecordSuccess(b) \in Circuit
  BY DEF RecordSuccess, CircuitStates
<1>3. RecordFailure(b) \in Circuit
  <2> DEFINE trips == b.state = "half_open" \/ b.count + 1 >= FailureThreshold
  <2>1. b.state \in CircuitStates /\ b.count \in Nat /\ b.elapsed \in BOOLEAN /\ "open" \in CircuitStates
    BY DEF CircuitStates
  <2>2. RecordFailure(b) = [state   |-> IF trips THEN "open" ELSE b.state,
                            count   |-> b.count + 1,
                            elapsed |-> IF trips THEN FALSE ELSE b.elapsed]
    BY DEF RecordFailure
  <2>3. (IF trips THEN "open" ELSE b.state) \in CircuitStates
    BY <2>1
  <2>4. (IF trips THEN FALSE ELSE b.elapsed) \in BOOLEAN
    BY <2>1
  <2>5. b.count + 1 \in Nat
    BY <2>1
  <2>6. \A state \in CircuitStates, count \in Nat, elapsed \in BOOLEAN :
          [state |-> state, count |-> count, elapsed |-> elapsed] \in Circuit
    OBVIOUS
  <2> HIDE DEF Circuit
  <2> QED
    BY <2>2, <2>3, <2>4, <2>5, <2>6
<1> QED
  BY <1>1, <1>2, <1>3

LEMMA SearchInvStep == SearchInv /\ [SearchNext]_searchVars => SearchInv'
<1> SUFFICES ASSUME SearchInv, [SearchNext]_searchVars
             PROVE  SearchInv'
  OBVIOUS
<1> DEFINE Circuit == [state : CircuitStates, count : Nat, elapsed : BOOLEAN]
<1>0. /\ breaker \in [Networks -> Circuit]
      /\ search \in [Searches -> {"new", "out", "done", "cancelled"}]
      /\ result \in [Searches -> [Networks -> NetworkResult]]
  BY DEF SearchInv, SearchTypeOK
<1>1. ASSUME NEW s \in Searches, Begins(s)
      PROVE  SearchInv'
  BY <1>0, <1>1 DEF Begins, SearchInv, SearchTypeOK, FansIn
<1>2. ASSUME NEW s \in Searches, Done(s)
      PROVE  SearchInv'
  BY <1>0, <1>2 DEF Done, SearchInv, SearchTypeOK, FansIn
<1>3. ASSUME NEW s \in Searches, Cancelled(s)
      PROVE  SearchInv'
  <2>1. breaker' \in [Networks -> Circuit]
    <3>1. \A n \in Networks : RecordFailure(breaker[n]) \in Circuit
      BY <1>0, BreakersAreTyped
    <3> HIDE DEF Circuit
    <3> QED
      BY <1>0, <1>3, <3>1 DEF Cancelled
  <2>2. search' = [search EXCEPT ![s] = "cancelled"]
    BY <1>3 DEF Cancelled
  <2>3. ASSUME NEW n \in Networks
        PROVE  result'[s][n] = IF result[s][n].status = "calling"
                               THEN [status |-> "error", items |-> <<>>] ELSE result[s][n]
    BY <1>0, <1>3 DEF Cancelled
  <2>4. \A t \in Searches : t # s => result'[t] = result[t]
    BY <1>0, <1>3 DEF Cancelled
  <2>5. result' \in [Searches -> [Networks -> NetworkResult]]
    <3>1. [status |-> "error", items |-> <<>>] \in NetworkResult
      BY DEF NetworkResult, Statuses
    <3> HIDE DEF NetworkResult
    <3>2. [n \in Networks |-> IF result[s][n].status = "calling"
                              THEN [status |-> "error", items |-> <<>>] ELSE result[s][n]]
             \in [Networks -> NetworkResult]
      BY <1>0, <3>1
    <3> QED
      BY <1>0, <1>3, <3>2 DEF Cancelled
  <2>6. \A t \in Searches, n \in Networks : result'[t][n].status # "ok" => result'[t][n].items = <<>>
    BY <2>3, <2>4 DEF SearchInv
  <2>7. \A t \in Searches : search'[t] = "done" => FansIn(t)'
    BY <1>0, <2>2, <2>4 DEF SearchInv, FansIn
  <2> QED
    BY <1>0, <2>1, <2>2, <2>5, <2>6, <2>7 DEF SearchInv, SearchTypeOK
<1>4. ASSUME NEW s \in Searches, NEW n \in Networks, NEW status \in Statuses, NEW items \in Seq(Items),
             EndsWith(s, n, status, items), status # "ok" => items = <<>>,
             breaker' \in [Networks -> Circuit], search' = search,
             search[s] = "out" \/ result[s][n].status = "calling"
      PROVE  SearchInv'
  <2>1. /\ result' \in [Searches -> [Networks -> NetworkResult]]
        /\ \A t \in Searches, m \in Networks : result'[t][m].status # "ok" => result'[t][m].items = <<>>
        /\ \A t \in Searches, m \in Networks : <<t, m>> # <<s, n>> => result'[t][m] = result[t][m]
    BY <1>4, ResultMoves
  <2>2. search[s] # "done"
    BY <1>4 DEF SearchInv, FansIn
  <2>3. \A t \in Searches : search[t] = "done" => FansIn(t)'
    BY <2>1, <2>2 DEF SearchInv, FansIn
  <2> QED
    BY <1>0, <1>4, <2>1, <2>3 DEF SearchInv, SearchTypeOK
<1>5. ASSUME NEW s \in Searches, NEW n \in Networks,
             CallsNetwork(s, n) \/ Succeeds(s, n) \/ Fails(s, n)
      PROVE  SearchInv'
  <2>1. breaker' \in [Networks -> Circuit] /\ search' = search
    <3>1. {AfterAllow(breaker[n]), RecordSuccess(breaker[n]), RecordFailure(breaker[n])} \subseteq Circuit
      BY <1>0, BreakersAreTyped
    <3> HIDE DEF Circuit
    <3> QED
      BY <1>0, <1>5, <3>1 DEF CallsNetwork, Succeeds, Fails
  <2>2. CASE CallsNetwork(s, n)
    <3> DEFINE status == IF AllowsRequest(breaker[n]) THEN "calling" ELSE "circuit_open"
    <3>1. EndsWith(s, n, status, <<>>) /\ search[s] = "out"
      BY <2>2 DEF CallsNetwork
    <3>2. status \in Statuses /\ status # "ok" /\ <<>> \in Seq(Items)
      BY DEF Statuses
    <3> HIDE DEF status, Circuit
    <3> QED
      BY <1>4, <2>1, <3>1, <3>2
  <2>3. CASE Succeeds(s, n)
    <3>1. PICK items \in Answers[n] : EndsWith(s, n, "ok", items)
      BY <2>3 DEF Succeeds
    <3>2. items \in Seq(Items) /\ "ok" \in Statuses
      BY AnswersAssumption DEF Statuses
    <3>3. result[s][n].status = "calling"
      BY <2>3 DEF Succeeds
    <3> HIDE DEF Circuit
    <3> QED
      BY <1>4, <2>1, <3>1, <3>2, <3>3
  <2>4. CASE Fails(s, n)
    <3>1. EndsWith(s, n, "error", <<>>) /\ result[s][n].status = "calling"
      BY <2>4 DEF Fails
    <3>2. "error" \in Statuses /\ <<>> \in Seq(Items)
      BY DEF Statuses
    <3> HIDE DEF Circuit
    <3> QED
      BY <1>4, <2>1, <3>1, <3>2
  <2> QED
    BY <1>5, <2>2, <2>3, <2>4
<1>6. ASSUME NEW n \in Networks, RecoveryElapses(n)
      PROVE  SearchInv'
  BY <1>0, <1>6 DEF RecoveryElapses, SearchInv, SearchTypeOK, FansIn
<1>7. CASE UNCHANGED searchVars
  BY <1>7 DEF searchVars, SearchInv, SearchTypeOK, FansIn
<1> QED
  BY <1>1, <1>2, <1>3, <1>5, <1>6, <1>7 DEF SearchNext

(* It holds in every reachable state, for any networks, searches, answers  *)
(* and threshold of the breakers.                                          *)
THEOREM SearchInvariant == SearchSpec => []SearchInv
BY SearchInvInit, SearchInvStep, PTL DEF SearchSpec

(* A search that returns accounts for every network, and each item of those *)
(* that answered stands in its catalogue, under an entry that names the    *)
(* network and is no dearer (MultiNetworkCoordinator.search and            *)
(* ResultAggregator.aggregate).                                            *)
THEOREM NothingGetsLost == SearchSpec => []NothingLost
<1>1. ASSUME SearchInv PROVE NothingLost
  <2> SUFFICES ASSUME NEW s \in Searches, search[s] = "done"
               PROVE  /\ Responded(s) \cup Failed(s) = Networks
                      /\ \A n \in Responded(s) : \A i \in 1..Len(result[s][n].items) :
                           \E e \in Catalogue(s) : StandsFor(e, Answer(s, n)[i])
                      /\ \A e \in Catalogue(s) : e.sources \subseteq Responded(s)
    BY DEF NothingLost
  <2> DEFINE ls == Listings(s)
             L == [item : Items, network : Responded(s)]
  <2>1. Responded(s) \cup Failed(s) = Networks
    BY <1>1 DEF SearchInv, SearchTypeOK, NetworkResult, Statuses, FansIn, Responded, Failed
  <2>2. ls \in Seq(L)
    BY <1>1, ListingsAre
  <2>3. Responded(s) \subseteq Networks
    BY DEF Responded
  <2>4. ls \in Seq(Listing)
    <3>1. L \subseteq Listing
      BY <2>3 DEF Listing
    <3> HIDE DEF ls, L
    <3> QED
      BY <2>2, <3>1
  <2>5. /\ \A i \in 1..Len(ls) : \E e \in Merge(ls) : StandsFor(e, ls[i])
        /\ \A e \in Merge(ls) : e.sources \subseteq {ls[i].network : i \in 1..Len(ls)}
    <3> HIDE DEF ls
    <3> QED
      BY <2>4, MergeLosesNothing
  <2>6. Catalogue(s) = Merge(ls)
    BY DEF Catalogue
  <2>7. ASSUME NEW n \in Responded(s), NEW i \in 1..Len(result[s][n].items)
        PROVE  \E e \in Catalogue(s) : StandsFor(e, Answer(s, n)[i])
    <3>1. PICK p \in 1..Len(ls) : ls[p] = Answer(s, n)[i]
      BY <1>1, <2>3, ListingsAre
    <3> QED
      BY <2>5, <2>6, <3>1
  <2>8. ASSUME NEW e \in Catalogue(s)
        PROVE  e.sources \subseteq Responded(s)
    <3>1. ASSUME NEW i \in 1..Len(ls)
          PROVE  ls[i].network \in Responded(s)
      <4>1. ls[i] \in L
        <5> HIDE DEF ls, L
        <5> QED
          BY <2>2
      <4> QED
        BY <4>1
    <3> QED
      BY <2>5, <2>6, <3>1
  <2> QED
    BY <2>1, <2>7, <2>8
<1> QED
  BY <1>1, SearchInvariant, PTL
=============================================================================

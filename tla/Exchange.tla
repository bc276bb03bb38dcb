-------------------------------- MODULE Exchange --------------------------------
(***************************************************************************)
(* What the BAP client promises its callers: a call of a key is given      *)
(* callbacks that sellers sent for that key, each callback is given to one *)
(* call at most, and none after the call has ended.  Nothing is promised   *)
(* about how many.                                                         *)
(***************************************************************************)
CONSTANTS Calls, Keys, Callbacks, None

VARIABLES
  asked,   \* asked[c]: the key of call c, None before
  open,    \* calls that may still be given callbacks
  said,    \* callbacks sellers have sent
  taken    \* taken[c]: callbacks given to call c

vars == <<asked, open, said, taken>>

Init ==
  /\ asked = [c \in Calls |-> None]
  /\ open = {}
  /\ said = {}
  /\ taken = [c \in Calls |-> {}]

Ask(c, k) ==
  /\ asked[c] = None
  /\ asked' = [asked EXCEPT ![c] = k]
  /\ open' = open \cup {c}
  /\ UNCHANGED <<said, taken>>

(* A seller answers a call that was made, under its key. *)
Say(cb) ==
  /\ asked[cb.call] = cb.key
  /\ said' = said \cup {cb}
  /\ UNCHANGED <<asked, open, taken>>

Give(c, cb) ==
  /\ c \in open
  /\ cb \in said
  /\ cb.key = asked[c]
  /\ \A d \in Calls : cb \notin taken[d]
  /\ taken' = [taken EXCEPT ![c] = @ \cup {cb}]
  /\ UNCHANGED <<asked, open, said>>

(* One call ends, or the client restarts and all do. *)
End(cs) ==
  /\ open' = open \ cs
  /\ UNCHANGED <<asked, said, taken>>

Next ==
  \/ \E c \in Calls, k \in Keys : Ask(c, k)
  \/ \E cb \in Callbacks : Say(cb)
  \/ \E c \in Calls, cb \in Callbacks : Give(c, cb)
  \/ \E cs \in SUBSET Calls : End(cs)

Spec == Init /\ [][Next]_vars
=============================================================================

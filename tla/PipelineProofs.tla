---------------------------- MODULE PipelineProofs ----------------------------
(***************************************************************************)
(* Theorems about the pipeline and the records it leaves, for any number   *)
(* of requests under way, any items, queries and histories, and any number *)
(* of faults.                                                              *)
(***************************************************************************)
EXTENDS Pipeline, FiniteSetTheorems, WellFoundedInduction, TLAPS

-----------------------------------------------------------------------------
(* The programs. *)

(* Where a step stands in the program of /run, of which that of /compare   *)
(* is the beginning.                                                       *)
Place(step) ==
  CASE step = "create" -> 1       [] step = "intent" -> 2    [] step = "discovering" -> 3
    [] step = "discover" -> 4     [] step = "discovery" -> 5 [] step = "scoring" -> 6
    [] step = "score" -> 7        [] step = "scores" -> 8    [] step = "negotiating" -> 9
    [] step = "confirm" -> 10     [] step = "confirmed" -> 11 [] step = "order" -> 12

LEMMA KindsAre == Kinds = {"compare", "run", "direct", "pipeline"}
BY DEF Kinds, Program

LEMMA ComparePlaces ==
  /\ DOMAIN Program["compare"] = 1..9
  /\ \A i \in 1..9 : Place(Program["compare"][i]) = i
<1>1. Program["compare"] = Phase
  BY DEF Program
<1> QED
  BY <1>1 DEF Phase, Place

AllSteps == Posts \cup Patches \cup Calls

LEMMA PhaseIs == Phase \in Seq(AllSteps) /\ Len(Phase) = 9
BY DEF Phase, AllSteps, Posts, Patches, Calls

(* Sequences joined, and one without its head. *)
LEMMA Joined ==
  ASSUME NEW p \in Seq(AllSteps), NEW q \in Seq(AllSteps), NEW r, r = p \o q
  PROVE  /\ r \in Seq(AllSteps) /\ Len(r) = Len(p) + Len(q)
         /\ DOMAIN r = 1 .. (Len(p) + Len(q))
         /\ \A i \in 1 .. Len(p) : r[i] = p[i]
         /\ \A i \in (Len(p) + 1) .. (Len(p) + Len(q)) : r[i] = q[i - Len(p)]
OBVIOUS

LEMMA Tailed ==
  ASSUME NEW p \in Seq(AllSteps), p # <<>>, NEW r, r = Tail(p)
  PROVE  /\ r \in Seq(AllSteps) /\ Len(r) = Len(p) - 1
         /\ \A i \in 1 .. Len(p) - 1 : r[i] = p[i + 1]
OBVIOUS

LEMMA RunSteps ==
  /\ DOMAIN Program["run"] = 1..12
  /\ \A i \in 1..12 : Program["run"][i] =
        <<"create", "intent", "discovering", "discover", "discovery", "scoring",
          "score", "scores", "negotiating", "confirm", "confirmed", "order">>[i]
<1> DEFINE rest == <<"confirm", "confirmed", "order">>
<1>1. Program["run"] = Phase \o rest
  BY DEF Program
<1>2. rest \in Seq(AllSteps) /\ Len(rest) = 3
  BY DEF AllSteps, Posts, Patches, Calls
<1>3. \A i \in 1..12 : (Phase \o rest)[i] =
        <<"create", "intent", "discovering", "discover", "discovery", "scoring",
          "score", "scores", "negotiating", "confirm", "confirmed", "order">>[i]
  BY DEF Phase
<1> HIDE DEF rest
<1>4. DOMAIN Program["run"] = 1 .. (Len(Phase) + Len(rest))
  BY <1>1, <1>2, PhaseIs, Joined, Zenon
<1>5. DOMAIN Program["run"] = 1..12
  BY <1>2, <1>4, PhaseIs
<1>6. \A i \in 1..12 : Program["run"][i] =
        <<"create", "intent", "discovering", "discover", "discovery", "scoring",
          "score", "scores", "negotiating", "confirm", "confirmed", "order">>[i]
  BY <1>1, <1>3, Zenon
<1> QED
  BY <1>5, <1>6

LEMMA RunPlaces == \A i \in 1..12 : Place(Program["run"][i]) = i
BY RunSteps DEF Place

LEMMA DirectSteps ==
  /\ Direct \in Seq(AllSteps) /\ Len(Direct) = 11 /\ DOMAIN Direct = 1..11
  /\ \A i \in 1..11 : Direct[i] =
       <<"create", "intent", "discovering", "discover", "discovery", "scoring",
         "score", "scores", "negotiating", "memory", "select">>[i]
<1> DEFINE rest == <<"memory", "select">>
<1>1. Direct = Phase \o rest
  BY DEF Direct
<1>2. rest \in Seq(AllSteps) /\ Len(rest) = 2
  BY DEF AllSteps, Posts, Patches, Calls
<1>3. \A i \in 1..11 : (Phase \o rest)[i] =
       <<"create", "intent", "discovering", "discover", "discovery", "scoring",
         "score", "scores", "negotiating", "memory", "select">>[i]
  BY DEF Phase
<1> HIDE DEF rest
<1>4. /\ Direct \in Seq(AllSteps) /\ Len(Direct) = Len(Phase) + Len(rest)
      /\ DOMAIN Direct = 1 .. (Len(Phase) + Len(rest))
  BY <1>1, <1>2, PhaseIs, Joined, Zenon
<1>5. Direct \in Seq(AllSteps) /\ Len(Direct) = 11 /\ DOMAIN Direct = 1..11
  BY <1>2, <1>4, PhaseIs
<1> QED
  BY <1>1, <1>3, <1>5, Zenon

LEMMA PipelineSteps ==
  /\ DOMAIN Program["pipeline"] = 1..13
  /\ \A i \in 1..13 : Program["pipeline"][i] =
       <<"create", "parsing", "parse", "intent", "discovering", "discover", "discovery",
         "scoring", "score", "scores", "negotiating", "memory", "select">>[i]
<1> DEFINE tail == Tail(Direct)
           head == <<"create", "parsing", "parse">>
<1>1. Program["pipeline"] = head \o tail
  BY DEF Program
<1>2. head \in Seq(AllSteps) /\ Len(head) = 3
  BY DEF AllSteps, Posts, Patches, Calls
<1>3. \A i \in 1..3 : head[i] = <<"create", "parsing", "parse">>[i]
  OBVIOUS
<1>4. Len(tail) = 10 /\ tail \in Seq(AllSteps) /\ \A i \in 1..10 : tail[i] = Direct[i + 1]
  <2>1. Direct # <<>>
    BY DirectSteps
  <2>2. /\ tail \in Seq(AllSteps) /\ Len(tail) = Len(Direct) - 1
        /\ \A i \in 1 .. Len(Direct) - 1 : tail[i] = Direct[i + 1]
    BY <2>1, DirectSteps, Tailed, Zenon
  <2> HIDE DEF tail
  <2> QED
    BY <2>2, DirectSteps
<1> HIDE DEF tail, head
<1>5. \A i \in 1..10 : tail[i] =
        <<"intent", "discovering", "discover", "discovery", "scoring",
          "score", "scores", "negotiating", "memory", "select">>[i]
  <2>1. \A i \in 2..11 : Direct[i] =
          <<"intent", "discovering", "discover", "discovery", "scoring",
            "score", "scores", "negotiating", "memory", "select">>[i - 1]
    BY DirectSteps
  <2> QED
    BY <1>4, <2>1
<1>6. /\ DOMAIN Program["pipeline"] = 1 .. (Len(head) + Len(tail))
      /\ \A i \in 1 .. Len(head) : Program["pipeline"][i] = head[i]
      /\ \A i \in (Len(head) + 1) .. (Len(head) + Len(tail)) : Program["pipeline"][i] = tail[i - Len(head)]
  <2>1. head \in Seq(AllSteps) /\ tail \in Seq(AllSteps) /\ Program["pipeline"] = head \o tail
    BY <1>1, <1>2, <1>4, Zenon
  <2>2. DOMAIN Program["pipeline"] = 1 .. (Len(head) + Len(tail))
    BY <2>1, Joined, Zenon
  <2>3. \A i \in 1 .. Len(head) : Program["pipeline"][i] = head[i]
    BY <2>1
  <2>4. \A i \in (Len(head) + 1) .. (Len(head) + Len(tail)) : Program["pipeline"][i] = tail[i - Len(head)]
    BY <2>1
  <2> QED
    BY <2>2, <2>3, <2>4
<1>7. /\ DOMAIN Program["pipeline"] = 1..13
      /\ \A i \in 4..13 : Program["pipeline"][i] = tail[i - 3]
      /\ \A i \in 1..3 : Program["pipeline"][i] = head[i]
  BY <1>2, <1>4, <1>6
<1> QED
  BY <1>3, <1>5, <1>7

(* The steps of each handler. *)
LEMMA StepsAre ==
  /\ Steps("compare") = {"create", "intent", "discovering", "discover", "discovery",
                         "scoring", "score", "scores", "negotiating"}
  /\ Steps("run") = {"create", "intent", "discovering", "discover", "discovery", "scoring",
                     "score", "scores", "negotiating", "confirm", "confirmed", "order"}
  /\ Steps("direct") = {"create", "intent", "discovering", "discover", "discovery", "scoring",
                        "score", "scores", "negotiating", "memory", "select"}
  /\ Steps("pipeline") = {"create", "parsing", "parse", "intent", "discovering", "discover", "discovery",
                          "scoring", "score", "scores", "negotiating", "memory", "select"}
<1>1. Program["compare"] = Phase /\ Program["direct"] = Direct
  BY DEF Program
<1>2. Steps("compare") = {"create", "intent", "discovering", "discover", "discovery",
                         "scoring", "score", "scores", "negotiating"}
  BY <1>1 DEF Steps, Phase
<1>3. Steps("run") = {"create", "intent", "discovering", "discover", "discovery", "scoring",
                     "score", "scores", "negotiating", "confirm", "confirmed", "order"}
  BY RunSteps DEF Steps
<1>4. Steps("direct") = {"create", "intent", "discovering", "discover", "discovery", "scoring",
                        "score", "scores", "negotiating", "memory", "select"}
  BY <1>1, DirectSteps DEF Steps
<1>5. Steps("pipeline") = {"create", "parsing", "parse", "intent", "discovering", "discover", "discovery",
                          "scoring", "score", "scores", "negotiating", "memory", "select"}
  BY PipelineSteps DEF Steps
<1> QED
  BY <1>2, <1>3, <1>4, <1>5

LEMMA Numbered ==
  ASSUME NEW kind \in Kinds
  PROVE  DOMAIN Program[kind] \subseteq Nat \ {0}
<1>1. Program["compare"] = Phase /\ Program["direct"] = Direct
  BY DEF Program
<1>2. CASE kind = "compare"
  BY <1>1, <1>2, PhaseIs
<1>3. CASE kind = "run"
  BY <1>3, RunSteps
<1>4. CASE kind = "direct"
  BY <1>1, <1>4, DirectSteps
<1>5. CASE kind = "pipeline"
  BY <1>5, PipelineSteps
<1> QED
  BY <1>2, <1>3, <1>4, <1>5, KindsAre

(* No program comes back to its first step. *)
LEMMA CreateIsFirst ==
  ASSUME NEW kind \in Kinds, NEW i \in DOMAIN Program[kind], Program[kind][i] = "create"
  PROVE  i = 1
<1>1. Program["compare"] = Phase /\ Program["direct"] = Direct
  BY DEF Program
<1>2. CASE kind = "compare"
  BY <1>1, <1>2 DEF Phase
<1>3. CASE kind = "run"
  BY <1>3, RunSteps
<1>4. CASE kind = "direct"
  BY <1>1, <1>4, DirectSteps
<1>5. CASE kind = "pipeline"
  BY <1>5, PipelineSteps
<1> QED
  BY <1>2, <1>3, <1>4, <1>5, KindsAre

(* A set of numbers that is not empty has a least one. *)
LEMMA MinIsLeast ==
  ASSUME NEW S \in SUBSET Nat, S # {}
  PROVE  Min(S) \in S /\ \A k \in S : Min(S) <= k
<1>1. PICK m \in S : \A k \in S : <<k, m>> \notin OpToRel(<, Nat)
  BY NatLessThanWellFounded, WFMin, Zenon
<1>2. \A k \in S : ~(k < m)
  BY <1>1, Zenon DEF OpToRel
<1>3. \A k \in S : m <= k
  <2>1. S \subseteq Nat /\ m \in Nat
    BY <1>1
  <2> QED
    BY <1>2, <2>1
<1> QED
  BY <1>3, Zenon DEF Min

(* On from one step: to the next that the handler takes, or to its end. *)
GoesOn(t, step) == [[t EXCEPT !.tries = 1] EXCEPT !.pc = step]
Stops(t) == End([t EXCEPT !.tries = 1], Outcome(t))

LEMMA AdvanceLands ==
  ASSUME NEW t, t.kind \in Kinds, t.pc \in Steps(t.kind)
  PROVE  LET steps == Program[t.kind] IN
         \E i \in DOMAIN steps :
           /\ steps[i] = t.pc
           /\ \/ /\ Advance(t) = Stops(t)
                 /\ \A j \in DOMAIN steps : j > i => ~Takes(t, steps[j])
              \/ \E j \in DOMAIN steps :
                    /\ j > i /\ Takes(t, steps[j]) /\ Advance(t) = GoesOn(t, steps[j])
                    /\ \A k \in DOMAIN steps : i < k /\ k < j => ~Takes(t, steps[k])
<1> DEFINE steps == Program[t.kind]
           here  == CHOOSE i \in DOMAIN steps : steps[i] = t.pc
           ahead == {i \in DOMAIN steps : i > here /\ Takes(t, steps[i])}
<1>1. here \in DOMAIN steps /\ steps[here] = t.pc
  BY DEF Steps
<1>2. t.pc # "cancelled"
  BY StepsAre, KindsAre
<1>3. DOMAIN steps \subseteq Nat
  BY Numbered
<1>4. Advance(t) = IF ahead = {} THEN Stops(t) ELSE GoesOn(t, steps[Min(ahead)])
  BY <1>2 DEF Advance, Stops, GoesOn
<1>5. CASE ahead = {}
  BY <1>1, <1>4, <1>5
<1>6. CASE ahead # {}
  <2>1. Min(ahead) \in ahead /\ \A k \in ahead : Min(ahead) <= k
    BY <1>3, <1>6, MinIsLeast
  <2> DEFINE j == Min(ahead)
  <2>2. j \in DOMAIN steps /\ j > here /\ Takes(t, steps[j]) /\ Advance(t) = GoesOn(t, steps[j])
    BY <1>4, <1>6, <2>1
  <2>3. \A k \in DOMAIN steps : here < k /\ k < j => ~Takes(t, steps[k])
    <3>1. \A k \in DOMAIN steps : k > here /\ Takes(t, steps[k]) => j <= k
      BY <2>1
    <3>2. j \in Nat /\ DOMAIN steps \subseteq Nat /\ here \in Nat
      BY <1>1, <1>3, <2>2
    <3> HIDE DEF steps, here, j
    <3> QED
      BY <3>1, <3>2
  <2> QED
    BY <1>1, <2>2, <2>3
<1> QED
  BY <1>5, <1>6

-----------------------------------------------------------------------------
(* From one step to the next. *)

(* Whether a step is taken, step by step. *)
LEMMA TakesIs ==
  ASSUME NEW t
  PROVE  /\ \A s \in {"intent", "parsing", "discovering", "confirmed"} : Takes(t, s) <=> t.request # None
         /\ Takes(t, "scoring") <=> IF Compares(t) THEN t.request # None ELSE t.intent # None
         /\ Takes(t, "discovery") <=> t.intent # None
         /\ \A s \in {"scores", "negotiating"} : Takes(t, s) <=> t.query # None
         /\ \A s \in {"memory", "select"} : Takes(t, s) <=> t.recommended # {}
         /\ Takes(t, "order") <=> t.choice \cap t.scored # {}
         /\ \A s \in {"create", "parse", "discover", "score", "confirm"} : Takes(t, s)
BY DEF Takes, Patches

(* A handler that holds the same identifiers, items and choice. *)
Keeps(t, u) ==
  /\ u.kind = t.kind /\ u.request = t.request /\ u.intent = t.intent /\ u.query = t.query
  /\ u.found = t.found /\ u.scored = t.scored
  /\ u.recommended = t.recommended /\ u.choice = t.choice

LEMMA KeepsTakes ==
  ASSUME NEW t, NEW u, Keeps(t, u), NEW s \in AllSteps \ {"cancelled"}
  PROVE  Takes(u, s) <=> Takes(t, s)
<1>1. Compares(u) <=> Compares(t)
  BY DEF Keeps, Compares
<1> QED
  BY <1>1, TakesIs DEF Keeps, AllSteps, Posts, Patches, Calls

LEMMA StepsAreSteps ==
  ASSUME NEW kind \in Kinds
  PROVE  Steps(kind) \subseteq AllSteps \ {"cancelled"}
BY StepsAre, KindsAre DEF AllSteps, Posts, Patches, Calls

LEMMA TaskFields ==
  ASSUME NEW t \in Task
  PROVE  /\ t.kind \in Kinds /\ t.pc \in AllSteps \cup {"done", "dead"} /\ t.tries \in 1..3
         /\ t.request \in Nat /\ t.intent \in Nat /\ t.query \in Nat
         /\ t.found \in SUBSET Items /\ t.scored \in SUBSET Items
         /\ t.recommended \in SUBSET Items /\ t.choice \in SUBSET Picks
         /\ t.reply \in Replies /\ t.faults \in Nat
BY DEF Task, AllSteps

LEMMA GoesOnIs ==
  ASSUME NEW t \in Task, NEW s \in AllSteps
  PROVE  /\ GoesOn(t, s) \in Task /\ Keeps(t, GoesOn(t, s))
         /\ GoesOn(t, s).pc = s /\ GoesOn(t, s).tries = 1
         /\ GoesOn(t, s).reply = t.reply /\ GoesOn(t, s).faults = t.faults
<1> DEFINE u == [t EXCEPT !.tries = 1]
<1>1. u \in Task /\ Keeps(t, u) /\ u.reply = t.reply /\ u.faults = t.faults /\ u.tries = 1
  BY DEF Task, Keeps
<1> HIDE DEF u
<1>2. /\ [u EXCEPT !.pc = s] \in Task /\ Keeps(u, [u EXCEPT !.pc = s])
      /\ [u EXCEPT !.pc = s].pc = s /\ [u EXCEPT !.pc = s].tries = 1
      /\ [u EXCEPT !.pc = s].reply = u.reply /\ [u EXCEPT !.pc = s].faults = u.faults
  BY <1>1 DEF Task, Keeps, AllSteps
<1>3. GoesOn(t, s) = [u EXCEPT !.pc = s]
  BY DEF GoesOn, u
<1> QED
  BY <1>1, <1>2, <1>3 DEF Keeps

LEMMA EndIs ==
  ASSUME NEW t \in Task, NEW reply \in Replies
  PROVE  /\ End(t, reply) \in Task /\ Keeps(t, End(t, reply)) /\ End(t, reply).pc = "done"
         /\ End(t, reply).reply = reply /\ End(t, reply).faults = t.faults
BY DEF End, Task, Keeps

LEMMA StopsIs ==
  ASSUME NEW t \in Task
  PROVE  /\ Stops(t) \in Task /\ Keeps(t, Stops(t)) /\ Stops(t).pc = "done"
         /\ Stops(t).reply = Outcome(t) /\ Stops(t).faults = t.faults
<1>1. Outcome(t) \in Replies
  BY DEF Outcome, Replies
<1> DEFINE u == [t EXCEPT !.tries = 1]
<1>2. u \in Task /\ Keeps(t, u) /\ u.faults = t.faults
  BY DEF Task, Keeps
<1> HIDE DEF u
<1>3. Stops(t) = End(u, Outcome(t))
  BY DEF Stops, u
<1> QED
  BY <1>1, <1>2, <1>3, EndIs DEF Keeps

(* A handler goes on with a step that it takes, never with the first, or   *)
(* it is done.                                                             *)
LEMMA AdvanceIs ==
  ASSUME NEW t \in Task, t.pc \in Steps(t.kind)
  PROVE  /\ Advance(t) \in Task /\ Keeps(t, Advance(t)) /\ Advance(t).faults = t.faults
         /\ \/ /\ Advance(t).pc \in Steps(t.kind) \ {"create"}
               /\ Takes(Advance(t), Advance(t).pc)
               /\ Advance(t).reply = t.reply
            \/ Advance(t).pc = "done" /\ Advance(t).reply = Outcome(t)
<1> DEFINE steps == Program[t.kind]
<1>1. t.kind \in Kinds
  BY TaskFields
<1>2. PICK i \in DOMAIN steps :
        \/ Advance(t) = Stops(t)
        \/ \E j \in DOMAIN steps : j > i /\ Takes(t, steps[j]) /\ Advance(t) = GoesOn(t, steps[j])
  BY <1>1, AdvanceLands
<1>3. CASE Advance(t) = Stops(t)
  BY <1>3, StopsIs
<1>4. ASSUME NEW j \in DOMAIN steps, j > i, Takes(t, steps[j]), Advance(t) = GoesOn(t, steps[j])
      PROVE  /\ Advance(t) \in Task /\ Keeps(t, Advance(t)) /\ Advance(t).faults = t.faults
             /\ Advance(t).pc \in Steps(t.kind) \ {"create"}
             /\ Takes(Advance(t), Advance(t).pc)
             /\ Advance(t).reply = t.reply
  <2>1. steps[j] \in Steps(t.kind) /\ steps[j] \in AllSteps \ {"cancelled"}
    BY <1>1, StepsAreSteps DEF Steps
  <2>2. i >= 1 /\ i \in Nat /\ j \in Nat
    BY <1>1, Numbered
  <2>3. steps[j] # "create"
    BY <1>1, <1>4, <2>2, CreateIsFirst
  <2> DEFINE s == steps[j]
  <2>4. s \in AllSteps \ {"cancelled"} /\ s \in Steps(t.kind) /\ s # "create" /\ Takes(t, s)
        /\ Advance(t) = GoesOn(t, s)
    BY <1>4, <2>1, <2>3
  <2> HIDE DEF s
  <2>5. /\ GoesOn(t, s) \in Task /\ Keeps(t, GoesOn(t, s)) /\ GoesOn(t, s).pc = s
        /\ GoesOn(t, s).reply = t.reply /\ GoesOn(t, s).faults = t.faults
    BY <2>4, GoesOnIs
  <2>6. Takes(GoesOn(t, s), s)
    BY <2>4, <2>5, KeepsTakes
  <2> QED
    BY <2>4, <2>5, <2>6
<1> QED
  BY <1>2, <1>3, <1>4

LEMMA PlacesAre ==
  ASSUME NEW kind \in {"compare", "run"}, NEW i \in DOMAIN Program[kind]
  PROVE  Place(Program[kind][i]) = i
<1>1. CASE kind = "compare"
  BY <1>1, ComparePlaces
<1>2. CASE kind = "run"
  BY <1>2, RunPlaces, RunSteps
<1> QED
  BY <1>1, <1>2

(* A handler of /compare or /run does not pass a step that it takes. *)
LEMMA AdvanceUpTo ==
  ASSUME NEW t \in Task, Compares(t), t.pc \in Steps(t.kind),
         NEW s \in Steps(t.kind), Place(t.pc) < Place(s), Takes(t, s)
  PROVE  /\ Advance(t).pc \in Steps(t.kind)
         /\ Place(t.pc) < Place(Advance(t).pc) /\ Place(Advance(t).pc) <= Place(s)
         /\ Advance(t).reply = t.reply
<1> DEFINE steps == Program[t.kind]
<1>1. t.kind \in Kinds /\ t.kind \in {"compare", "run"} /\ DOMAIN steps \subseteq Nat
  BY TaskFields, KindsAre, Numbered DEF Compares
<1>2. \A i \in DOMAIN steps : Place(steps[i]) = i
  BY <1>1, PlacesAre
<1>3. PICK n \in DOMAIN steps : steps[n] = s
  BY DEF Steps
<1>4. PICK i \in DOMAIN steps :
        /\ steps[i] = t.pc
        /\ \/ /\ Advance(t) = Stops(t)
              /\ \A j \in DOMAIN steps : j > i => ~Takes(t, steps[j])
           \/ \E j \in DOMAIN steps :
                 /\ j > i /\ Takes(t, steps[j]) /\ Advance(t) = GoesOn(t, steps[j])
                 /\ \A k \in DOMAIN steps : i < k /\ k < j => ~Takes(t, steps[k])
  BY <1>1, AdvanceLands
<1>5. i < n /\ Takes(t, steps[n])
  BY <1>2, <1>3, <1>4
<1>6. PICK j \in DOMAIN steps :
        /\ j > i /\ Takes(t, steps[j]) /\ Advance(t) = GoesOn(t, steps[j])
        /\ \A k \in DOMAIN steps : i < k /\ k < j => ~Takes(t, steps[k])
  BY <1>1, <1>4, <1>5
<1>7. j <= n
  BY <1>1, <1>5, <1>6
<1>8. steps[j] \in AllSteps /\ steps[j] \in Steps(t.kind)
  BY <1>1, StepsAreSteps DEF Steps
<1>9. Advance(t).pc = steps[j] /\ Advance(t).reply = t.reply
  BY <1>6, <1>8, GoesOnIs
<1> QED
  BY <1>2, <1>3, <1>4, <1>6, <1>7, <1>8, <1>9

(* The order is the last step of a run. *)
LEMMA AfterTheOrder ==
  ASSUME NEW t \in Task, t.kind = "run", t.pc = "order"
  PROVE  Advance(t) = Stops(t)
<1>1. t.kind \in Kinds /\ t.pc \in Steps(t.kind)
  BY KindsAre, StepsAre
<1>2. \A i \in DOMAIN Program["run"] : Program["run"][i] = "order" => i = 12
  BY RunSteps
<1>3. \A i \in DOMAIN Program["run"] : i \in Int /\ i <= 12
  BY RunSteps
<1> QED
  BY <1>1, <1>2, <1>3, AdvanceLands

-----------------------------------------------------------------------------
(* The tables. *)

LEMMA Elements ==
  ASSUME NEW S, NEW s \in Seq(S), NEW i \in DOMAIN s
  PROVE  s[i] \in S
OBVIOUS

LEMMA Appended ==
  ASSUME NEW S, NEW s \in Seq(S), NEW x \in S
  PROVE  /\ Append(s, x) \in Seq(S) /\ Len(Append(s, x)) = Len(s) + 1
         /\ DOMAIN Append(s, x) = DOMAIN s \cup {Len(s) + 1} /\ Len(s) + 1 \notin DOMAIN s
         /\ Append(s, x)[Len(s) + 1] = x
         /\ \A i \in DOMAIN s : Append(s, x)[i] = s[i]
OBVIOUS

LEMMA DbFields ==
  ASSUME NEW d \in Db
  PROVE  /\ d.requests \in Seq([by : Clients, status : Patches \cup {"draft"}])
         /\ d.parsed \in SUBSET Nat /\ d.beckn \in SUBSET Nat /\ d.queries \in Seq(Nat)
         /\ d.scores \in SUBSET [query : Nat, item : Items]
         /\ d.orders \in Seq([score : [query : Nat, item : Picks], ref : Clients])
BY DEF Db

LEMMA CreateRequestIs ==
  ASSUME NEW d \in Db, NEW c \in Clients
  PROVE  LET e == CreateRequest(d, c) IN
         /\ e \in Db
         /\ e.requests = Append(d.requests, [by |-> c, status |-> "draft"])
         /\ e.parsed = d.parsed /\ e.queries = d.queries /\ e.scores = d.scores /\ e.orders = d.orders
<1> DEFINE rows == Append(d.requests, [by |-> c, status |-> "draft"])
<1>1. rows \in Seq([by : Clients, status : Patches \cup {"draft"}])
  <2>1. [by |-> c, status |-> "draft"] \in [by : Clients, status : Patches \cup {"draft"}]
    OBVIOUS
  <2> QED
    BY <2>1, DbFields, Appended, Zenon
<1>2. CreateRequest(d, c) = [d EXCEPT !.requests = rows]
  BY DEF CreateRequest, Db
<1> HIDE DEF rows
<1>3. /\ CreateRequest(d, c) \in Db /\ CreateRequest(d, c).requests = rows
      /\ CreateRequest(d, c).parsed = d.parsed /\ CreateRequest(d, c).queries = d.queries
      /\ CreateRequest(d, c).scores = d.scores /\ CreateRequest(d, c).orders = d.orders
  BY <1>1, <1>2 DEF Db
<1> QED
  BY <1>3 DEF rows

LEMMA CreateParsedIntentIs ==
  ASSUME NEW d \in Db, NEW r \in Nat
  PROVE  LET e == CreateParsedIntent(d, r) IN
         /\ e \in Db /\ e.parsed = d.parsed \cup {r}
         /\ e.requests = d.requests /\ e.queries = d.queries /\ e.scores = d.scores /\ e.orders = d.orders
BY DEF CreateParsedIntent, Db

LEMMA CreateIntentIs ==
  ASSUME NEW d \in Db, NEW r \in Nat
  PROVE  LET e == CreateIntent(d, r) IN
         /\ e \in Db /\ e.parsed = d.parsed \cup {r}
         /\ e.requests = d.requests /\ e.queries = d.queries /\ e.scores = d.scores /\ e.orders = d.orders
<1> DEFINE p == CreateParsedIntent(d, r)
<1>1. /\ p \in Db /\ p.parsed = d.parsed \cup {r}
      /\ p.requests = d.requests /\ p.queries = d.queries /\ p.scores = d.scores /\ p.orders = d.orders
  BY CreateParsedIntentIs
<1>2. CreateIntent(d, r) = [p EXCEPT !.beckn = @ \cup {r}]
  BY DEF CreateIntent
<1> HIDE DEF p
<1> QED
  BY <1>1, <1>2 DEF Db

LEMMA CreateDiscoveryIs ==
  ASSUME NEW d \in Db, NEW i \in Nat
  PROVE  LET e == CreateDiscovery(d, i) IN
         /\ e \in Db /\ e.queries = Append(d.queries, i)
         /\ e.requests = d.requests /\ e.parsed = d.parsed /\ e.scores = d.scores /\ e.orders = d.orders
<1> DEFINE rows == Append(d.queries, i)
<1>1. rows \in Seq(Nat)
  BY DbFields
<1>2. CreateDiscovery(d, i) = [d EXCEPT !.queries = rows]
  BY DEF CreateDiscovery, Db
<1> HIDE DEF rows
<1>3. /\ CreateDiscovery(d, i) \in Db /\ CreateDiscovery(d, i).queries = rows
      /\ CreateDiscovery(d, i).parsed = d.parsed /\ CreateDiscovery(d, i).requests = d.requests
      /\ CreateDiscovery(d, i).scores = d.scores /\ CreateDiscovery(d, i).orders = d.orders
  BY <1>1, <1>2 DEF Db
<1> QED
  BY <1>3 DEF rows

LEMMA CreateScoresIs ==
  ASSUME NEW d \in Db, NEW q \in Nat, NEW items \in SUBSET Items
  PROVE  LET e == CreateScores(d, q, items) IN
         /\ e \in Db /\ e.scores = d.scores \cup Scored(q, items)
         /\ e.requests = d.requests /\ e.parsed = d.parsed /\ e.queries = d.queries /\ e.orders = d.orders
<1>1. Scored(q, items) \subseteq [query : Nat, item : Items]
  BY DEF Scored
<1> QED
  BY <1>1 DEF CreateScores, Db

LEMMA CreateOrderIs ==
  ASSUME NEW d \in Db, NEW score \in [query : Nat, item : Picks], NEW c \in Clients
  PROVE  LET e == CreateOrder(d, score, c) IN
         /\ e \in Db /\ e.orders = Append(d.orders, [score |-> score, ref |-> c])
         /\ e.requests = d.requests /\ e.parsed = d.parsed /\ e.queries = d.queries /\ e.scores = d.scores
<1> DEFINE rows == Append(d.orders, [score |-> score, ref |-> c])
           e == CreateOrder(d, score, c)
<1>1. rows \in Seq([score : [query : Nat, item : Picks], ref : Clients])
  <2>1. [score |-> score, ref |-> c] \in [score : [query : Nat, item : Picks], ref : Clients]
    OBVIOUS
  <2> QED
    BY <2>1, DbFields, Appended, Zenon
<1>2. e = [d EXCEPT !.orders = rows]
  BY DEF CreateOrder, Db
<1> HIDE DEF rows, e
<1>3. /\ e \in Db /\ e.orders = rows /\ e.requests = d.requests /\ e.parsed = d.parsed
      /\ e.queries = d.queries /\ e.scores = d.scores
  BY <1>1, <1>2 DEF Db
<1> QED
  BY <1>3 DEF rows, e

LEMMA UpdateStatusIs ==
  ASSUME NEW d \in Db, NEW r \in DOMAIN d.requests, NEW status \in Patches
  PROVE  LET e == UpdateStatus(d, r, status) IN
         /\ e \in Db
         /\ DOMAIN e.requests = DOMAIN d.requests
         /\ \A q \in DOMAIN d.requests : e.requests[q].by = d.requests[q].by
         /\ e.requests[r].status = status
         /\ \A q \in DOMAIN d.requests : q # r => e.requests[q] = d.requests[q]
         /\ e.parsed = d.parsed /\ e.queries = d.queries /\ e.scores = d.scores /\ e.orders = d.orders
<1> DEFINE row == [d.requests[r] EXCEPT !.status = status]
           rows == [d.requests EXCEPT ![r] = row]
<1>1. d.requests \in Seq([by : Clients, status : Patches \cup {"draft"}]) /\ r \in DOMAIN d.requests
  BY DbFields
<1>2. /\ row \in [by : Clients, status : Patches \cup {"draft"}]
      /\ row.by = d.requests[r].by /\ row.status = status
  <2>1. d.requests[r] \in [by : Clients, status : Patches \cup {"draft"}]
    BY <1>1, Elements, Zenon
  <2> QED
    BY <2>1
<1>3. UpdateStatus(d, r, status) = [d EXCEPT !.requests = rows]
  BY <1>1 DEF UpdateStatus, Db
<1> HIDE DEF row
<1>4. /\ rows \in Seq([by : Clients, status : Patches \cup {"draft"}])
      /\ DOMAIN rows = DOMAIN d.requests /\ rows[r] = row
      /\ \A q \in DOMAIN d.requests : q # r => rows[q] = d.requests[q]
  BY <1>1, <1>2
<1> HIDE DEF rows
<1> QED
  BY <1>2, <1>3, <1>4 DEF Db

-----------------------------------------------------------------------------
(* What holds of the records after any step. *)

(* Nothing is taken out of a table, and what is put in hangs under the     *)
(* identifiers of the handler whose step it is.                            *)
Extends(c) ==
  /\ \A r \in DOMAIN db.requests : r \in DOMAIN db'.requests /\ db'.requests[r].by = db.requests[r].by
  /\ \A q \in DOMAIN db.queries : q \in DOMAIN db'.queries /\ db'.queries[q] = db.queries[q]
  /\ \A r \in db'.parsed : r \in db.parsed \/ (r = task[c].request /\ r # None)
  /\ \A s \in db'.scores : s \in db.scores \/ (s.query = task[c].query /\ s.query # None)
  /\ \A k \in DOMAIN db.orders : k \in DOMAIN db'.orders /\ db'.orders[k] = db.orders[k]
  /\ \A w \in late' : w \in late \/ (w.request = task[c].request /\ w.request # None)

(* The order that a run records. *)
Places(c) ==
  /\ task[c].pc = "order" /\ OrderAllowed(db, ScoreOf(task[c]), c)
  /\ db'.orders = Append(db.orders, [score |-> ScoreOf(task[c]), ref |-> c])

(* The handler goes on as what it was: it keeps its request, and a run at  *)
(* its order or after it keeps its choice.                                 *)
GoesOnAs(c) ==
  /\ task'[c].kind = task[c].kind
  /\ task[c].request = None \/ task'[c].request = task[c].request
  /\ task[c].pc \in {"order", "done", "dead"} =>
       task'[c].pc \in {"order", "done", "dead"} /\ task'[c].choice = task[c].choice

(* Handlers do not disturb each other: their rows are their own. *)
LEMMA OthersKeep ==
  ASSUME RecordsInv, TypeOK', NEW c \in Clients, Extends(c),
         NEW d \in Clients, d # c, task'[d] = task[d]
  PROVE  AtItsStep(d)' /\ OwnsItsRows(d)' /\ RunsUnharmed(d)' /\ OnlyRunsOrder(d)'
<1>1. AtItsStep(d) /\ OwnsItsRows(d) /\ RunsUnharmed(d) /\ OnlyRunsOrder(d) /\ OwnsItsRows(c)
  BY DEF RecordsInv
<1>2. AtItsStep(d)' /\ OnlyRunsOrder(d)'
  BY <1>1 DEF AtItsStep, OnlyRunsOrder
<1>3. OwnsItsRows(d)'
  BY <1>1 DEF OwnsItsRows, Extends
<1>4. RunsUnharmed(d)'
  <2>1. task[d].request # None => task[d].request # task[c].request
    BY <1>1 DEF OwnsItsRows
  <2>2. task[d].query # None => task[d].query # task[c].query
    BY <1>1, <2>1 DEF OwnsItsRows
  <2>3. CASE task[d].kind = "run" /\ task[d].faults = 0
    <3>1. task[d].pc \in Steps("run") => Unharmed(d)
      BY <1>1, <2>3 DEF RunsUnharmed
    <3>2. Unharmed(d) => Unharmed(d)'
      BY <2>1, <2>2 DEF Unharmed, Extends
    <3>3. task[d].reply = "ordered" => \E k \in DOMAIN db'.orders : db'.orders[k].ref = d
      BY <1>1, <2>3 DEF RunsUnharmed, Extends
    <3> QED
      BY <3>1, <3>2, <3>3 DEF RunsUnharmed
  <2>4. CASE ~(task[d].kind = "run" /\ task[d].faults = 0)
    BY <2>4 DEF RunsUnharmed
  <2> QED
    BY <2>3, <2>4
<1> QED
  BY <1>2, <1>3, <1>4

LEMMA ChainHolds ==
  ASSUME RecordsInv, TypeOK', NEW c \in Clients, Extends(c), GoesOnAs(c),
         \A d \in Clients : d # c => task'[d] = task[d]
  PROVE  Chained'
<1>1. Chained /\ OwnsItsRows(c)
  BY DEF RecordsInv
<1>2. db'.parsed \subseteq DOMAIN db'.requests
  BY <1>1 DEF Chained, OwnsItsRows, Extends
<1>3. \A s \in db'.scores : s.query \in DOMAIN db'.queries
  BY <1>1 DEF Chained, OwnsItsRows, Extends
<1>4. ASSUME NEW w \in late'
      PROVE  /\ w.request \in DOMAIN db'.requests
             /\ task'[db'.requests[w.request].by].request = w.request
  <2> DEFINE d == db.requests[w.request].by
  <2>1. w.request \in DOMAIN db.requests /\ task[d].request = w.request /\ w.request # None
    <3>1. CASE w \in late
      <4>1. w.request \in DOMAIN db.requests /\ task[d].request = w.request
        BY <1>1, <3>1 DEF Chained
      <4>2. db.requests \in Seq([by : Clients, status : Patches \cup {"draft"}])
        BY DbFields DEF RecordsInv, TypeOK
      <4>3. 0 \notin DOMAIN db.requests
        BY <4>2
      <4> QED
        BY <4>1, <4>3 DEF None
    <3>2. CASE w.request = task[c].request /\ w.request # None
      BY <1>1, <3>2 DEF OwnsItsRows
    <3> QED
      BY <3>1, <3>2 DEF Extends
  <2>2. w.request \in DOMAIN db'.requests /\ db'.requests[w.request].by = d
    BY <2>1 DEF Extends
  <2>3. d \in Clients
    <3>1. db.requests \in Seq([by : Clients, status : Patches \cup {"draft"}])
      BY DbFields DEF RecordsInv, TypeOK
    <3>2. db.requests[w.request] \in [by : Clients, status : Patches \cup {"draft"}]
      BY <2>1, <3>1, Elements, Zenon
    <3> QED
      BY <3>2
  <2> HIDE DEF d
  <2>4. task'[d].request = w.request
    BY <2>1, <2>3 DEF GoesOnAs
  <2> QED
    BY <2>2, <2>4
<1> QED
  BY <1>2, <1>3, <1>4 DEF Chained

(* An order is recorded once, under the request of its run. *)
LEMMA OrdersHold ==
  ASSUME RecordsInv, TypeOK', NEW c \in Clients, Extends(c), GoesOnAs(c),
         db'.orders = db.orders \/ Places(c),
         \A d \in Clients : d # c => task'[d] = task[d]
  PROVE  OrdersAreOfRuns'
<1> DEFINE t == task[c]
<1>1. OrdersAreOfRuns /\ OwnsItsRows(c) /\ AtItsStep(c)
  BY DEF RecordsInv
<1>2. db.orders \in Seq([score : [query : Nat, item : Picks], ref : Clients])
  BY DbFields DEF RecordsInv, TypeOK
<1>3. ASSUME NEW k \in DOMAIN db.orders
      PROVE  LET o == db'.orders[k] IN
             /\ o = db.orders[k] /\ o.ref \in Clients
             /\ o.score.query \in DOMAIN db'.queries
             /\ RequestOf(db', o) \in DOMAIN db'.requests
             /\ db'.requests[RequestOf(db', o)].by = o.ref
             /\ task'[o.ref].kind = "run" /\ task'[o.ref].pc \in {"order", "done", "dead"}
             /\ o.score.item \in task'[o.ref].choice
  <2> DEFINE o == db.orders[k]
  <2>1. /\ o.score.query \in DOMAIN db.queries
        /\ RequestOf(db, o) \in DOMAIN db.requests
        /\ db.requests[RequestOf(db, o)].by = o.ref
        /\ task[o.ref].kind = "run" /\ task[o.ref].pc \in {"order", "done", "dead"}
        /\ o.score.item \in task[o.ref].choice
    BY <1>1 DEF OrdersAreOfRuns
  <2>2. o \in [score : [query : Nat, item : Picks], ref : Clients]
    BY <1>2, Elements, Zenon
  <2>3. o.ref \in Clients /\ db'.orders[k] = o
    BY <2>2 DEF Extends
  <2> HIDE DEF o
  <2>4. /\ o.score.query \in DOMAIN db'.queries /\ RequestOf(db', o) = RequestOf(db, o)
        /\ RequestOf(db', o) \in DOMAIN db'.requests
        /\ db'.requests[RequestOf(db', o)].by = o.ref
    BY <2>1 DEF Extends, RequestOf
  <2>5. /\ task'[o.ref].kind = "run" /\ task'[o.ref].pc \in {"order", "done", "dead"}
        /\ o.score.item \in task'[o.ref].choice
    BY <2>1, <2>3 DEF GoesOnAs
  <2> QED
    BY <2>3, <2>4, <2>5 DEF o
<1>4. CASE db'.orders = db.orders
  BY <1>1, <1>3, <1>4 DEF OrdersAreOfRuns
<1>5. CASE Places(c)
  <2> DEFINE new == [score |-> ScoreOf(t), ref |-> c]
             n == Len(db.orders) + 1
  <2>1. t.pc = "order" /\ db'.orders = Append(db.orders, new)
    BY <1>5 DEF Places
  <2>2. \A k \in DOMAIN db.orders : db.orders[k].ref # c
    BY <1>5 DEF Places, OrderAllowed
  <2>3. t \in Task /\ t.kind \in Kinds
    BY TaskFields DEF RecordsInv, TypeOK
  <2>4. t.kind = "run" /\ t.choice \cap t.scored # {}
    <3>1. t.pc \in Steps(t.kind) /\ Takes(t, t.pc)
      BY <1>1, <2>1 DEF AtItsStep, Ended
    <3> QED
      BY <2>1, <2>3, <3>1, StepsAre, KindsAre, TakesIs
  <2>5. /\ t.query # None /\ t.query \in DOMAIN db.queries
        /\ db.queries[t.query] = t.request /\ t.request \in DOMAIN db.requests
        /\ db.requests[t.request].by = c
    BY <1>1, <2>4 DEF OwnsItsRows
  <2>6. ScoreOf(t).query = t.query /\ ScoreOf(t).item \in t.choice
    BY <2>4 DEF ScoreOf
  <2>7. new \in [score : [query : Nat, item : Picks], ref : Clients]
    <3>1. t.choice \in SUBSET Picks /\ t.query \in Nat
      BY <2>3, TaskFields
    <3>2. ScoreOf(t) \in [query : Nat, item : Picks]
      BY <2>6, <3>1 DEF ScoreOf
    <3> QED
      BY <3>2
  <2>8. /\ DOMAIN db'.orders = DOMAIN db.orders \cup {n} /\ n \notin DOMAIN db.orders
        /\ db'.orders[n] = new
    <3>1. PICK S : db.orders \in Seq(S) /\ new \in S
      BY <1>2, <2>7
    <3>2. db'.orders = Append(db.orders, new)
      BY <2>1
    <3> HIDE DEF new
    <3> QED
      BY <3>1, <3>2, Appended
  <2> HIDE DEF n
  <2>9. /\ new.ref = c /\ new.score = ScoreOf(t)
    OBVIOUS
  <2> HIDE DEF new
  <2>10. /\ new.score.query \in DOMAIN db'.queries
         /\ RequestOf(db', new) \in DOMAIN db'.requests
         /\ db'.requests[RequestOf(db', new)].by = new.ref
    BY <2>5, <2>6, <2>9 DEF Extends, RequestOf
  <2>11. /\ task'[c].kind = "run" /\ task'[c].pc \in {"order", "done", "dead"}
         /\ new.score.item \in task'[c].choice
    BY <2>1, <2>4, <2>6, <2>9 DEF GoesOnAs
  <2>12. \A k \in DOMAIN db.orders : db'.orders[k] = db.orders[k]
    BY DEF Extends
  <2>13. \A j, k \in DOMAIN db'.orders : db'.orders[j].ref = db'.orders[k].ref => j = k
    <3>1. \A j, k \in DOMAIN db.orders : db.orders[j].ref = db.orders[k].ref => j = k
      BY <1>1 DEF OrdersAreOfRuns
    <3> QED
      BY <2>2, <2>8, <2>9, <2>12, <3>1
  <2> QED
    BY <1>3, <2>8, <2>9, <2>10, <2>11, <2>13 DEF OrdersAreOfRuns
<1> QED
  BY <1>4, <1>5

(* A step of a handler keeps the invariant, if it keeps the handler's own  *)
(* part of it.                                                             *)
LEMMA HandlerStep ==
  ASSUME RecordsInv, TypeOK', NEW c \in Clients, Extends(c), GoesOnAs(c),
         db'.orders = db.orders \/ Places(c),
         \A d \in Clients : d # c => task'[d] = task[d],
         AtItsStep(c)', OwnsItsRows(c)', RunsUnharmed(c)', OnlyRunsOrder(c)'
  PROVE  RecordsInv'
<1>1. ASSUME NEW d \in Clients
      PROVE  AtItsStep(d)' /\ OwnsItsRows(d)' /\ RunsUnharmed(d)' /\ OnlyRunsOrder(d)'
  <2>1. CASE d = c
    BY <2>1
  <2>2. CASE d # c
    BY <2>2, OthersKeep
  <2> QED
    BY <2>1, <2>2
<1> QED
  BY <1>1, ChainHolds, OrdersHold DEF RecordsInv
-----------------------------------------------------------------------------
(* What a handler becomes. *)

LEMMA FaultIs ==
  ASSUME NEW t \in Task
  PROVE  LET u == [t EXCEPT !.faults = @ + 1] IN
         /\ u \in Task /\ Keeps(t, u) /\ u.pc = t.pc /\ u.reply = t.reply
         /\ u.faults = t.faults + 1
BY DEF Task, Keeps

(* Where a step may take a handler that keeps what it holds. *)
Moves(t, u) ==
  /\ u \in Task /\ Keeps(t, u)
  /\ \/ u.pc = t.pc /\ u.reply = t.reply
     \/ u.pc \in Steps(t.kind) \ {"create"} /\ Takes(u, u.pc) /\ u.reply = t.reply
     \/ u.pc = "cancelled" /\ u.request # None /\ u.reply # "ordered"
     \/ u.pc = "dead" /\ u.reply = t.reply
     \/ u.pc = "done" /\ (u.reply = "ordered" => t.kind = "run")
  /\ t.kind = "run" /\ t.pc = "order" => u.pc \in {"order", "done", "dead"}

LEMMA AdvanceMoves ==
  ASSUME NEW t \in Task, t.pc \in Steps(t.kind)
  PROVE  Moves(t, Advance(t)) /\ Advance(t).faults = t.faults
<1>1. Outcome(t) = "ordered" => t.kind = "run"
  BY DEF Outcome
<1>2. t.kind = "run" /\ t.pc = "order" => Advance(t).pc = "done"
  BY AfterTheOrder, StopsIs
<1> QED
  BY <1>1, <1>2, AdvanceIs DEF Moves

LEMMA RetryMoves ==
  ASSUME NEW t \in Task, t.pc \in Steps(t.kind)
  PROVE  Moves(t, Retry(t)) /\ Retry(t).faults = t.faults
<1>1. CASE t.tries < 3
  <2> DEFINE u == [t EXCEPT !.tries = @ + 1]
  <2>1. u \in Task /\ Keeps(t, u) /\ u.pc = t.pc /\ u.reply = t.reply /\ u.faults = t.faults
    BY <1>1 DEF Task, Keeps
  <2>2. Retry(t) = u
    BY <1>1 DEF Retry
  <2> HIDE DEF u
  <2> QED
    BY <2>1, <2>2 DEF Moves
<1>2. CASE ~(t.tries < 3)
  BY <1>2, AdvanceMoves DEF Retry
<1> QED
  BY <1>1, <1>2

(* On from the PATCH to cancelled the handler is done. *)
LEMMA CancelledMoves ==
  ASSUME NEW t \in Task, t.pc = "cancelled", t.reply # "ordered"
  PROVE  /\ Moves(t, Advance(t)) /\ Advance(t).faults = t.faults
         /\ Advance(t).pc = "done" /\ Advance(t).reply = t.reply
<1> DEFINE u == [t EXCEPT !.tries = 1]
<1>1. u \in Task /\ Keeps(t, u) /\ u.reply = t.reply /\ u.faults = t.faults
  BY DEF Task, Keeps
<1>2. Advance(t) = [u EXCEPT !.pc = "done"]
  BY DEF Advance
<1> HIDE DEF u
<1>3. /\ [u EXCEPT !.pc = "done"] \in Task /\ Keeps(u, [u EXCEPT !.pc = "done"])
      /\ [u EXCEPT !.pc = "done"].pc = "done"
      /\ [u EXCEPT !.pc = "done"].reply = u.reply /\ [u EXCEPT !.pc = "done"].faults = u.faults
  BY <1>1 DEF Task, Keeps
<1> QED
  BY <1>1, <1>2, <1>3 DEF Moves, Keeps

LEMMA CancelMoves ==
  ASSUME NEW t \in Task, t.pc # "order", NEW reply \in Replies \ {"ordered"}
  PROVE  /\ Moves(t, Cancel(t, reply)) /\ Cancel(t, reply).faults = t.faults
         /\ Cancel(t, reply).reply = reply
         /\ Cancel(t, reply).pc = IF t.request = None THEN "done" ELSE "cancelled"
<1>1. CASE t.request = None
  BY <1>1, EndIs DEF Cancel, Moves
<1>2. CASE t.request # None
  <2> DEFINE u == [t EXCEPT !.pc = "cancelled", !.reply = reply]
  <2>1. /\ u \in Task /\ Keeps(t, u) /\ u.pc = "cancelled" /\ u.reply = reply /\ u.faults = t.faults
    BY DEF Task, Keeps, Patches
  <2>2. Cancel(t, reply) = u
    BY <1>2 DEF Cancel
  <2> HIDE DEF u
  <2> QED
    BY <1>2, <2>1, <2>2 DEF Moves, Keeps
<1> QED
  BY <1>1, <1>2

LEMMA EndMoves ==
  ASSUME NEW t \in Task, NEW reply \in Replies \ {"ordered"}
  PROVE  Moves(t, End(t, reply))
BY EndIs DEF Moves

(* A step of one handler that changes the tables as it should. *)
LEMMA BecomesIs ==
  ASSUME TypeOK, NEW c \in Clients, NEW u \in Task, u.faults <= MaxFaults[c], Becomes(c, u),
         db' \in Db, late' \subseteq [request : Nat, status : Patches]
  PROVE  /\ TypeOK' /\ task'[c] = u
         /\ \A d \in Clients : d # c => task'[d] = task[d]
BY DEF TypeOK, Becomes

(* What a handler owns, and where it stands, after a step that keeps what  *)
(* it holds.                                                               *)
LEMMA MovesOn ==
  ASSUME RecordsInv, TypeOK', NEW c \in Clients, Extends(c), ~Ended(task[c]),
         Moves(task[c], task'[c])
  PROVE  OwnsItsRows(c)' /\ AtItsStep(c)' /\ OnlyRunsOrder(c)' /\ GoesOnAs(c)
<1> DEFINE t == task[c]
           u == task'[c]
<1>1. AtItsStep(c) /\ OwnsItsRows(c) /\ OnlyRunsOrder(c) /\ t \in Task /\ t.kind \in Kinds
  BY TaskFields DEF RecordsInv, TypeOK
<1>2. OwnsItsRows(c)'
  <2>1. "create" # "cancelled" /\ "create" # "done" /\ "create" # "dead"
    OBVIOUS
  <2>2. u.pc = "create" => t.pc = "create"
    BY <2>1 DEF Moves
  <2> QED
    BY <1>1, <2>2 DEF OwnsItsRows, Extends, Moves, Keeps
<1>3. AtItsStep(c)'
  <2>1. CASE u.pc = t.pc
    <3>1. CASE t.pc \in Steps(t.kind) /\ Takes(t, t.pc)
      <4>1. u.kind = t.kind /\ t.pc \in AllSteps \ {"cancelled"} /\ Keeps(t, u)
        BY <1>1, <3>1, StepsAreSteps DEF Moves, Keeps
      <4>2. Takes(u, u.pc)
        BY <2>1, <3>1, <4>1, KeepsTakes
      <4> QED
        BY <2>1, <3>1, <4>1, <4>2 DEF AtItsStep
    <3>2. CASE t.pc = "cancelled" /\ t.request # None
      BY <2>1, <3>2 DEF Moves, Keeps, AtItsStep
    <3>3. CASE Ended(t)
      BY <2>1, <3>3 DEF AtItsStep, Ended
    <3> QED
      BY <1>1, <3>1, <3>2, <3>3 DEF AtItsStep
  <2>2. CASE u.pc \in Steps(t.kind) \ {"create"} /\ Takes(u, u.pc)
    BY <2>2 DEF Moves, Keeps, AtItsStep
  <2>3. CASE u.pc = "cancelled" /\ u.request # None
    BY <2>3 DEF AtItsStep
  <2>4. CASE u.pc \in {"done", "dead"}
    BY <2>4 DEF AtItsStep, Ended
  <2> QED
    BY <2>1, <2>2, <2>3, <2>4 DEF Moves
<1>4. OnlyRunsOrder(c)'
  BY <1>1 DEF OnlyRunsOrder, Ended, Moves, Keeps
<1>5. GoesOnAs(c)
  <2>1. t.pc = "order" => t.kind = "run"
    BY <1>1, StepsAre, KindsAre DEF AtItsStep
  <2> QED
    BY <2>1 DEF GoesOnAs, Moves, Keeps, Ended
<1> QED
  BY <1>2, <1>3, <1>4, <1>5

(* The same of a step on which the handler got something new, v, before it *)
(* went on.                                                                *)
LEMMA AdvancesOn ==
  ASSUME RecordsInv, NEW c \in Clients, NEW v \in Task,
         v.kind = task[c].kind, v.pc = task[c].pc, v.reply = task[c].reply,
         v.pc \in Steps(v.kind), task'[c] = Advance(v),
         task[c].request = None \/ v.request = task[c].request,
         task[c].pc = "order" => v.choice = task[c].choice
  PROVE  /\ AtItsStep(c)' /\ OnlyRunsOrder(c)' /\ GoesOnAs(c)
         /\ Keeps(v, task'[c]) /\ task'[c].pc # "create" /\ task'[c].faults = v.faults
<1> DEFINE t == task[c]
           u == task'[c]
<1>1. OnlyRunsOrder(c) /\ t \in Task /\ v.kind \in Kinds
  BY TaskFields DEF RecordsInv, TypeOK
<1>2. /\ u \in Task /\ Keeps(v, u) /\ u.faults = v.faults
      /\ \/ u.pc \in Steps(v.kind) \ {"create"} /\ Takes(u, u.pc) /\ u.reply = v.reply
         \/ u.pc = "done" /\ u.reply = Outcome(v)
  BY AdvanceIs
<1>3. {"done", "dead"} \cap Steps(v.kind) = {}
  BY <1>1, StepsAre, KindsAre
<1>4. AtItsStep(c)' /\ u.pc # "create"
  BY <1>2 DEF AtItsStep, Keeps, Ended
<1>5. OnlyRunsOrder(c)'
  <2>1. t.reply # "ordered"
    BY <1>1, <1>3 DEF OnlyRunsOrder, Ended
  <2>2. Outcome(v) = "ordered" => v.kind = "run"
    BY DEF Outcome
  <2> QED
    BY <1>2, <2>1, <2>2 DEF OnlyRunsOrder, Ended, Keeps
<1>6. GoesOnAs(c)
  <2>1. CASE t.pc = "order"
    <3>1. v.kind = "run"
      BY <1>1, <2>1, StepsAre, KindsAre
    <3>2. u.pc = "done"
      BY <2>1, <3>1, AfterTheOrder, StopsIs
    <3> QED
      BY <1>2, <2>1, <3>2 DEF GoesOnAs, Keeps
  <2>2. CASE t.pc # "order"
    BY <1>2, <1>3, <2>2 DEF GoesOnAs, Keeps
  <2> QED
    BY <2>1, <2>2
<1> QED
  BY <1>2, <1>4, <1>5, <1>6

LEMMA MovesByFault ==
  ASSUME NEW t, NEW u \in Task, Moves(t, u)
  PROVE  Moves(t, [u EXCEPT !.faults = @ + 1])
<1> DEFINE v == [u EXCEPT !.faults = @ + 1]
<1>1. v \in Task /\ Keeps(u, v) /\ v.pc = u.pc /\ v.reply = u.reply
  BY FaultIs
<1>2. Takes(u, u.pc) /\ u.pc \in Steps(t.kind) => u.pc = "cancelled" \/ Takes(v, v.pc)
  <2>1. u.pc \in AllSteps \cup {"done", "dead"} /\ u.kind \in Kinds /\ t.kind = u.kind
    BY TaskFields DEF Moves, Keeps
  <2>2. Steps(t.kind) \subseteq AllSteps \ {"cancelled"}
    BY <2>1, StepsAreSteps
  <2> QED
    BY <1>1, <2>2, KeepsTakes
<1>3. \A s \in Steps(t.kind) : s # "cancelled"
  <2>1. t.kind \in Kinds
    BY TaskFields DEF Moves, Keeps
  <2> QED
    BY <2>1, StepsAreSteps
<1> HIDE DEF v
<1>4. v \in Task /\ Keeps(t, v)
  BY <1>1 DEF Moves, Keeps
<1>5. \/ v.pc = t.pc /\ v.reply = t.reply
      \/ v.pc \in Steps(t.kind) \ {"create"} /\ Takes(v, v.pc) /\ v.reply = t.reply
      \/ v.pc = "cancelled" /\ v.request # None /\ v.reply # "ordered"
      \/ v.pc = "dead" /\ v.reply = t.reply
      \/ v.pc = "done" /\ (v.reply = "ordered" => t.kind = "run")
  <2>1. v.request = u.request /\ v.pc = u.pc /\ v.reply = u.reply
    BY <1>1 DEF Keeps
  <2>2. \/ u.pc = t.pc /\ u.reply = t.reply
        \/ u.pc \in Steps(t.kind) \ {"create"} /\ Takes(u, u.pc) /\ u.reply = t.reply
        \/ u.pc = "cancelled" /\ u.request # None /\ u.reply # "ordered"
        \/ u.pc = "dead" /\ u.reply = t.reply
        \/ u.pc = "done" /\ (u.reply = "ordered" => t.kind = "run")
    BY DEF Moves
  <2>3. u.pc \in Steps(t.kind) /\ Takes(u, u.pc) => Takes(v, v.pc)
    BY <1>2, <1>3
  <2> QED
    BY <2>1, <2>2, <2>3, Zenon
<1>6. Moves(t, v)
  BY <1>1, <1>4, <1>5 DEF Moves
<1> QED
  BY <1>6 DEF v

(* A step with a fault. *)
LEMMA FaultStep ==
  ASSUME RecordsInv, NEW c \in Clients, ~Ended(task[c]),
         NEW u \in Task, Moves(task[c], u), u.faults = task[c].faults, BecomesByFault(c, u),
         db' \in Db, late' \subseteq [request : Nat, status : Patches],
         Extends(c), db'.orders = db.orders \/ Places(c)
  PROVE  RecordsInv' /\ task'[c].faults = task[c].faults + 1 /\ Keeps(u, task'[c])
<1> DEFINE v == [u EXCEPT !.faults = @ + 1]
<1>1. TypeOK /\ task[c].faults \in Nat
  BY TaskFields DEF RecordsInv, TypeOK
<1>2. v \in Task /\ Moves(task[c], v) /\ v.faults = task[c].faults + 1 /\ Keeps(u, v)
  BY FaultIs, MovesByFault
<1>3. Becomes(c, v) /\ task[c].faults < MaxFaults[c]
  BY DEF BecomesByFault
<1> HIDE DEF v
<1>4. v.faults <= MaxFaults[c]
  BY <1>1, <1>2, <1>3, RankingAssumption
<1>5. TypeOK' /\ task'[c] = v /\ \A d \in Clients : d # c => task'[d] = task[d]
  BY <1>1, <1>2, <1>3, <1>4, BecomesIs
<1>6. OwnsItsRows(c)' /\ AtItsStep(c)' /\ OnlyRunsOrder(c)' /\ GoesOnAs(c)
  BY <1>2, <1>5, MovesOn
<1>7. RunsUnharmed(c)'
  BY <1>1, <1>2, <1>5 DEF RunsUnharmed
<1> QED
  BY <1>2, <1>5, <1>6, <1>7, HandlerStep

(* A step without one. *)
LEMMA PlainStep ==
  ASSUME RecordsInv, NEW c \in Clients, ~Ended(task[c]),
         NEW u \in Task, Moves(task[c], u), u.faults = task[c].faults, Becomes(c, u),
         db' \in Db, late' \subseteq [request : Nat, status : Patches],
         Extends(c), db'.orders = db.orders \/ Places(c), RunsUnharmed(c)'
  PROVE  RecordsInv' /\ task'[c] = u
<1>1. TypeOK /\ u.faults <= MaxFaults[c]
  BY DEF RecordsInv, TypeOK
<1>2. TypeOK' /\ task'[c] = u /\ \A d \in Clients : d # c => task'[d] = task[d]
  BY <1>1, BecomesIs
<1>3. OwnsItsRows(c)' /\ AtItsStep(c)' /\ OnlyRunsOrder(c)' /\ GoesOnAs(c)
  BY <1>2, MovesOn
<1> QED
  BY <1>2, <1>3, HandlerStep

-----------------------------------------------------------------------------
(* POSTs. *)

LEMMA AtAStep ==
  ASSUME RecordsInv, NEW c \in Clients, task[c].pc \in AllSteps \ {"cancelled"}
  PROVE  /\ task[c] \in Task /\ task[c].kind \in Kinds
         /\ task[c].pc \in Steps(task[c].kind) /\ Takes(task[c], task[c].pc)
         /\ ~Ended(task[c]) /\ task[c].reply # "ordered"
<1>1. task[c] \in Task /\ task[c].kind \in Kinds /\ AtItsStep(c) /\ OnlyRunsOrder(c)
  BY TaskFields DEF RecordsInv, TypeOK
<1>2. ~Ended(task[c])
  BY DEF Ended, AllSteps, Posts, Patches, Calls
<1> QED
  BY <1>1, <1>2 DEF AtItsStep, OnlyRunsOrder

(* A row of the requests is inserted by the first step alone. *)
Inserts(c) ==
  IF task[c].pc = "create"
  THEN db'.requests = Append(db.requests, [by |-> c, status |-> "draft"])
  ELSE db'.requests = db.requests

LEMMA CarriedExtends ==
  ASSUME RecordsInv, NEW c \in Clients, task[c].pc \in Posts, Allowed(c, task[c]),
         db' = Carried(c, task[c]), late' = late
  PROVE  /\ db' \in Db /\ Extends(c) /\ Inserts(c)
         /\ db'.orders = db.orders \/ Places(c)
<1> DEFINE t == task[c]
<1>1. t \in Task /\ t.kind \in Kinds /\ t.pc \in Steps(t.kind) /\ Takes(t, t.pc)
  BY AtAStep DEF AllSteps, Posts, Patches
<1>2. db \in Db /\ Chained
  BY DEF RecordsInv, TypeOK
<1>3. t.request \in Nat /\ t.intent \in Nat /\ t.query \in Nat /\ t.found \in SUBSET Items
      /\ t.choice \in SUBSET Picks
  BY <1>1, TaskFields
<1>4. CASE t.pc = "create"
  <2> DEFINE row == [by |-> c, status |-> "draft"]
  <2>1. db' = CreateRequest(db, c)
    BY <1>4 DEF Carried
  <2>2. /\ db' \in Db /\ db'.requests = Append(db.requests, row)
        /\ db'.parsed = db.parsed /\ db'.queries = db.queries
        /\ db'.scores = db.scores /\ db'.orders = db.orders
    BY <1>2, <2>1, CreateRequestIs
  <2>3. /\ db.requests \in Seq([by : Clients, status : Patches \cup {"draft"}])
        /\ row \in [by : Clients, status : Patches \cup {"draft"}]
    BY <1>2, DbFields
  <2> HIDE DEF row
  <2>4. \A r \in DOMAIN db.requests : r \in DOMAIN db'.requests /\ db'.requests[r] = db.requests[r]
    BY <2>2, <2>3, Appended
  <2>5. Extends(c)
    BY <2>2, <2>4 DEF Extends
  <2> QED
    BY <1>4, <2>2, <2>5 DEF Inserts, row
<1>5. CASE t.pc = "intent"
  <2>1. db' = CreateIntent(db, t.request)
    BY <1>5 DEF Carried
  <2>2. /\ db' \in Db /\ db'.parsed = db.parsed \cup {t.request}
        /\ db'.requests = db.requests /\ db'.queries = db.queries
        /\ db'.scores = db.scores /\ db'.orders = db.orders
    <3> DEFINE i == t.request
           e == CreateIntent(db, i)
    <3>1. i \in Nat
      BY <1>3
    <3> HIDE DEF i
    <3>2. /\ e \in Db /\ e.parsed = db.parsed \cup {i} /\ e.queries = db.queries
          /\ e.requests = db.requests /\ e.scores = db.scores /\ e.orders = db.orders
      BY <1>2, <3>1, CreateIntentIs
    <3>3. db' = e
      BY <2>1 DEF i
    <3> HIDE DEF e
    <3> QED
      BY <3>2, <3>3 DEF i
  <2>3. t.request # None
    BY <1>1, <1>5, TakesIs
  <2> QED
    BY <1>5, <2>2, <2>3 DEF Extends, Inserts
<1>6. CASE t.pc = "discovery"
  <2>1. db' = CreateDiscovery(db, t.intent)
    BY <1>6 DEF Carried
  <2>2. /\ db' \in Db /\ db'.queries = Append(db.queries, t.intent)
        /\ db'.requests = db.requests /\ db'.parsed = db.parsed
        /\ db'.scores = db.scores /\ db'.orders = db.orders
    <3> DEFINE i == t.intent
           e == CreateDiscovery(db, i)
    <3>1. i \in Nat
      BY <1>3
    <3> HIDE DEF i
    <3>2. /\ e \in Db /\ e.queries = Append(db.queries, i) /\ e.parsed = db.parsed
          /\ e.requests = db.requests /\ e.scores = db.scores /\ e.orders = db.orders
      BY <1>2, <3>1, CreateDiscoveryIs
    <3>3. db' = e
      BY <2>1 DEF i
    <3> HIDE DEF e
    <3> QED
      BY <3>2, <3>3 DEF i
  <2>3. \A r \in DOMAIN db.queries : r \in DOMAIN db'.queries /\ db'.queries[r] = db.queries[r]
    BY <1>2, <1>3, <2>2, DbFields, Appended
  <2> QED
    BY <1>6, <2>2, <2>3 DEF Extends, Inserts
<1>7. CASE t.pc = "scores"
  <2>1. db' = CreateScores(db, t.query, t.found)
    BY <1>7 DEF Carried
  <2>2. /\ db' \in Db /\ db'.scores = db.scores \cup Scored(t.query, t.found)
        /\ db'.requests = db.requests /\ db'.parsed = db.parsed
        /\ db'.queries = db.queries /\ db'.orders = db.orders
    BY <1>2, <1>3, <2>1, CreateScoresIs
  <2>3. t.query # None
    BY <1>1, <1>7, TakesIs
  <2>4. \A s \in Scored(t.query, t.found) : s.query = t.query
    BY DEF Scored
  <2> QED
    BY <1>7, <2>2, <2>3, <2>4 DEF Extends, Inserts
<1>8. CASE t.pc = "order"
  <2>1. db' = CreateOrder(db, ScoreOf(t), c) /\ OrderAllowed(db, ScoreOf(t), c)
    BY <1>8 DEF Carried, Allowed
  <2>2. t.choice \cap t.scored # {}
    BY <1>1, <1>8, TakesIs
  <2>3. ScoreOf(t) \in [query : Nat, item : Picks]
    BY <1>3, <2>2 DEF ScoreOf
  <2> DEFINE new == [score |-> ScoreOf(t), ref |-> c]
  <2>4. /\ db' \in Db /\ db'.orders = Append(db.orders, new)
        /\ db'.requests = db.requests /\ db'.parsed = db.parsed
        /\ db'.queries = db.queries /\ db'.scores = db.scores
    BY <1>2, <2>1, <2>3, CreateOrderIs
  <2>5. PICK S : db.orders \in Seq(S) /\ new \in S
    <3>1. db.orders \in Seq([score : [query : Nat, item : Picks], ref : Clients])
      BY <1>2, DbFields
    <3>2. new \in [score : [query : Nat, item : Picks], ref : Clients]
      BY <2>3
    <3> QED
      BY <3>1, <3>2
  <2>6. Places(c)
    BY <1>8, <2>1, <2>4 DEF Places
  <2> HIDE DEF new
  <2>7. \A k \in DOMAIN db.orders : k \in DOMAIN db'.orders /\ db'.orders[k] = db.orders[k]
    BY <2>4, <2>5, Appended
  <2> QED
    BY <1>8, <2>4, <2>6, <2>7 DEF Extends, Inserts
<1> QED
  BY <1>4, <1>5, <1>6, <1>7, <1>8 DEF Posts

LEMMA BrokenOffExtends ==
  ASSUME RecordsInv, NEW c \in Clients, task[c].pc \in Posts, db' \in BrokenOff(task[c]), late' = late
  PROVE  db' \in Db /\ Extends(c) /\ db'.requests = db.requests /\ db'.orders = db.orders
<1> DEFINE t == task[c]
<1>1. t \in Task /\ t.kind \in Kinds /\ t.pc \in Steps(t.kind) /\ Takes(t, t.pc)
  BY AtAStep DEF AllSteps, Posts, Patches
<1>2. db \in Db /\ t.request \in Nat /\ t.query \in Nat
  BY <1>1, TaskFields DEF RecordsInv, TypeOK
<1>3. CASE db' = db
  BY <1>2, <1>3 DEF Extends
<1>4. CASE t.pc = "intent" /\ db' = CreateParsedIntent(db, t.request)
  <2>1. /\ db' \in Db /\ db'.parsed = db.parsed \cup {t.request}
        /\ db'.requests = db.requests /\ db'.queries = db.queries
        /\ db'.scores = db.scores /\ db'.orders = db.orders
    BY <1>2, <1>4, CreateParsedIntentIs
  <2>2. t.request # None
    BY <1>1, <1>4, TakesIs
  <2> QED
    BY <2>1, <2>2 DEF Extends
<1>5. ASSUME t.pc = "scores", NEW n \in DOMAIN Ranking,
             db' = CreateScores(db, t.query, {Ranking[i] : i \in 1 .. n})
      PROVE  db' \in Db /\ Extends(c) /\ db'.requests = db.requests /\ db'.orders = db.orders
  <2> DEFINE items == {Ranking[i] : i \in 1 .. n}
  <2>1. items \in SUBSET Items
    BY RankingAssumption
  <2> HIDE DEF items
  <2>2. db' = CreateScores(db, t.query, items)
    BY <1>5 DEF items
  <2>3. /\ db' \in Db /\ db'.scores = db.scores \cup Scored(t.query, items)
        /\ db'.requests = db.requests /\ db'.parsed = db.parsed
        /\ db'.queries = db.queries /\ db'.orders = db.orders
    BY <1>2, <2>1, <2>2, CreateScoresIs
  <2>4. t.query # None
    BY <1>1, <1>5, TakesIs
  <2>5. \A s \in Scored(t.query, items) : s.query = t.query
    BY DEF Scored
  <2> QED
    BY <2>3, <2>4, <2>5 DEF Extends
<1> QED
  BY <1>3, <1>4, <1>5 DEF BrokenOff

LEMMA PostUnansweredKeeps ==
  ASSUME RecordsInv, NEW c \in Clients, PostUnanswered(c)
  PROVE  /\ RecordsInv' /\ task'[c].faults = task[c].faults + 1
         /\ Keeps(task[c], task'[c]) /\ Inserts(c)
<1> DEFINE t == task[c]
<1>1. /\ t.pc \in Posts /\ Allowed(c, t) /\ db' = Carried(c, t)
      /\ BecomesByFault(c, Retry(t)) /\ late' = late
  BY DEF PostUnanswered
<1>2. t \in Task /\ t.pc \in Steps(t.kind) /\ ~Ended(t)
  BY <1>1, AtAStep DEF AllSteps, Posts, Patches
<1>3. Retry(t) \in Task /\ Moves(t, Retry(t)) /\ Retry(t).faults = t.faults /\ Keeps(t, Retry(t))
  BY <1>2, RetryMoves DEF Moves
<1>4. db' \in Db /\ Extends(c) /\ Inserts(c) /\ (db'.orders = db.orders \/ Places(c))
  BY <1>1, CarriedExtends
<1>5. late' \subseteq [request : Nat, status : Patches]
  BY <1>1 DEF RecordsInv, TypeOK
<1>6. /\ RecordsInv' /\ task'[c].faults = task[c].faults + 1
      /\ Keeps(Retry(t), task'[c])
  BY <1>1, <1>2, <1>3, <1>4, <1>5, FaultStep
<1> QED
  BY <1>3, <1>4, <1>6 DEF Keeps

LEMMA PostFailsKeeps ==
  ASSUME RecordsInv, NEW c \in Clients, PostFails(c)
  PROVE  /\ RecordsInv' /\ task'[c].faults = task[c].faults + 1
         /\ Keeps(task[c], task'[c]) /\ db'.requests = db.requests
<1> DEFINE t == task[c]
<1>1. /\ t.pc \in Posts /\ db' \in BrokenOff(t)
      /\ BecomesByFault(c, Retry(t)) /\ late' = late
  BY DEF PostFails
<1>2. t \in Task /\ t.pc \in Steps(t.kind) /\ ~Ended(t)
  BY <1>1, AtAStep DEF AllSteps, Posts, Patches
<1>3. Retry(t) \in Task /\ Moves(t, Retry(t)) /\ Retry(t).faults = t.faults /\ Keeps(t, Retry(t))
  BY <1>2, RetryMoves DEF Moves
<1>4. db' \in Db /\ Extends(c) /\ db'.requests = db.requests /\ db'.orders = db.orders
  BY <1>1, BrokenOffExtends
<1>5. late' \subseteq [request : Nat, status : Patches]
  BY <1>1 DEF RecordsInv, TypeOK
<1>6. /\ RecordsInv' /\ task'[c].faults = task[c].faults + 1
      /\ Keeps(Retry(t), task'[c])
  BY <1>1, <1>2, <1>3, <1>4, <1>5, FaultStep
<1> QED
  BY <1>3, <1>4, <1>6 DEF Keeps

(* A run takes its steps one after the other. *)
LEMMA NextOfRun ==
  ASSUME NEW t \in Task, t.kind = "run", t.pc \in Steps("run"),
         NEW s \in Steps("run"), Place(s) = Place(t.pc) + 1, Takes(t, s)
  PROVE  Advance(t).pc = s /\ Advance(t).reply = t.reply
<1> DEFINE p == Advance(t).pc
<1>1. \A r \in Steps("run") : Place(r) \in Int
  BY StepsAre DEF Place
<1>2. /\ p \in Steps("run") /\ Place(t.pc) < Place(p) /\ Place(p) <= Place(s)
      /\ Advance(t).reply = t.reply
  BY <1>1, AdvanceUpTo DEF Compares
<1> HIDE DEF p
<1>3. Place(p) = Place(s)
  BY <1>1, <1>2
<1>4. \A q, r \in Steps("run") : Place(q) = Place(r) => q = r
  BY StepsAre DEF Place
<1> QED
  BY <1>2, <1>3, <1>4 DEF p

(* What another try of a run's POST finds, if no fault met the run. *)
LEMMA RefusedUnharmed ==
  ASSUME RecordsInv, NEW c \in Clients, task[c].pc \in Posts, ~Allowed(c, task[c]),
         task[c].kind = "run", task[c].faults = 0
  PROVE  task[c].pc = "order" /\ \E k \in DOMAIN db.orders : db.orders[k].ref = c
<1> DEFINE t == task[c]
<1>1. t \in Task /\ t.pc \in Steps("run") /\ Takes(t, t.pc)
  BY AtAStep DEF AllSteps, Posts, Patches
<1>2. Unharmed(c) /\ OwnsItsRows(c) /\ OrdersAreOfRuns
  BY <1>1 DEF RecordsInv, RunsUnharmed
<1>3. t.pc # "intent"
  BY <1>2 DEF Allowed, IntentAllowed, Unharmed
<1>4. t.pc # "scores"
  <2>1. t.pc = "scores" => Scored(t.query, t.found) \cap db.scores = {}
    BY <1>2 DEF Unharmed, Scored
  <2> QED
    BY <2>1 DEF Allowed, ScoresAllowed
<1>5. t.pc = "order"
  BY <1>3, <1>4 DEF Allowed, Posts
<1>6. PICK k \in DOMAIN db.orders : db.orders[k].score = ScoreOf(t) \/ db.orders[k].ref = c
  BY <1>5 DEF Allowed, OrderAllowed
<1>7. CASE db.orders[k].score = ScoreOf(t)
  <2>1. RequestOf(db, db.orders[k]) = db.queries[t.query]
    BY <1>7 DEF RequestOf, ScoreOf
  <2>2. t.query # None
    BY <1>1, <1>2, <1>5, TakesIs DEF OwnsItsRows
  <2>3. db.requests[db.queries[t.query]].by = c
    BY <1>2, <2>2 DEF OwnsItsRows
  <2>4. db.orders[k].ref = c
    BY <1>2, <2>1, <2>3 DEF OrdersAreOfRuns
  <2> QED
    BY <1>5, <2>4
<1> QED
  BY <1>5, <1>6, <1>7

LEMMA PostRefusedKeeps ==
  ASSUME RecordsInv, NEW c \in Clients, PostRefused(c)
  PROVE  RecordsInv' /\ task'[c] = Retry(task[c]) /\ db' = db /\ late' = late
<1> DEFINE t == task[c]
<1>1. /\ t.pc \in Posts /\ ~Allowed(c, t) /\ Becomes(c, Retry(t)) /\ late' = late /\ db' = db
  BY DEF PostRefused
<1>2. t \in Task /\ t.pc \in Steps(t.kind) /\ ~Ended(t) /\ t.reply # "ordered"
  BY <1>1, AtAStep DEF AllSteps, Posts, Patches
<1>3. Retry(t) \in Task /\ Moves(t, Retry(t)) /\ Retry(t).faults = t.faults
  BY <1>2, RetryMoves DEF Moves
<1>4. db' \in Db /\ Extends(c) /\ db'.orders = db.orders
  BY <1>1 DEF RecordsInv, TypeOK, Extends
<1>5. late' \subseteq [request : Nat, status : Patches]
  BY <1>1 DEF RecordsInv, TypeOK
<1>6. task'[c] = Retry(t)
  BY <1>1 DEF RecordsInv, TypeOK, Becomes
<1>7. RunsUnharmed(c)'
  <2> SUFFICES ASSUME task'[c].kind = "run", task'[c].faults = 0
               PROVE  /\ task'[c].pc \in Steps("run") => Unharmed(c)'
                      /\ \E k \in DOMAIN db'.orders : db'.orders[k].ref = c
    BY DEF RunsUnharmed
  <2>1. t.kind = "run" /\ t.faults = 0
    BY <1>3, <1>6 DEF Moves, Keeps
  <2>2. t.pc = "order" /\ \E k \in DOMAIN db.orders : db.orders[k].ref = c
    BY <1>1, <2>1, RefusedUnharmed
  <2>3. task'[c].pc \in {"order", "done", "dead"}
    BY <1>3, <1>6, <2>1, <2>2 DEF Moves
  <2>4. Unharmed(c)
    BY <1>2, <2>1 DEF RecordsInv, RunsUnharmed
  <2>5. CASE task'[c].pc = "order"
    BY <1>1, <1>3, <1>6, <2>2, <2>4, <2>5 DEF Unharmed, Moves, Keeps
  <2>6. CASE task'[c].pc # "order"
    BY <1>1, <2>2, <2>3, <2>6, StepsAre
  <2> QED
    BY <1>1, <2>2, <2>5, <2>6
<1>8. RecordsInv' /\ task'[c] = Retry(t)
  BY <1>1, <1>2, <1>3, <1>4, <1>5, <1>7, PlainStep
<1> QED
  BY <1>1, <1>8

(* A handler that holds v owns it, in the records after the step. *)
OwnsThen(v, c) ==
  /\ v.request # None => v.request \in DOMAIN db'.requests /\ db'.requests[v.request].by = c
  /\ v.intent # None => v.intent = v.request
  /\ v.query # None => /\ v.request # None /\ v.query \in DOMAIN db'.queries
                       /\ db'.queries[v.query] = v.request
  /\ v.scored # {} => v.query # None
  /\ v.found # {} => v.found = Items

(* A step without a fault on which the handler got something new, v. *)
LEMMA GetsStep ==
  ASSUME RecordsInv, NEW c \in Clients, NEW v \in Task,
         v.kind = task[c].kind, v.pc = task[c].pc, v.reply = task[c].reply,
         v.faults = task[c].faults, v.pc \in Steps(v.kind), Becomes(c, Advance(v)),
         task[c].request = None \/ v.request = task[c].request,
         task[c].pc = "order" => v.choice = task[c].choice,
         db' \in Db, late' = late, Extends(c), db'.orders = db.orders \/ Places(c),
         OwnsThen(v, c), RunsUnharmed(c)'
  PROVE  RecordsInv'
<1>1. TypeOK /\ late' \subseteq [request : Nat, status : Patches] /\ v.faults <= MaxFaults[c]
  BY DEF RecordsInv, TypeOK
<1>2. Advance(v) \in Task /\ Advance(v).faults = v.faults
  BY AdvanceIs
<1>3. TypeOK' /\ task'[c] = Advance(v) /\ \A d \in Clients : d # c => task'[d] = task[d]
  BY <1>1, <1>2, BecomesIs
<1>4. /\ AtItsStep(c)' /\ OnlyRunsOrder(c)' /\ GoesOnAs(c)
      /\ Keeps(v, task'[c]) /\ task'[c].pc # "create"
  BY <1>3, AdvancesOn
<1>5. OwnsItsRows(c)'
  BY <1>4 DEF OwnsItsRows, OwnsThen, Keeps
<1> QED
  BY <1>3, <1>4, <1>5, HandlerStep

(* Where an unharmed run goes with v. *)
LEMMA GetsOn ==
  ASSUME RecordsInv, NEW c \in Clients, NEW v \in Task,
         v.pc = task[c].pc, v.reply = task[c].reply, v.kind = "run", v.pc \in Steps("run"),
         task[c].kind = "run", Becomes(c, Advance(v)),
         NEW s \in Steps("run"), Place(s) = Place(v.pc) + 1, Takes(v, s)
  PROVE  /\ task'[c].pc = s /\ task'[c].reply # "ordered" /\ Keeps(v, task'[c])
         /\ task[c].faults = 0 => Unharmed(c)
<1>1. v.pc \in AllSteps \ {"cancelled"}
  BY StepsAre, StepsAreSteps, KindsAre
<1>2. task[c].reply # "ordered" /\ task[c].pc \in Steps("run")
  BY <1>1, AtAStep
<1>3. task'[c] = Advance(v)
  BY DEF RecordsInv, TypeOK, Becomes
<1>4. task[c].faults = 0 => Unharmed(c)
  BY <1>2 DEF RecordsInv, RunsUnharmed
<1> QED
  BY <1>2, <1>3, <1>4, NextOfRun, AdvanceIs

LEMMA CreatePosted ==
  ASSUME RecordsInv, NEW c \in Clients, PostSucceeds(c), task[c].pc = "create"
  PROVE  RecordsInv'
<1> DEFINE t == task[c]
           r == Len(db.requests) + 1
           v == [t EXCEPT !.request = r]
<1>1. /\ Allowed(c, t) /\ db' = Carried(c, t) /\ late' = late
      /\ Becomes(c, Advance(Answered(t, db')))
  BY DEF PostSucceeds
<1>2. /\ t \in Task /\ t.kind \in Kinds /\ t.pc \in Steps(t.kind) /\ t.reply # "ordered"
  BY AtAStep DEF AllSteps, Posts, Patches
<1>3. /\ db' \in Db /\ Extends(c) /\ (db'.orders = db.orders \/ Places(c))
      /\ db'.requests = Append(db.requests, [by |-> c, status |-> "draft"])
  BY <1>1, CarriedExtends DEF Inserts, Posts
<1>4. /\ Chained /\ OwnsItsRows(c) /\ t.request = None
      /\ db.requests \in Seq([by : Clients, status : Patches \cup {"draft"}])
  BY DbFields DEF RecordsInv, TypeOK, OwnsItsRows
<1>5. /\ r \in Nat /\ r # None /\ r \notin DOMAIN db.requests
      /\ Len(db'.requests) = r /\ r \in DOMAIN db'.requests /\ db'.requests[r].by = c
  <2> DEFINE row == [by |-> c, status |-> "draft"]
  <2>1. row \in [by : Clients, status : Patches \cup {"draft"}] /\ row.by = c
    OBVIOUS
  <2>2. db'.requests = Append(db.requests, row)
    BY <1>3
  <2> HIDE DEF row
  <2>3. /\ Len(db'.requests) = r /\ r \in DOMAIN db'.requests /\ r \notin DOMAIN db.requests
        /\ db'.requests[r] = row
    BY <1>4, <2>1, <2>2, Appended
  <2> QED
    BY <1>4, <2>1, <2>3 DEF None
<1>6. /\ v \in Task /\ v.kind = t.kind /\ v.pc = t.pc /\ v.reply = t.reply /\ v.faults = t.faults
      /\ v.request = r /\ v.intent = t.intent /\ v.query = t.query /\ v.found = t.found
      /\ v.scored = t.scored /\ v.choice = t.choice
  BY <1>2, <1>5 DEF Task
<1>7. Answered(t, db') = v
  BY <1>5 DEF Answered
<1> HIDE DEF v, r
<1>8. OwnsThen(v, c)
  BY <1>4, <1>5, <1>6 DEF OwnsThen, OwnsItsRows
<1>9. RunsUnharmed(c)'
  <2> SUFFICES ASSUME task'[c].kind = "run"
               PROVE  Unharmed(c)' /\ task'[c].reply # "ordered"
    BY DEF RunsUnharmed
  <2>1. task'[c] = Advance(v) /\ Keeps(v, Advance(v))
    BY <1>1, <1>2, <1>6, <1>7, AdvanceIs DEF RecordsInv, TypeOK, Becomes
  <2>2. v.kind = "run" /\ t.kind = "run"
    BY <1>6, <2>1 DEF Keeps
  <2>3. Takes(v, "intent") /\ "intent" \in Steps("run") /\ Place("intent") = Place(v.pc) + 1
    BY <1>5, <1>6, TakesIs, StepsAre DEF Place
  <2>4. task'[c].pc = "intent" /\ task'[c].reply # "ordered" /\ task'[c].request = r
    BY <1>1, <1>2, <1>6, <1>7, <2>2, <2>3, GetsOn DEF Keeps
  <2>5. r \notin db'.parsed
    BY <1>4, <1>5, <1>3 DEF Chained, Extends
  <2> QED
    BY <1>5, <2>4, <2>5 DEF Unharmed
<1> QED
  BY <1>1, <1>2, <1>3, <1>4, <1>6, <1>7, <1>8, <1>9, GetsStep

LEMMA IntentPosted ==
  ASSUME RecordsInv, NEW c \in Clients, PostSucceeds(c), task[c].pc = "intent"
  PROVE  RecordsInv'
<1> DEFINE t == task[c]
           v == [t EXCEPT !.intent = t.request]
<1>1. /\ Allowed(c, t) /\ db' = Carried(c, t) /\ late' = late
      /\ Becomes(c, Advance(Answered(t, db')))
  BY DEF PostSucceeds
<1>2. /\ t \in Task /\ t.kind \in Kinds /\ t.pc \in Steps(t.kind) /\ t.reply # "ordered"
      /\ t.request # None /\ OwnsItsRows(c)
  BY AtAStep, TakesIs DEF AllSteps, Posts, Patches, RecordsInv
<1>3. /\ db' \in Db /\ Extends(c) /\ (db'.orders = db.orders \/ Places(c))
  BY <1>1, CarriedExtends DEF Posts
<1>4. /\ v \in Task /\ v.kind = t.kind /\ v.pc = t.pc /\ v.reply = t.reply /\ v.faults = t.faults
      /\ v.request = t.request /\ v.intent = t.request /\ v.query = t.query /\ v.found = t.found
      /\ v.scored = t.scored /\ v.choice = t.choice
  BY <1>2 DEF Task
<1>5. Answered(t, db') = v
  BY DEF Answered
<1> HIDE DEF v
<1>6. OwnsThen(v, c)
  BY <1>2, <1>3, <1>4 DEF OwnsThen, OwnsItsRows, Extends
<1>7. RunsUnharmed(c)'
  <2> SUFFICES ASSUME task'[c].kind = "run"
               PROVE  Unharmed(c)' /\ task'[c].reply # "ordered"
    BY DEF RunsUnharmed
  <2>1. task'[c] = Advance(v) /\ Keeps(v, Advance(v))
    BY <1>1, <1>2, <1>4, <1>5, AdvanceIs DEF RecordsInv, TypeOK, Becomes
  <2>2. v.kind = "run" /\ t.kind = "run"
    BY <1>4, <2>1 DEF Keeps
  <2>3. Takes(v, "discovering") /\ "discovering" \in Steps("run")
        /\ Place("discovering") = Place(v.pc) + 1
    BY <1>2, <1>4, TakesIs, StepsAre DEF Place
  <2>4. /\ task'[c].pc = "discovering" /\ task'[c].reply # "ordered"
        /\ task'[c].request # None /\ task'[c].intent # None
    BY <1>1, <1>2, <1>4, <1>5, <2>2, <2>3, GetsOn DEF Keeps
  <2> QED
    BY <2>4 DEF Unharmed
<1> QED
  BY <1>1, <1>2, <1>3, <1>4, <1>5, <1>6, <1>7, GetsStep

LEMMA DiscoveryPosted ==
  ASSUME RecordsInv, NEW c \in Clients, PostSucceeds(c), task[c].pc = "discovery"
  PROVE  RecordsInv'
<1> DEFINE t == task[c]
           q == Len(db.queries) + 1
           v == [t EXCEPT !.query = q]
<1>1. /\ Allowed(c, t) /\ db' = Carried(c, t) /\ late' = late
      /\ Becomes(c, Advance(Answered(t, db')))
  BY DEF PostSucceeds
<1>2. /\ t \in Task /\ t.kind \in Kinds /\ t.pc \in Steps(t.kind) /\ t.reply # "ordered"
      /\ t.intent # None /\ OwnsItsRows(c)
  BY AtAStep, TakesIs DEF AllSteps, Posts, Patches, RecordsInv
<1>3. /\ db' \in Db /\ Extends(c) /\ (db'.orders = db.orders \/ Places(c))
  BY <1>1, CarriedExtends DEF Posts
<1>4. /\ Chained /\ t.intent = t.request /\ t.intent \in Nat /\ t.request # None
      /\ db.queries \in Seq(Nat) /\ db \in Db
  BY <1>2, DbFields, TaskFields DEF RecordsInv, TypeOK, OwnsItsRows
<1>5. /\ q \in Nat /\ q # None /\ q \notin DOMAIN db.queries
      /\ Len(db'.queries) = q /\ q \in DOMAIN db'.queries /\ db'.queries[q] = t.intent
      /\ db'.scores = db.scores
  <2> DEFINE i == t.intent
  <2>1. i \in Nat
    BY <1>4
  <2>2. db' = CreateDiscovery(db, i)
    BY <1>1 DEF Carried
  <2> HIDE DEF i
  <2>3. db'.queries = Append(db.queries, i) /\ db'.scores = db.scores
    BY <1>4, <2>1, <2>2, CreateDiscoveryIs
  <2>4. /\ Len(db'.queries) = q /\ q \in DOMAIN db'.queries /\ q \notin DOMAIN db.queries
        /\ db'.queries[q] = i
    BY <1>4, <2>1, <2>3, Appended
  <2> QED
    BY <1>4, <2>3, <2>4 DEF None, i
<1>6. /\ v \in Task /\ v.kind = t.kind /\ v.pc = t.pc /\ v.reply = t.reply /\ v.faults = t.faults
      /\ v.request = t.request /\ v.intent = t.intent /\ v.query = q /\ v.found = t.found
      /\ v.scored = t.scored /\ v.choice = t.choice
  BY <1>2, <1>5 DEF Task
<1>7. Answered(t, db') = v
  BY <1>5 DEF Answered
<1> HIDE DEF v, q
<1>8. OwnsThen(v, c)
  BY <1>2, <1>3, <1>4, <1>5, <1>6 DEF OwnsThen, OwnsItsRows, Extends
<1>9. RunsUnharmed(c)'
  <2> SUFFICES ASSUME task'[c].kind = "run", task'[c].faults = 0
               PROVE  Unharmed(c)' /\ task'[c].reply # "ordered"
    BY DEF RunsUnharmed
  <2>1. task'[c] = Advance(v) /\ Keeps(v, Advance(v)) /\ Advance(v).faults = v.faults
    BY <1>1, <1>2, <1>6, <1>7, AdvanceIs DEF RecordsInv, TypeOK, Becomes
  <2>2. v.kind = "run" /\ t.kind = "run" /\ t.faults = 0
    BY <1>6, <2>1 DEF Keeps
  <2>3. Takes(v, "scoring") /\ "scoring" \in Steps("run") /\ Place("scoring") = Place(v.pc) + 1
    BY <1>4, <1>6, <2>2, TakesIs, StepsAre DEF Place, Compares
  <2>4. /\ task'[c].pc = "scoring" /\ task'[c].reply # "ordered" /\ Keeps(v, task'[c])
        /\ Unharmed(c)
    BY <1>1, <1>2, <1>6, <1>7, <2>2, <2>3, GetsOn
  <2>5. \A s \in db'.scores : s.query # q
    BY <1>4, <1>5 DEF Chained
  <2> QED
    BY <1>2, <1>4, <1>5, <1>6, <2>4, <2>5 DEF Unharmed, Keeps
<1> QED
  BY <1>1, <1>2, <1>3, <1>4, <1>6, <1>7, <1>8, <1>9, GetsStep

LEMMA ScoresPosted ==
  ASSUME RecordsInv, NEW c \in Clients, PostSucceeds(c), task[c].pc = "scores"
  PROVE  RecordsInv'
<1> DEFINE t == task[c]
           v == [t EXCEPT !.scored = t.found]
<1>1. /\ Allowed(c, t) /\ db' = Carried(c, t) /\ late' = late
      /\ Becomes(c, Advance(Answered(t, db')))
  BY DEF PostSucceeds
<1>2. /\ t \in Task /\ t.kind \in Kinds /\ t.pc \in Steps(t.kind) /\ t.reply # "ordered"
      /\ t.query # None /\ OwnsItsRows(c)
  BY AtAStep, TakesIs DEF AllSteps, Posts, Patches, RecordsInv
<1>3. /\ db' \in Db /\ Extends(c) /\ (db'.orders = db.orders \/ Places(c))
  BY <1>1, CarriedExtends DEF Posts
<1>4. /\ v \in Task /\ v.kind = t.kind /\ v.pc = t.pc /\ v.reply = t.reply /\ v.faults = t.faults
      /\ v.request = t.request /\ v.intent = t.intent /\ v.query = t.query /\ v.found = t.found
      /\ v.scored = t.found /\ v.choice = t.choice /\ v.recommended = t.recommended
  BY <1>2 DEF Task
<1>5. Answered(t, db') = v
  BY DEF Answered
<1> HIDE DEF v
<1>6. OwnsThen(v, c)
  BY <1>2, <1>3, <1>4 DEF OwnsThen, OwnsItsRows, Extends
<1>7. RunsUnharmed(c)'
  <2> SUFFICES ASSUME task'[c].kind = "run", task'[c].faults = 0
               PROVE  Unharmed(c)' /\ task'[c].reply # "ordered"
    BY DEF RunsUnharmed
  <2>1. task'[c] = Advance(v) /\ Keeps(v, Advance(v)) /\ Advance(v).faults = v.faults
    BY <1>1, <1>2, <1>4, <1>5, AdvanceIs DEF RecordsInv, TypeOK, Becomes
  <2>2. v.kind = "run" /\ t.kind = "run" /\ t.faults = 0
    BY <1>4, <2>1 DEF Keeps
  <2>3. Takes(v, "negotiating") /\ "negotiating" \in Steps("run")
        /\ Place("negotiating") = Place(v.pc) + 1
    BY <1>2, <1>4, TakesIs, StepsAre DEF Place
  <2>4. /\ task'[c].pc = "negotiating" /\ task'[c].reply # "ordered" /\ Keeps(v, task'[c])
        /\ Unharmed(c)
    BY <1>1, <1>2, <1>4, <1>5, <2>2, <2>3, GetsOn
  <2> QED
    BY <1>4, <2>4 DEF Unharmed, Keeps
<1> QED
  BY <1>1, <1>2, <1>3, <1>4, <1>5, <1>6, <1>7, GetsStep

LEMMA OrderPosted ==
  ASSUME RecordsInv, NEW c \in Clients, PostSucceeds(c), task[c].pc = "order"
  PROVE  RecordsInv'
<1> DEFINE t == task[c]
<1>1. /\ Allowed(c, t) /\ db' = Carried(c, t) /\ late' = late
      /\ Becomes(c, Advance(Answered(t, db'))) /\ Answered(t, db') = t
  BY DEF PostSucceeds, Answered
<1>2. /\ t \in Task /\ t.kind \in Kinds /\ t.pc \in Steps(t.kind) /\ t.reply # "ordered"
      /\ t.kind = "run" /\ OwnsItsRows(c) /\ ~Ended(t)
  BY AtAStep, StepsAre, KindsAre DEF AllSteps, Posts, Patches, RecordsInv
<1>3. /\ db' \in Db /\ Extends(c) /\ (db'.orders = db.orders \/ Places(c))
  BY <1>1, CarriedExtends DEF Posts
<1>4. \E k \in DOMAIN db'.orders : db'.orders[k].ref = c
  <2> DEFINE new == [score |-> ScoreOf(t), ref |-> c]
  <2>1. db'.orders = Append(db.orders, new)
    BY <1>1 DEF Carried, CreateOrder, RecordsInv, TypeOK, Db
  <2>2. db.orders \in Seq([score : [query : Nat, item : Picks], ref : Clients])
    BY DbFields DEF RecordsInv, TypeOK
  <2>3. Len(db'.orders) = Len(db.orders) + 1
    BY <2>1, <2>2
  <2>4. new.ref = c
    OBVIOUS
  <2> HIDE DEF new
  <2>5. Len(db.orders) + 1 \in DOMAIN db'.orders /\ db'.orders[Len(db.orders) + 1] = new
    BY <2>1, <2>2
  <2> QED
    BY <2>4, <2>5
<1>5. task'[c] = Advance(t) /\ Advance(t).pc = "done" /\ Moves(t, Advance(t)) /\ Advance(t).faults = t.faults
  BY <1>1, <1>2, AfterTheOrder, StopsIs, AdvanceMoves DEF RecordsInv, TypeOK, Becomes
<1>6. RunsUnharmed(c)'
  BY <1>4, <1>5, StepsAre DEF RunsUnharmed
<1>7. Advance(t) \in Task /\ late' \subseteq [request : Nat, status : Patches]
  BY <1>1, <1>5 DEF Moves, RecordsInv, TypeOK
<1> QED
  BY <1>1, <1>2, <1>3, <1>5, <1>6, <1>7, PlainStep

LEMMA PostSucceedsKeeps ==
  ASSUME RecordsInv, NEW c \in Clients, PostSucceeds(c)
  PROVE  RecordsInv'
<1>1. task[c].pc \in Posts
  BY DEF PostSucceeds
<1> QED
  BY <1>1, CreatePosted, IntentPosted, DiscoveryPosted, ScoresPosted, OrderPosted DEF Posts

-----------------------------------------------------------------------------
(* PATCHes. *)

LEMMA PatchesItsRow ==
  ASSUME RecordsInv, NEW c \in Clients, task[c].pc \in Patches
  PROVE  /\ task[c] \in Task /\ ~Ended(task[c]) /\ task[c].reply # "ordered"
         /\ task[c].request # None /\ task[c].request \in DOMAIN db.requests
         /\ db.requests[task[c].request].by = c
         /\ Moves(task[c], Advance(task[c])) /\ Advance(task[c]).faults = task[c].faults
<1> DEFINE t == task[c]
<1>1. t \in Task /\ OwnsItsRows(c) /\ AtItsStep(c) /\ OnlyRunsOrder(c)
  BY DEF RecordsInv, TypeOK
<1>2. ~Ended(t) /\ t.reply # "ordered"
  BY <1>1 DEF Ended, Patches, OnlyRunsOrder
<1>3. CASE t.pc = "cancelled"
  <2>1. "cancelled" \notin Steps(t.kind)
    BY <1>1, TaskFields, StepsAreSteps
  <2>2. t.request # None
    BY <1>1, <1>2, <1>3, <2>1 DEF AtItsStep
  <2> QED
    BY <1>1, <1>2, <1>3, <2>2, CancelledMoves DEF OwnsItsRows
<1>4. CASE t.pc # "cancelled"
  <2>1. t.pc \in AllSteps \ {"cancelled"}
    BY <1>4 DEF AllSteps
  <2>2. t.pc \in Steps(t.kind) /\ Takes(t, t.pc)
    BY <2>1, AtAStep
  <2>3. t.request # None
    BY <1>1, <1>4, <2>2, TakesIs DEF Patches, OwnsItsRows
  <2> QED
    BY <1>1, <1>2, <2>2, <2>3, AdvanceMoves DEF OwnsItsRows
<1> QED
  BY <1>3, <1>4

LEMMA PatchLostKeeps ==
  ASSUME RecordsInv, NEW c \in Clients, PatchLost(c)
  PROVE  /\ RecordsInv' /\ task'[c].faults = task[c].faults + 1
         /\ Keeps(task[c], task'[c]) /\ db' = db
<1> DEFINE t == task[c]
<1>1. t.pc \in Patches /\ BecomesByFault(c, Advance(t)) /\ db' = db /\ late' = late
  BY DEF PatchLost
<1>2. t \in Task /\ ~Ended(t) /\ Moves(t, Advance(t)) /\ Advance(t).faults = t.faults
  BY <1>1, PatchesItsRow
<1>3. Advance(t) \in Task /\ Keeps(t, Advance(t))
  BY <1>2 DEF Moves
<1>4. db' \in Db /\ late' \subseteq [request : Nat, status : Patches]
  BY <1>1 DEF RecordsInv, TypeOK
<1>5. Extends(c) /\ db'.orders = db.orders
  BY <1>1 DEF Extends
<1>6. /\ RecordsInv' /\ task'[c].faults = task[c].faults + 1
      /\ Keeps(Advance(t), task'[c])
  BY <1>1, <1>2, <1>3, <1>4, <1>5, FaultStep
<1> QED
  BY <1>1, <1>3, <1>6 DEF Keeps

LEMMA PatchDelayedKeeps ==
  ASSUME RecordsInv, NEW c \in Clients, PatchDelayed(c)
  PROVE  /\ RecordsInv' /\ task'[c].faults = task[c].faults + 1
         /\ Keeps(task[c], task'[c]) /\ db' = db
         /\ \A w \in late' \ late : w.request = task[c].request /\ w.request # None
<1> DEFINE t == task[c]
           w == [request |-> t.request, status |-> t.pc]
<1>1. t.pc \in Patches /\ BecomesByFault(c, Advance(t)) /\ db' = db /\ late' = late \cup {w}
  BY DEF PatchDelayed
<1>2. t \in Task /\ ~Ended(t) /\ Moves(t, Advance(t)) /\ Advance(t).faults = t.faults /\ t.request # None
  BY <1>1, PatchesItsRow
<1>3. Advance(t) \in Task /\ Keeps(t, Advance(t))
  BY <1>2 DEF Moves
<1>4. db' \in Db /\ late' \subseteq [request : Nat, status : Patches]
  <2>1. w \in [request : Nat, status : Patches]
    BY <1>1, <1>2, TaskFields
  <2> QED
    BY <1>1, <2>1 DEF RecordsInv, TypeOK
<1>5. Extends(c) /\ db'.orders = db.orders
  BY <1>1, <1>2 DEF Extends
<1>6. /\ RecordsInv' /\ task'[c].faults = task[c].faults + 1
      /\ Keeps(Advance(t), task'[c])
  BY <1>1, <1>2, <1>3, <1>4, <1>5, FaultStep
<1> QED
  BY <1>1, <1>2, <1>3, <1>6 DEF Keeps

(* A run that met no fault goes on from a step on which it learnt nothing. *)
LEMMA UnharmedOn ==
  ASSUME RecordsInv, NEW c \in Clients, Becomes(c, Advance(task[c])),
         db'.parsed = db.parsed, db'.scores = db.scores,
         task[c].pc \in {"discovering", "scoring", "negotiating", "confirmed"}
  PROVE  RunsUnharmed(c)'
<1> DEFINE t == task[c]
<1> SUFFICES ASSUME task'[c].kind = "run", task'[c].faults = 0
             PROVE  Unharmed(c)' /\ task'[c].reply # "ordered"
  BY DEF RunsUnharmed
<1>1. t.pc \in AllSteps \ {"cancelled"}
  BY DEF AllSteps, Patches
<1>2. t \in Task /\ t.pc \in Steps(t.kind) /\ Takes(t, t.pc)
  BY <1>1, AtAStep
<1>3. task'[c] = Advance(t) /\ Keeps(t, Advance(t)) /\ Advance(t).faults = t.faults
  BY <1>2, AdvanceIs DEF RecordsInv, TypeOK, Becomes
<1>4. t.kind = "run" /\ t.faults = 0
  BY <1>3 DEF Keeps
<1>5. Unharmed(c)
  BY <1>2, <1>4 DEF RecordsInv, RunsUnharmed
<1>6. \A s \in Steps("run") : Place(s) = Place(t.pc) + 1 /\ Takes(t, s) =>
          task'[c].pc = s /\ task'[c].reply # "ordered"
  BY <1>2, <1>4, GetsOn
<1>7. CASE t.pc = "discovering"
  <2>1. task'[c].pc = "discover" /\ task'[c].reply # "ordered"
    BY <1>6, <1>7, TakesIs, StepsAre DEF Place
  <2> QED
    BY <1>3, <1>5, <1>7, <2>1 DEF Unharmed, Keeps
<1>8. CASE t.pc = "scoring"
  <2>1. task'[c].pc = "score" /\ task'[c].reply # "ordered"
    BY <1>6, <1>8, TakesIs, StepsAre DEF Place
  <2> QED
    BY <1>3, <1>5, <1>8, <2>1 DEF Unharmed, Keeps
<1>9. CASE t.pc = "negotiating"
  <2>1. task'[c].pc = "confirm" /\ task'[c].reply # "ordered"
    BY <1>6, <1>9, TakesIs, StepsAre DEF Place
  <2> QED
    BY <1>3, <1>5, <1>9, <2>1 DEF Unharmed, Keeps
<1>10. CASE t.pc = "confirmed"
  <2>1. Takes(t, "order")
    BY <1>5, <1>10, TakesIs DEF Unharmed
  <2>2. task'[c].pc = "order" /\ task'[c].reply # "ordered"
    BY <1>6, <1>10, <2>1, StepsAre DEF Place
  <2> QED
    BY <1>3, <1>5, <1>10, <2>2 DEF Unharmed, Keeps
<1> QED
  BY <1>7, <1>8, <1>9, <1>10

LEMMA PatchWrittenKeeps ==
  ASSUME RecordsInv, NEW c \in Clients, PatchWritten(c)
  PROVE  RecordsInv' /\ task'[c] = Advance(task[c])
<1> DEFINE t == task[c]
           r == t.request
<1>1. /\ t.pc \in Patches /\ Becomes(c, Advance(t)) /\ late' = late
      /\ db' = UpdateStatus(db, r, t.pc)
  BY DEF PatchWritten
<1>2. /\ t \in Task /\ ~Ended(t) /\ Moves(t, Advance(t)) /\ Advance(t).faults = t.faults
      /\ r # None /\ r \in DOMAIN db.requests /\ t.reply # "ordered"
  BY <1>1, PatchesItsRow
<1>3. Advance(t) \in Task /\ Keeps(t, Advance(t))
  BY <1>2 DEF Moves
<1>4. db \in Db /\ late' \subseteq [request : Nat, status : Patches]
  BY <1>1 DEF RecordsInv, TypeOK
<1>5. /\ db' \in Db /\ DOMAIN db'.requests = DOMAIN db.requests
      /\ \A q \in DOMAIN db.requests : db'.requests[q].by = db.requests[q].by
      /\ db'.parsed = db.parsed /\ db'.queries = db.queries
      /\ db'.scores = db.scores /\ db'.orders = db.orders
  BY <1>1, <1>2, <1>4, UpdateStatusIs
<1>6. Extends(c) /\ db'.orders = db.orders
  BY <1>1, <1>5 DEF Extends
<1>7. RunsUnharmed(c)'
  <2>1. task'[c] = Advance(t)
    BY <1>1 DEF RecordsInv, TypeOK, Becomes
  <2>2. CASE t.pc = "cancelled"
    <3>1. task'[c].pc = "done" /\ task'[c].reply # "ordered"
      BY <1>2, <2>1, <2>2, CancelledMoves
    <3> QED
      BY <3>1, StepsAre DEF RunsUnharmed
  <2>3. CASE t.pc = "parsing"
    <3>1. t.kind \in Kinds /\ "parsing" \in Steps(t.kind)
      BY <1>2, <2>3, AtAStep DEF AllSteps, Patches
    <3>2. t.kind # "run"
      BY <3>1, StepsAre
    <3> QED
      BY <1>3, <2>1, <3>2 DEF RunsUnharmed, Keeps
  <2>4. CASE t.pc \in {"discovering", "scoring", "negotiating", "confirmed"}
    BY <1>1, <1>5, <2>4, UnharmedOn
  <2> QED
    BY <1>1, <2>2, <2>3, <2>4 DEF Patches
<1> QED
  BY <1>1, <1>2, <1>3, <1>4, <1>5, <1>6, <1>7, PlainStep

LEMMA LateWriteKeeps ==
  ASSUME RecordsInv, NEW w \in late, LateWrite(w)
  PROVE  RecordsInv'
<1>1. /\ db' = UpdateStatus(db, w.request, w.status) /\ late' = late \ {w} /\ task' = task
  BY DEF LateWrite
<1>2. db \in Db /\ w.status \in Patches /\ w.request \in DOMAIN db.requests
  BY DEF RecordsInv, TypeOK, Chained
<1>3. /\ db' \in Db /\ DOMAIN db'.requests = DOMAIN db.requests
      /\ \A q \in DOMAIN db.requests : db'.requests[q].by = db.requests[q].by
      /\ db'.parsed = db.parsed /\ db'.queries = db.queries
      /\ db'.scores = db.scores /\ db'.orders = db.orders
  BY <1>1, <1>2, UpdateStatusIs
<1>4. TypeOK'
  BY <1>1, <1>3 DEF RecordsInv, TypeOK
<1>5. Chained'
  BY <1>1, <1>3 DEF RecordsInv, Chained
<1>6. OrdersAreOfRuns'
  <2>1. OrdersAreOfRuns /\ \A k \in DOMAIN db.orders : RequestOf(db', db.orders[k]) = RequestOf(db, db.orders[k])
    BY <1>3 DEF RecordsInv, RequestOf
  <2> QED
    BY <1>1, <1>3, <2>1 DEF OrdersAreOfRuns
<1>7. ASSUME NEW c \in Clients
      PROVE  AtItsStep(c)' /\ OwnsItsRows(c)' /\ RunsUnharmed(c)' /\ OnlyRunsOrder(c)'
  <2>1. AtItsStep(c)' /\ OnlyRunsOrder(c)'
    BY <1>1 DEF RecordsInv, AtItsStep, OnlyRunsOrder
  <2>2. OwnsItsRows(c)'
    BY <1>1, <1>3 DEF RecordsInv, OwnsItsRows
  <2>3. RunsUnharmed(c)'
    <3>1. Unharmed(c) => Unharmed(c)'
      BY <1>1, <1>3 DEF Unharmed
    <3> QED
      BY <1>1, <1>3, <3>1 DEF RecordsInv, RunsUnharmed
  <2> QED
    BY <2>1, <2>2, <2>3
<1> QED
  BY <1>4, <1>5, <1>6, <1>7 DEF RecordsInv

-----------------------------------------------------------------------------
(* Calls of other services. *)

LEMMA CallStep ==
  ASSUME RecordsInv, NEW c \in Clients, ~Ended(task[c]),
         NEW u, Moves(task[c], u), u.faults = task[c].faults, Becomes(c, u),
         db' = db, late' = late,
         u.kind = "run" => u.reply # "ordered" /\ u.pc \in {"cancelled", "done", "dead"}
  PROVE  RecordsInv' /\ task'[c] = u
<1>1. u \in Task /\ db' \in Db /\ late' \subseteq [request : Nat, status : Patches]
  BY DEF Moves, RecordsInv, TypeOK
<1>2. Extends(c) /\ db'.orders = db.orders
  BY DEF Extends
<1>3. task'[c] = u
  BY DEF RecordsInv, TypeOK, Becomes
<1>4. RunsUnharmed(c)'
  BY <1>3, StepsAre DEF RunsUnharmed
<1> QED
  BY <1>1, <1>2, <1>4, PlainStep

LEMMA NotOfARun ==
  ASSUME RecordsInv, NEW c \in Clients, task[c].pc \in {"parse", "memory", "select"}
  PROVE  task[c].kind \in {"direct", "pipeline"}
<1>1. task[c].kind \in Kinds /\ task[c].pc \in Steps(task[c].kind)
  BY AtAStep DEF AllSteps, Calls, Patches
<1> QED
  BY <1>1, StepsAre, KindsAre

LEMMA ParseKeeps ==
  ASSUME RecordsInv, NEW c \in Clients, Parse(c)
  PROVE  RecordsInv'
<1> DEFINE t == task[c]
<1>1. t.pc = "parse" /\ db' = db /\ late' = late
  BY DEF Parse, At
<1>2. t \in Task /\ ~Ended(t) /\ t.pc \in Steps(t.kind) /\ t.kind # "run"
  BY <1>1, AtAStep, NotOfARun DEF AllSteps, Calls, Patches
<1>3. PICK u \in {Advance(t), Cancel(t, "nothing")} : Becomes(c, u)
  BY DEF Parse
<1>4. Moves(t, u) /\ u.faults = t.faults
  BY <1>1, <1>2, <1>3, AdvanceMoves, CancelMoves DEF Replies
<1>5. u.kind # "run"
  BY <1>2, <1>4 DEF Moves, Keeps
<1> QED
  BY <1>1, <1>2, <1>3, <1>4, <1>5, CallStep

LEMMA SelectKeeps ==
  ASSUME RecordsInv, NEW c \in Clients, Select(c)
  PROVE  RecordsInv'
<1> DEFINE t == task[c]
<1>1. t.pc = "select" /\ db' = db /\ late' = late /\ Becomes(c, Advance(t))
  BY DEF Select, At
<1>2. t \in Task /\ ~Ended(t) /\ t.pc \in Steps(t.kind) /\ t.kind # "run"
  BY <1>1, AtAStep, NotOfARun DEF AllSteps, Calls, Patches
<1>3. Moves(t, Advance(t)) /\ Advance(t).faults = t.faults
  BY <1>2, AdvanceMoves
<1>4. Advance(t).kind # "run"
  BY <1>2, <1>3 DEF Moves, Keeps
<1> QED
  BY <1>1, <1>2, <1>3, <1>4, CallStep

(* A handler that cancels its row, or just ends, does not do so as one     *)
(* that ordered.                                                           *)
LEMMA CallFailsKeeps ==
  ASSUME RecordsInv, NEW c \in Clients, CallFails(c)
  PROVE  RecordsInv' /\ task'[c] = Fail(task[c])
<1> DEFINE t == task[c]
<1>1. /\ t.pc \in {"parse", "discover", "score", "select"} /\ db' = db /\ late' = late
      /\ Becomes(c, Fail(t))
  BY DEF CallFails
<1>2. t \in Task /\ ~Ended(t)
  BY <1>1, AtAStep DEF AllSteps, Calls, Patches
<1>3. Fail(t) = Cancel(t, "error") \/ Fail(t) = End(t, "error")
  BY DEF Fail
<1>4. Moves(t, Fail(t)) /\ Fail(t).faults = t.faults
      /\ Fail(t).reply # "ordered" /\ Fail(t).pc \in {"cancelled", "done", "dead"}
  <2>1. t.pc # "order" /\ "error" \in Replies \ {"ordered"}
    BY <1>1 DEF Replies
  <2>2. CASE Fail(t) = Cancel(t, "error")
    BY <1>2, <2>1, <2>2, CancelMoves
  <2>3. CASE Fail(t) = End(t, "error")
    BY <1>2, <2>1, <2>3, EndMoves, EndIs
  <2> QED
    BY <1>3, <2>2, <2>3
<1> QED
  BY <1>1, <1>2, <1>4, CallStep

LEMMA DiesKeeps ==
  ASSUME RecordsInv, NEW c \in Clients, Dies(c)
  PROVE  /\ RecordsInv' /\ task'[c].faults = task[c].faults + 1
         /\ Keeps(task[c], task'[c]) /\ db' = db
<1> DEFINE t == task[c]
           u == [t EXCEPT !.pc = "dead"]
<1>1. ~Ended(t) /\ BecomesByFault(c, u) /\ db' = db /\ late' = late
  BY DEF Dies
<1>2. t \in Task /\ db' \in Db /\ late' \subseteq [request : Nat, status : Patches]
  BY <1>1 DEF RecordsInv, TypeOK
<1>3. /\ u \in Task /\ Keeps(t, u) /\ u.pc = "dead" /\ u.reply = t.reply /\ u.faults = t.faults
  BY <1>2 DEF Task, Keeps
<1> HIDE DEF u
<1>4. Moves(t, u)
  BY <1>3 DEF Moves
<1>5. Extends(c) /\ db'.orders = db.orders
  BY <1>1 DEF Extends
<1>6. /\ RecordsInv' /\ task'[c].faults = task[c].faults + 1 /\ Keeps(u, task'[c])
  BY <1>1, <1>2, <1>3, <1>4, <1>5, FaultStep
<1> QED
  BY <1>1, <1>3, <1>6 DEF Keeps

(* What Discover, Score, Remember and Confirm learn leaves the identifiers *)
(* alone.                                                                  *)
LEMMA LearnsStep ==
  ASSUME RecordsInv, NEW c \in Clients, NEW v \in Task, task[c].pc \in Calls,
         v.kind = task[c].kind, v.pc = task[c].pc, v.reply = task[c].reply,
         v.faults = task[c].faults, v.request = task[c].request, v.intent = task[c].intent,
         v.query = task[c].query, v.scored = task[c].scored,
         v.found = task[c].found \/ v.found = Items,
         Becomes(c, Advance(v)), db' = db, late' = late, RunsUnharmed(c)'
  PROVE  RecordsInv'
<1>1. v.pc \in Steps(v.kind) /\ v.pc # "order"
  BY AtAStep DEF AllSteps, Calls, Patches
<1>2. Extends(c) /\ db' \in Db
  BY DEF Extends, RecordsInv, TypeOK
<1>3. OwnsThen(v, c)
  BY DEF RecordsInv, OwnsItsRows, OwnsThen
<1> QED
  BY <1>1, <1>2, <1>3, GetsStep

(* What is found, if anything is, are all the items. *)
LEMMA HitsAre ==
  ASSUME NEW hits \in {{}} \cup {Matches(q) : q \in Queries}, hits # {}
  PROVE  hits = Items
BY QueriesAssumption

LEMMA DiscoverKeeps ==
  ASSUME RecordsInv, NEW c \in Clients, Discover(c)
  PROVE  RecordsInv'
<1> DEFINE t == task[c]
<1>1. t.pc = "discover" /\ db' = db /\ late' = late
  BY DEF Discover, At
<1>2. t \in Task /\ ~Ended(t) /\ t.pc \in Steps(t.kind)
  BY <1>1, AtAStep DEF AllSteps, Calls, Patches
<1>3. PICK hits \in {{}} \cup {Matches(q) : q \in Queries} :
        Becomes(c, IF hits = {} THEN FoundNothing(t) ELSE Advance([t EXCEPT !.found = hits]))
  BY DEF Discover
<1>4. CASE hits = {}
  <2>1. Becomes(c, FoundNothing(t))
    BY <1>3, <1>4
  <2>2. t.pc # "order" /\ "nothing" \in Replies \ {"ordered"}
    BY <1>1 DEF Replies
  <2>3. FoundNothing(t) = Cancel(t, "nothing") \/ FoundNothing(t) = End(t, "nothing")
    BY DEF FoundNothing
  <2>4. /\ Moves(t, FoundNothing(t)) /\ FoundNothing(t).faults = t.faults
        /\ FoundNothing(t).reply # "ordered" /\ FoundNothing(t).pc \in {"cancelled", "done", "dead"}
    <3>1. CASE FoundNothing(t) = Cancel(t, "nothing")
      BY <1>2, <2>2, <3>1, CancelMoves
    <3>2. CASE FoundNothing(t) = End(t, "nothing")
      BY <1>2, <2>2, <3>2, EndMoves, EndIs
    <3> QED
      BY <2>3, <3>1, <3>2
  <2> QED
    BY <1>1, <1>2, <2>1, <2>4, CallStep
<1>5. CASE hits # {}
  <2> DEFINE v == [t EXCEPT !.found = hits]
  <2>1. hits = Items
    BY <1>5, HitsAre
  <2>2. /\ v \in Task /\ v.kind = t.kind /\ v.pc = t.pc /\ v.reply = t.reply /\ v.faults = t.faults
        /\ v.request = t.request /\ v.intent = t.intent /\ v.query = t.query /\ v.found = hits
        /\ v.scored = t.scored /\ v.choice = t.choice
    BY <1>2, <2>1 DEF Task
  <2>3. Becomes(c, Advance(v))
    BY <1>3, <1>5
  <2> HIDE DEF v
  <2>4. RunsUnharmed(c)'
    <3> SUFFICES ASSUME task'[c].kind = "run", task'[c].faults = 0
                 PROVE  Unharmed(c)' /\ task'[c].reply # "ordered"
      BY DEF RunsUnharmed
    <3>1. task'[c] = Advance(v) /\ Keeps(v, Advance(v)) /\ Advance(v).faults = v.faults
      BY <1>2, <2>2, <2>3, AdvanceIs DEF RecordsInv, TypeOK, Becomes
    <3>2. v.kind = "run" /\ t.kind = "run" /\ t.faults = 0
      BY <2>2, <3>1 DEF Keeps
    <3>3. Unharmed(c)
      BY <1>2, <3>2 DEF RecordsInv, RunsUnharmed
    <3>4. v.intent # None
      BY <1>1, <2>2, <3>3 DEF Unharmed
    <3>5. Takes(v, "discovery") /\ "discovery" \in Steps("run")
          /\ Place("discovery") = Place(v.pc) + 1
      BY <1>1, <2>2, <3>4, TakesIs, StepsAre DEF Place
    <3>6. /\ task'[c].pc = "discovery" /\ task'[c].reply # "ordered" /\ Keeps(v, task'[c])
      BY <1>2, <2>2, <2>3, <3>2, <3>5, GetsOn
    <3> QED
      BY <1>1, <1>5, <2>2, <3>3, <3>6 DEF Unharmed, Keeps
  <2> QED
    BY <1>1, <2>1, <2>2, <2>3, <2>4, LearnsStep DEF Calls
<1> QED
  BY <1>4, <1>5

LEMMA ScoreKeeps ==
  ASSUME RecordsInv, NEW c \in Clients, Score(c)
  PROVE  RecordsInv'
<1> DEFINE t == task[c]
<1>1. t.pc = "score" /\ db' = db /\ late' = late
  BY DEF Score, At
<1>2. t \in Task /\ ~Ended(t) /\ t.pc \in Steps(t.kind)
  BY <1>1, AtAStep DEF AllSteps, Calls, Patches
<1>3. PICK r \in Recommendations(t.found) :
        Becomes(c, Advance([t EXCEPT !.recommended = r, !.choice = r]))
  BY DEF Score
<1>4. r \subseteq t.found /\ r \in SUBSET Items /\ r \in SUBSET Picks
  BY <1>2, TaskFields DEF Recommendations, Picks
<1> DEFINE v == [t EXCEPT !.recommended = r, !.choice = r]
<1>5. /\ v \in Task /\ v.kind = t.kind /\ v.pc = t.pc /\ v.reply = t.reply /\ v.faults = t.faults
      /\ v.request = t.request /\ v.intent = t.intent /\ v.query = t.query /\ v.found = t.found
      /\ v.scored = t.scored /\ v.recommended = r
  BY <1>2, <1>4 DEF Task
<1>6. Becomes(c, Advance(v))
  BY <1>3
<1> HIDE DEF v
<1>7. RunsUnharmed(c)'
  <2> SUFFICES ASSUME task'[c].kind = "run", task'[c].faults = 0
               PROVE  Unharmed(c)' /\ task'[c].reply # "ordered"
    BY DEF RunsUnharmed
  <2>1. task'[c] = Advance(v) /\ Keeps(v, Advance(v)) /\ Advance(v).faults = v.faults
    BY <1>2, <1>5, <1>6, AdvanceIs DEF RecordsInv, TypeOK, Becomes
  <2>2. v.kind = "run" /\ t.kind = "run" /\ t.faults = 0
    BY <1>5, <2>1 DEF Keeps
  <2>3. Unharmed(c)
    BY <1>2, <2>2 DEF RecordsInv, RunsUnharmed
  <2>4. v.query # None
    BY <1>1, <1>5, <2>3 DEF Unharmed
  <2>5. Takes(v, "scores") /\ "scores" \in Steps("run") /\ Place("scores") = Place(v.pc) + 1
    BY <1>1, <1>5, <2>4, TakesIs, StepsAre DEF Place
  <2>6. task'[c].pc = "scores" /\ task'[c].reply # "ordered" /\ Keeps(v, task'[c])
    BY <1>2, <1>5, <1>6, <2>2, <2>5, GetsOn
  <2> QED
    BY <1>1, <1>4, <1>5, <2>3, <2>6 DEF Unharmed, Keeps
<1> QED
  BY <1>1, <1>5, <1>6, <1>7, LearnsStep DEF Calls

LEMMA RememberKeeps ==
  ASSUME RecordsInv, NEW c \in Clients, Remember(c)
  PROVE  RecordsInv'
<1> DEFINE t == task[c]
<1>1. t.pc = "memory" /\ db' = db /\ late' = late
  BY DEF Remember, At
<1>2. t \in Task /\ t.pc \in Steps(t.kind) /\ t.kind # "run"
  BY <1>1, AtAStep, NotOfARun DEF AllSteps, Calls, Patches
<1>3. PICK hits \in Histories, r \in t.recommended :
        Becomes(c, Advance([t EXCEPT !.choice = {Enriched(Ranking, PriceScore, Maker, r, hits)}]))
  BY DEF Remember
<1> DEFINE pick == Enriched(Ranking, PriceScore, Maker, r, hits)
<1>4. {pick} \in SUBSET Picks
  <2>1. t.recommended \in SUBSET Items
    BY <1>2, TaskFields
  <2> QED
    BY <1>3, <2>1 DEF Picks
<1> HIDE DEF pick
<1> DEFINE v == [t EXCEPT !.choice = {pick}]
<1>5. /\ v \in Task /\ v.kind = t.kind /\ v.pc = t.pc /\ v.reply = t.reply /\ v.faults = t.faults
      /\ v.request = t.request /\ v.intent = t.intent /\ v.query = t.query /\ v.found = t.found
      /\ v.scored = t.scored
  BY <1>2, <1>4 DEF Task
<1>6. Becomes(c, Advance(v))
  BY <1>3 DEF pick
<1> HIDE DEF v
<1>7. RunsUnharmed(c)'
  <2>1. task'[c] = Advance(v) /\ Keeps(v, Advance(v))
    BY <1>2, <1>5, <1>6, AdvanceIs DEF RecordsInv, TypeOK, Becomes
  <2> QED
    BY <1>2, <1>5, <2>1 DEF RunsUnharmed, Keeps
<1> QED
  BY <1>1, <1>5, <1>6, <1>7, LearnsStep DEF Calls

LEMMA FirstRanked == Ranking[1] \in Items
<1>1. PICK k \in DOMAIN Ranking : TRUE
  BY RankingAssumption
<1>2. 1 \in DOMAIN Ranking
  BY <1>1, RankingAssumption
<1> QED
  BY <1>2, RankingAssumption

LEMMA ConfirmKeeps ==
  ASSUME RecordsInv, NEW c \in Clients, Confirm(c)
  PROVE  RecordsInv'
<1> DEFINE t == task[c]
           chosen == IF t.recommended = {} THEN {Ranking[1]} ELSE t.recommended
           v == [t EXCEPT !.choice = chosen]
<1>1. t.pc = "confirm" /\ db' = db /\ late' = late
  BY DEF Confirm, At
<1>2. t \in Task /\ ~Ended(t) /\ t.pc \in Steps(t.kind)
  BY <1>1, AtAStep DEF AllSteps, Calls, Patches
<1>3. Becomes(c, End(t, "results")) \/ Becomes(c, Advance(v))
  BY DEF Confirm
<1>4. CASE Becomes(c, End(t, "results"))
  <2>1. "results" \in Replies \ {"ordered"}
    BY DEF Replies
  <2>2. /\ Moves(t, End(t, "results")) /\ End(t, "results").faults = t.faults
        /\ End(t, "results").reply # "ordered" /\ End(t, "results").pc = "done"
    BY <1>2, <2>1, EndMoves, EndIs
  <2> QED
    BY <1>1, <1>2, <1>4, <2>2, CallStep
<1>5. CASE Becomes(c, Advance(v))
  <2>1. t.recommended \in SUBSET Items /\ t.found \in SUBSET Items
    BY <1>2, TaskFields
  <2>2. Ranking[1] \in Items
    BY FirstRanked
  <2>3. chosen # {} /\ chosen \subseteq Items /\ chosen \in SUBSET Picks
    BY <2>1, <2>2 DEF Picks
  <2>4. chosen \subseteq t.recommended \cup Items
    BY <2>3
  <2>5. t.recommended # {} => chosen = t.recommended
    OBVIOUS
  <2> HIDE DEF chosen
  <2>6. /\ v \in Task /\ v.kind = t.kind /\ v.pc = t.pc /\ v.reply = t.reply /\ v.faults = t.faults
        /\ v.request = t.request /\ v.intent = t.intent /\ v.query = t.query /\ v.found = t.found
        /\ v.scored = t.scored /\ v.recommended = t.recommended /\ v.choice = chosen
    BY <1>2, <2>3 DEF Task
  <2> HIDE DEF v
  <2>7. RunsUnharmed(c)'
    <3> SUFFICES ASSUME task'[c].kind = "run", task'[c].faults = 0
                 PROVE  Unharmed(c)' /\ task'[c].reply # "ordered"
      BY DEF RunsUnharmed
    <3>1. task'[c] = Advance(v) /\ Keeps(v, Advance(v)) /\ Advance(v).faults = v.faults
      BY <1>2, <1>5, <2>6, AdvanceIs DEF RecordsInv, TypeOK, Becomes
    <3>2. v.kind = "run" /\ t.kind = "run" /\ t.faults = 0
      BY <2>6, <3>1 DEF Keeps
    <3>3. Unharmed(c) /\ OwnsItsRows(c)
      BY <1>2, <3>2 DEF RecordsInv, RunsUnharmed
    <3>4. v.request # None
      BY <1>1, <2>6, <3>3 DEF Unharmed
    <3>5. Takes(v, "confirmed") /\ "confirmed" \in Steps("run")
          /\ Place("confirmed") = Place(v.pc) + 1
      BY <1>1, <2>6, <3>4, TakesIs, StepsAre DEF Place
    <3>6. task'[c].pc = "confirmed" /\ task'[c].reply # "ordered" /\ Keeps(v, task'[c])
      BY <1>2, <1>5, <2>6, <3>2, <3>5, GetsOn
    <3>7. t.found = Items
      BY <1>1, <3>3 DEF Unharmed, OwnsItsRows
    <3> QED
      BY <1>1, <2>3, <2>6, <3>3, <3>6, <3>7 DEF Unharmed, Keeps
  <2> QED
    BY <1>1, <1>5, <2>6, <2>7, LearnsStep DEF Calls
<1> QED
  BY <1>3, <1>4, <1>5

-----------------------------------------------------------------------------
(* The invariant of the records. *)

LEMMA RecordsStart == Init => RecordsInv
<1> SUFFICES ASSUME Init PROVE RecordsInv
  OBVIOUS
<1>1. db = EmptyDb /\ late = {}
  BY DEF Init
<1>2. PICK k \in [Clients -> Kinds] : task = [c \in Clients |-> NewTask(k[c])]
  BY DEF Init
<1>3. ASSUME NEW c \in Clients
      PROVE  /\ task[c] \in Task /\ task[c].pc = "create" /\ task[c].request = None
             /\ task[c].intent = None /\ task[c].query = None /\ task[c].scored = {}
             /\ task[c].found = {} /\ task[c].reply = "none" /\ task[c].faults = 0
             /\ task[c].kind \in Kinds
  BY <1>2 DEF NewTask, Task, Posts, Replies, None
<1>4. db \in Db
  BY <1>1 DEF EmptyDb, Db
<1>5. TypeOK
  BY <1>1, <1>2, <1>3, <1>4, RankingAssumption DEF TypeOK
<1>6. /\ db.parsed = {} /\ db.scores = {} /\ db.orders = <<>> /\ DOMAIN db.orders = {}
  BY <1>1 DEF EmptyDb
<1>7. Chained /\ OrdersAreOfRuns
  BY <1>1, <1>6 DEF Chained, OrdersAreOfRuns
<1>8. ASSUME NEW c \in Clients
      PROVE  AtItsStep(c) /\ OwnsItsRows(c) /\ RunsUnharmed(c) /\ OnlyRunsOrder(c)
  <2>1. task[c].pc \in Steps(task[c].kind) /\ Takes(task[c], task[c].pc)
    BY <1>3, StepsAre, KindsAre, TakesIs
  <2>2. OwnsItsRows(c)
    BY <1>3 DEF OwnsItsRows
  <2>3. Unharmed(c)
    BY <1>3 DEF Unharmed
  <2> QED
    BY <1>3, <2>1, <2>2, <2>3 DEF AtItsStep, RunsUnharmed, OnlyRunsOrder
<1> QED
  BY <1>5, <1>7, <1>8 DEF RecordsInv

LEMMA RecordsKeep == RecordsInv /\ [Next]_vars => RecordsInv'
<1> SUFFICES ASSUME RecordsInv, [Next]_vars PROVE RecordsInv'
  OBVIOUS
<1>1. ASSUME NEW c \in Clients, Runs(c) PROVE RecordsInv'
  BY <1>1, PostSucceedsKeeps, PostRefusedKeeps, PostUnansweredKeeps, PostFailsKeeps,
     PatchWrittenKeeps, PatchLostKeeps, PatchDelayedKeeps, ParseKeeps, DiscoverKeeps,
     ScoreKeeps, RememberKeeps, SelectKeeps, ConfirmKeeps, CallFailsKeeps DEF Runs
<1>2. ASSUME NEW c \in Clients, Dies(c) PROVE RecordsInv'
  BY <1>2, DiesKeeps
<1>3. ASSUME NEW w \in late, LateWrite(w) PROVE RecordsInv'
  BY <1>3, LateWriteKeeps
<1>4. ASSUME UNCHANGED vars PROVE RecordsInv'
  BY <1>4 DEF vars, RecordsInv, TypeOK, Chained, OrdersAreOfRuns, AtItsStep, OwnsItsRows,
              RunsUnharmed, Unharmed, OnlyRunsOrder
<1> QED
  BY <1>1, <1>2, <1>3, <1>4 DEF Next

(* The records hang together, whatever is lost, delayed or cut off: every  *)
(* identifier a handler holds is that of a row of its own, every order is  *)
(* of the run whose reference it bears, and a run that met no fault lacks  *)
(* nothing of what its steps should have given it.                         *)
THEOREM RecordsInvariant == Spec => []RecordsInv
<1>1. Init => RecordsInv
  BY RecordsStart
<1>2. RecordsInv /\ [Next]_vars => RecordsInv'
  BY RecordsKeep
<1> QED
  BY <1>1, <1>2, PTL DEF Spec

(* The record of an order hangs under the request of the run that placed   *)
(* it and names the item it ordered, a confirm is recorded once, and it is *)
(* recorded, if no fault met the run (confirm_order's call of              *)
(* _persist_order and the keys it goes by).                                *)
THEOREM RecordsFollowRunsAlways == Spec => []RecordsFollowRuns
<1>1. RecordsInv => RecordsFollowRuns
  BY DEF RecordsInv, OrdersAreOfRuns, RunsUnharmed, OnlyRunsOrder, RecordsFollowRuns
<1> QED
  BY <1>1, RecordsInvariant, PTL

-----------------------------------------------------------------------------
(* Faults cover the rows left early. *)

(* The steps on the way to the next change of the row, or to none. *)
Settling == {"create", "intent", "discovering", "discover", "discovery", "scoring", "cancelled"}

Cover(c) == Cardinality(Strays(c)) + (IF MayStrand(c) THEN 1 ELSE 0) <= task[c].faults

LEMMA EarlyIsFinite ==
  ASSUME TypeOK, NEW c \in Clients
  PROVE  /\ IsFiniteSet(Early(c)) /\ IsFiniteSet(Strays(c)) /\ Cardinality(Strays(c)) \in Nat
         /\ Cardinality(Early(c)) \in Nat /\ None \notin DOMAIN db.requests
<1>1. db.requests \in Seq([by : Clients, status : Patches \cup {"draft"}])
  BY DbFields DEF TypeOK
<1>2. DOMAIN db.requests = 1 .. Len(db.requests) /\ Len(db.requests) \in Nat
  BY <1>1
<1>3. IsFiniteSet(1 .. Len(db.requests))
  BY <1>2, FS_Interval
<1>4. Early(c) \subseteq 1 .. Len(db.requests) /\ Strays(c) \subseteq 1 .. Len(db.requests)
  BY <1>2 DEF Early, Strays
<1>5. IsFiniteSet(Early(c)) /\ IsFiniteSet(Strays(c))
  BY <1>3, <1>4, FS_Subset
<1> QED
  BY <1>2, <1>5, FS_CardinalityType DEF None

(* The three ways in which a step keeps a handler covered. *)
LEMMA CoverSteady ==
  ASSUME TypeOK, TypeOK', NEW c \in Clients, Cover(c), Strays(c)' = Strays(c),
         MayStrand(c)' => MayStrand(c), task'[c].faults = task[c].faults
  PROVE  Cover(c)'
<1>1. Cardinality(Strays(c)) \in Nat /\ task[c].faults \in Nat
  BY EarlyIsFinite, TaskFields DEF TypeOK
<1> DEFINE n == Cardinality(Strays(c))
<1>2. n \in Nat /\ n + (IF MayStrand(c) THEN 1 ELSE 0) <= task[c].faults
  BY <1>1 DEF Cover
<1> HIDE DEF n
<1>3. n + (IF MayStrand(c)' THEN 1 ELSE 0) <= task'[c].faults
  BY <1>1, <1>2
<1> QED
  BY <1>3 DEF Cover, n

LEMMA CoverByFault ==
  ASSUME TypeOK, TypeOK', NEW c \in Clients, Cover(c), Strays(c)' = Strays(c),
         task'[c].faults = task[c].faults + 1
  PROVE  Cover(c)'
<1>1. Cardinality(Strays(c)) \in Nat /\ task[c].faults \in Nat
  BY EarlyIsFinite, TaskFields DEF TypeOK
<1> DEFINE n == Cardinality(Strays(c))
<1>2. n \in Nat /\ n + (IF MayStrand(c) THEN 1 ELSE 0) <= task[c].faults
  BY <1>1 DEF Cover
<1> HIDE DEF n
<1>3. n + (IF MayStrand(c)' THEN 1 ELSE 0) <= task'[c].faults
  BY <1>1, <1>2
<1> QED
  BY <1>3 DEF Cover, n

LEMMA CoverStray ==
  ASSUME TypeOK, TypeOK', NEW c \in Clients, Cover(c), NEW r, Strays(c)' = Strays(c) \cup {r},
         ~MayStrand(c)', task'[c].faults = task[c].faults + 1
  PROVE  Cover(c)'
<1>1. IsFiniteSet(Strays(c)) /\ Cardinality(Strays(c)) \in Nat /\ task[c].faults \in Nat
  BY EarlyIsFinite, TaskFields DEF TypeOK
<1>2. Cardinality(Strays(c) \cup {r}) <= Cardinality(Strays(c)) + 1
      /\ Cardinality(Strays(c) \cup {r}) \in Nat
  <2> DEFINE S == Strays(c)
  <2>1. IsFiniteSet(S) /\ Cardinality(S) \in Nat
    BY <1>1
  <2> HIDE DEF S
  <2>2. IsFiniteSet(S \cup {r})
        /\ Cardinality(S \cup {r}) = IF r \in S THEN Cardinality(S) ELSE Cardinality(S) + 1
    BY <2>1, FS_AddElement
  <2>3. Cardinality(S \cup {r}) \in Nat
    BY <2>2, FS_CardinalityType
  <2>4. Cardinality(S \cup {r}) <= Cardinality(S) + 1
    BY <2>1, <2>2
  <2> QED
    BY <2>3, <2>4 DEF S
<1> DEFINE n == Cardinality(Strays(c))
           m == Cardinality(Strays(c) \cup {r})
<1>3. n \in Nat /\ m \in Nat /\ m <= n + 1 /\ n <= task[c].faults
  BY <1>1, <1>2 DEF Cover
<1>4. Cardinality(Strays(c)') = m
  OBVIOUS
<1> HIDE DEF n, m
<1>5. m + (IF MayStrand(c)' THEN 1 ELSE 0) <= task'[c].faults
  BY <1>1, <1>3
<1> QED
  BY <1>4, <1>5 DEF Cover

(* A handler touches its own rows alone, and so leaves the others covered. *)
OwnRowsOnly(c) ==
  /\ \A r \in DOMAIN db.requests : r \in DOMAIN db'.requests /\ db'.requests[r].by = db.requests[r].by
  /\ \A r \in DOMAIN db'.requests : db'.requests[r].by # c =>
         r \in DOMAIN db.requests /\ db'.requests[r] = db.requests[r]
  /\ \A w \in late' : w \in late \/ (w.request = task[c].request /\ w.request # None)

LEMMA OthersCovered ==
  ASSUME RecordsInv, RecordsInv', NEW c \in Clients, OwnRowsOnly(c),
         NEW d \in Clients, d # c, task'[d] = task[d], Cover(d)
  PROVE  Cover(d)'
<1>1. Early(d)' = Early(d)
  BY DEF Early, OwnRowsOnly
<1>2. Strays(d)' = Strays(d)
  BY <1>1 DEF Strays
<1>3. task[d].request # None => task[d].request # task[c].request
  BY DEF RecordsInv, OwnsItsRows
<1>4. BackInTime(d)' => BackInTime(d)
  BY <1>3 DEF BackInTime, OwnRowsOnly
<1>5. MayStrand(d)' => MayStrand(d)
  BY <1>1, <1>4 DEF MayStrand
<1> QED
  BY <1>2, <1>5, CoverSteady DEF RecordsInv

(* What a step of a handler is to keep. *)
Covered(c) ==
  /\ OwnRowsOnly(c) /\ task'[c].kind = task[c].kind
  /\ Compares(task[c]) => Cover(c)'

(* A handler of /compare or /run that may change its row comes to "scoring" *)
(* before anything that would leave the row as it is.                      *)
LEMMA SettlesOn ==
  ASSUME NEW v \in Task, Compares(v), v.pc \in Steps(v.kind), v.pc \in Settling \ {"scoring"},
         v.request # None
  PROVE  Advance(v).pc \in Settling
<1>1. v.kind \in {"compare", "run"}
  BY DEF Compares
<1>2. "scoring" \in Steps(v.kind) /\ Takes(v, "scoring")
  BY <1>1, StepsAre, TakesIs
<1>3. Place(v.pc) < Place("scoring")
  <2>1. v.pc # "cancelled"
    BY <1>1, StepsAre
  <2> QED
    BY <2>1 DEF Settling, Place
<1> DEFINE p == Advance(v).pc
<1>4. p \in Steps(v.kind) /\ Place(p) <= Place("scoring")
  BY <1>2, <1>3, AdvanceUpTo
<1> HIDE DEF p
<1>5. p \in Settling
  BY <1>1, <1>4, StepsAre DEF Settling, Place
<1> QED
  BY <1>5 DEF p

LEMMA SteadyCovered ==
  ASSUME RecordsInv, RecordsInv', NEW c \in Clients, Cover(c),
         db'.requests = db.requests, late' = late,
         task'[c].request = task[c].request, task'[c].faults = task[c].faults,
         task[c].request # None /\ task[c].pc \in Settling => task'[c].pc \in Settling
  PROVE  Cover(c)'
<1>1. Early(c)' = Early(c) /\ Strays(c)' = Strays(c)
  BY DEF Early, Strays
<1>2. BackInTime(c)' => BackInTime(c)
  BY DEF BackInTime
<1>3. task[c].request \in Early(c) => task[c].request # None
  BY EarlyIsFinite DEF RecordsInv, Early
<1>4. MayStrand(c)' => MayStrand(c)
  BY <1>1, <1>2, <1>3 DEF MayStrand, Settling
<1> QED
  BY <1>1, <1>4, CoverSteady DEF RecordsInv

LEMMA FaultCovered ==
  ASSUME RecordsInv, RecordsInv', NEW c \in Clients, Compares(task[c]) => Cover(c),
         db'.requests = db.requests,
         \A w \in late' : w \in late \/ (w.request = task[c].request /\ w.request # None),
         Keeps(task[c], task'[c]), task'[c].faults = task[c].faults + 1
  PROVE  Covered(c)
<1>1. Early(c)' = Early(c)
  BY DEF Early
<1>2. Strays(c)' = Strays(c)
  BY <1>1 DEF Strays, Keeps
<1>3. Compares(task[c]) => Cover(c)'
  BY <1>2, CoverByFault DEF RecordsInv
<1> QED
  BY <1>3 DEF Covered, OwnRowsOnly, Keeps

LEMMA GetsCovered ==
  ASSUME RecordsInv, RecordsInv', NEW c \in Clients, Compares(task[c]) => Cover(c),
         NEW v \in Task, v.kind = task[c].kind, v.pc = task[c].pc, v.request = task[c].request,
         v.faults = task[c].faults, v.pc \in Steps(v.kind), v.pc # "scoring",
         task'[c] = Advance(v), db'.requests = db.requests, late' = late
  PROVE  Covered(c)
<1>1. Keeps(v, task'[c]) /\ task'[c].faults = v.faults
  BY AdvanceIs
<1>2. Compares(task[c]) => Compares(v)
  BY DEF Compares
<1>3. Compares(task[c]) /\ task[c].request # None /\ task[c].pc \in Settling => task'[c].pc \in Settling
  BY <1>2, SettlesOn
<1>4. Compares(task[c]) => Cover(c)'
  BY <1>1, <1>3, SteadyCovered DEF Keeps
<1> QED
  BY <1>1, <1>4 DEF Covered, OwnRowsOnly, Keeps

(* A handler that cancels its row, or ends: /compare and /run cancel it, if *)
(* they have one.                                                          *)
LEMMA CancelCovered ==
  ASSUME RecordsInv, RecordsInv', NEW c \in Clients, Compares(task[c]) => Cover(c),
         db' = db, late' = late, NEW reply \in Replies \ {"ordered"},
         task[c].pc \in Calls,
         \/ task'[c] = Cancel(task[c], reply)
         \/ task'[c] = End(task[c], reply) /\ ~(Compares(task[c]) /\ task[c].pc \in Settling)
  PROVE  Covered(c)
<1> DEFINE t == task[c]
           u == task'[c]
<1>1. t \in Task /\ t.pc # "order"
  BY DEF RecordsInv, TypeOK, Calls
<1>2. /\ Keeps(t, u) /\ u.faults = t.faults
      /\ Compares(t) /\ t.request # None /\ t.pc \in Settling => u.pc \in Settling
  <2>1. CASE u = Cancel(t, reply)
    BY <1>1, <2>1, CancelMoves DEF Moves, Settling
  <2>2. CASE u = End(t, reply) /\ ~(Compares(t) /\ t.pc \in Settling)
    BY <1>1, <2>2, EndIs
  <2> QED
    BY <2>1, <2>2
<1>3. Compares(t) => Cover(c)'
  BY <1>2, SteadyCovered DEF Keeps
<1> QED
  BY <1>2, <1>3 DEF Covered, OwnRowsOnly, Keeps

(* The row that a POST to create inserts. *)
LEMMA RowInserted ==
  ASSUME RecordsInv, NEW c \in Clients, late' = late,
         db'.requests = Append(db.requests, [by |-> c, status |-> "draft"])
  PROVE  LET r == Len(db.requests) + 1 IN
         /\ r \notin DOMAIN db.requests /\ r # None /\ Len(db'.requests) = r
         /\ Early(c)' = Early(c) \cup {r} /\ OwnRowsOnly(c)
<1> DEFINE r == Len(db.requests) + 1
           row == [by |-> c, status |-> "draft"]
           S == [by : Clients, status : Patches \cup {"draft"}]
<1>1. db.requests \in Seq(S) /\ row \in S /\ row.by = c /\ row.status = "draft"
  BY DbFields DEF RecordsInv, TypeOK
<1>2. db'.requests = Append(db.requests, row)
  OBVIOUS
<1> HIDE DEF row, S
<1>3. /\ Len(db'.requests) = r /\ r \notin DOMAIN db.requests /\ r # None
      /\ DOMAIN db'.requests = DOMAIN db.requests \cup {r} /\ db'.requests[r] = row
      /\ \A q \in DOMAIN db.requests : db'.requests[q] = db.requests[q]
  <2>1. /\ Len(db'.requests) = r /\ r \notin DOMAIN db.requests
        /\ DOMAIN db'.requests = DOMAIN db.requests \cup {r} /\ db'.requests[r] = row
        /\ \A q \in DOMAIN db.requests : db'.requests[q] = db.requests[q]
    BY <1>1, <1>2, Appended
  <2>2. r # None
    BY <1>1 DEF None
  <2> QED
    BY <2>1, <2>2
<1> HIDE DEF r
<1>4. Early(c)' = Early(c) \cup {r}
  BY <1>1, <1>3 DEF Early
<1>5. OwnRowsOnly(c)
  BY <1>1, <1>3 DEF OwnRowsOnly
<1> QED
  BY <1>3, <1>4, <1>5 DEF r

LEMMA CreateCovered ==
  ASSUME RecordsInv, RecordsInv', NEW c \in Clients, Compares(task[c]) => Cover(c),
         PostSucceeds(c), task[c].pc = "create"
  PROVE  Covered(c)
<1> DEFINE t == task[c]
           r == Len(db.requests) + 1
           v == [t EXCEPT !.request = r]
<1>1. /\ Allowed(c, t) /\ db' = Carried(c, t) /\ late' = late
      /\ task'[c] = Advance(Answered(t, db'))
  BY DEF PostSucceeds, RecordsInv, TypeOK, Becomes
<1>2. t \in Task /\ t.pc \in Steps(t.kind) /\ t.request = None
  BY AtAStep DEF AllSteps, Posts, Patches, RecordsInv, OwnsItsRows
<1>3. db'.requests = Append(db.requests, [by |-> c, status |-> "draft"])
  BY <1>1, CarriedExtends DEF Inserts, Posts
<1>4. /\ r \notin DOMAIN db.requests /\ r # None /\ Len(db'.requests) = r
      /\ Early(c)' = Early(c) \cup {r} /\ OwnRowsOnly(c)
  BY <1>1, <1>3, RowInserted
<1>5. /\ v \in Task /\ v.kind = t.kind /\ v.pc = t.pc /\ v.faults = t.faults /\ v.request = r
  <2>1. db.requests \in Seq([by : Clients, status : Patches \cup {"draft"}])
    BY DbFields DEF RecordsInv, TypeOK
  <2>2. r \in Nat
    BY <2>1
  <2> QED
    BY <1>2, <2>2 DEF Task
<1>6. task'[c] = Advance(v)
  BY <1>1, <1>4 DEF Answered
<1> HIDE DEF v, r
<1>7. Keeps(v, task'[c]) /\ task'[c].faults = t.faults /\ task'[c].request = r
  BY <1>2, <1>5, <1>6, AdvanceIs DEF Keeps
<1>8. ASSUME Compares(t) PROVE Cover(c)'
  <2>1. None \notin DOMAIN db.requests
    BY EarlyIsFinite DEF RecordsInv
  <2>2. Strays(c)' = Strays(c)
    BY <1>2, <1>4, <1>7, <2>1 DEF Strays, Early
  <2>3. task'[c].pc \in Settling
    BY <1>2, <1>4, <1>5, <1>6, <1>8, SettlesOn DEF Settling, Compares
  <2>4. ~BackInTime(c)'
    BY <1>1, <1>4, <1>7 DEF BackInTime, RecordsInv, Chained
  <2>5. ~MayStrand(c)'
    BY <2>3, <2>4 DEF MayStrand, Settling
  <2> QED
    BY <1>7, <1>8, <2>2, <2>5, CoverSteady DEF RecordsInv
<1> QED
  BY <1>4, <1>5, <1>7, <1>8 DEF Covered, Keeps

LEMMA PostSucceedsCovered ==
  ASSUME RecordsInv, RecordsInv', NEW c \in Clients, Compares(task[c]) => Cover(c), PostSucceeds(c)
  PROVE  Covered(c)
<1> DEFINE t == task[c]
           v == Answered(t, db')
<1>1. /\ t.pc \in Posts /\ Allowed(c, t) /\ db' = Carried(c, t) /\ late' = late
      /\ task'[c] = Advance(v)
  BY DEF PostSucceeds, RecordsInv, TypeOK, Becomes
<1>2. t \in Task /\ t.pc \in Steps(t.kind) /\ t.pc # "scoring"
  BY <1>1, AtAStep DEF AllSteps, Posts, Patches
<1>3. CASE t.pc = "create"
  BY <1>3, CreateCovered
<1>4. CASE t.pc # "create"
  <2>1. db'.requests = db.requests
    BY <1>1, <1>4, CarriedExtends DEF Inserts
  <2>2. db'.queries \in Seq(Nat)
    BY DbFields DEF RecordsInv, TypeOK
  <2>3. /\ v \in Task /\ v.kind = t.kind /\ v.pc = t.pc /\ v.request = t.request
        /\ v.faults = t.faults
    <3>1. CASE t.pc = "intent"
      <4>1. v = [t EXCEPT !.intent = t.request]
        BY <3>1 DEF Answered
      <4> HIDE DEF v
      <4> QED
        BY <1>2, <4>1 DEF Task
    <3>2. CASE t.pc = "discovery"
      <4> DEFINE n == Len(db'.queries)
      <4>1. n \in Nat /\ v = [t EXCEPT !.query = n]
        BY <2>2, <3>2 DEF Answered
      <4> HIDE DEF v, n
      <4> QED
        BY <1>2, <4>1 DEF Task
    <3>3. CASE t.pc = "scores"
      <4>1. v = [t EXCEPT !.scored = t.found]
        BY <3>3 DEF Answered
      <4> HIDE DEF v
      <4> QED
        BY <1>2, <4>1 DEF Task
    <3>4. CASE t.pc = "order"
      BY <1>2, <3>4 DEF Answered
    <3> QED
      BY <1>1, <1>4, <3>1, <3>2, <3>3, <3>4 DEF Posts
  <2> HIDE DEF v
  <2> QED
    BY <1>1, <1>2, <2>1, <2>3, GetsCovered
<1> QED
  BY <1>3, <1>4

LEMMA PostRefusedCovered ==
  ASSUME RecordsInv, RecordsInv', NEW c \in Clients, Compares(task[c]) => Cover(c), PostRefused(c)
  PROVE  Covered(c)
<1> DEFINE t == task[c]
<1>1. t.pc \in Posts /\ task'[c] = Retry(t) /\ db' = db /\ late' = late
  BY PostRefusedKeeps DEF PostRefused
<1>2. t \in Task /\ t.pc \in Steps(t.kind) /\ t.pc # "scoring"
  BY <1>1, AtAStep DEF AllSteps, Posts, Patches
<1>3. CASE t.tries < 3
  <2> DEFINE u == [t EXCEPT !.tries = @ + 1]
  <2>1. Keeps(t, u) /\ u.faults = t.faults /\ u.pc = t.pc
    BY <1>2 DEF Task, Keeps
  <2>2. task'[c] = u
    BY <1>1, <1>3 DEF Retry
  <2> HIDE DEF u
  <2>3. Compares(t) => Cover(c)'
    BY <1>1, <2>1, <2>2, SteadyCovered DEF Keeps
  <2> QED
    BY <1>1, <2>1, <2>2, <2>3 DEF Covered, OwnRowsOnly, Keeps
<1>4. CASE ~(t.tries < 3)
  BY <1>1, <1>2, <1>4, GetsCovered DEF Retry
<1> QED
  BY <1>3, <1>4

LEMMA PostUnansweredCovered ==
  ASSUME RecordsInv, RecordsInv', NEW c \in Clients, Compares(task[c]) => Cover(c), PostUnanswered(c)
  PROVE  Covered(c)
<1> DEFINE t == task[c]
<1>1. Keeps(t, task'[c]) /\ task'[c].faults = t.faults + 1 /\ Inserts(c) /\ late' = late
  BY PostUnansweredKeeps DEF PostUnanswered
<1>2. CASE t.pc = "create"
  <2> DEFINE r == Len(db.requests) + 1
  <2>1. db'.requests = Append(db.requests, [by |-> c, status |-> "draft"])
    BY <1>1, <1>2 DEF Inserts
  <2>2. r # None /\ Early(c)' = Early(c) \cup {r} /\ OwnRowsOnly(c)
    BY <1>1, <2>1, RowInserted
  <2> HIDE DEF r
  <2>3. t.request = None /\ task'[c].request = None
    BY <1>1, <1>2 DEF RecordsInv, OwnsItsRows, Keeps
  <2>4. None \notin DOMAIN db.requests /\ None \notin DOMAIN db'.requests
    <3>1. None \notin DOMAIN db.requests
      BY EarlyIsFinite DEF RecordsInv
    <3>2. None \notin DOMAIN db'.requests
      <4>1. db'.requests \in Seq([by : Clients, status : Patches \cup {"draft"}])
        BY DbFields DEF RecordsInv, TypeOK
      <4> QED
        BY <4>1 DEF None
    <3> QED
      BY <3>1, <3>2
  <2>5. Strays(c)' = Strays(c) \cup {r}
    BY <2>2, <2>3 DEF Strays
  <2>6. ~BackInTime(c)'
    BY <1>1, <2>3, <2>4 DEF BackInTime, RecordsInv, Chained
  <2>7. ~MayStrand(c)'
    BY <2>3, <2>4, <2>6 DEF MayStrand, Early
  <2>8. Compares(t) => Cover(c)'
    BY <1>1, <2>5, <2>7, CoverStray DEF RecordsInv
  <2> QED
    BY <1>1, <2>2, <2>8 DEF Covered, Keeps
<1>3. CASE t.pc # "create"
  <2>1. db'.requests = db.requests
    BY <1>1, <1>3 DEF Inserts
  <2> QED
    BY <1>1, <2>1, FaultCovered
<1> QED
  BY <1>2, <1>3

LEMMA FaultsCovered ==
  ASSUME RecordsInv, RecordsInv', NEW c \in Clients, Compares(task[c]) => Cover(c),
         PostFails(c) \/ PatchLost(c) \/ PatchDelayed(c) \/ Dies(c)
  PROVE  Covered(c)
<1>1. /\ Keeps(task[c], task'[c]) /\ task'[c].faults = task[c].faults + 1
      /\ db'.requests = db.requests
  BY PostFailsKeeps, PatchLostKeeps, PatchDelayedKeeps, DiesKeeps
<1>2. \A w \in late' : w \in late \/ (w.request = task[c].request /\ w.request # None)
  <2>1. CASE PatchDelayed(c)
    BY <2>1, PatchDelayedKeeps
  <2>2. CASE ~PatchDelayed(c)
    BY <2>2 DEF PostFails, PatchLost, Dies
  <2> QED
    BY <2>1, <2>2
<1> QED
  BY <1>1, <1>2, FaultCovered

LEMMA PatchWrittenCovered ==
  ASSUME RecordsInv, RecordsInv', NEW c \in Clients, Compares(task[c]) => Cover(c), PatchWritten(c)
  PROVE  Covered(c)
<1> DEFINE t == task[c]
           r == t.request
<1>1. /\ t.pc \in Patches /\ db' = UpdateStatus(db, r, t.pc) /\ late' = late
      /\ task'[c] = Advance(t)
  BY PatchWrittenKeeps DEF PatchWritten
<1>2. /\ t \in Task /\ r # None /\ r \in DOMAIN db.requests /\ db.requests[r].by = c
      /\ Keeps(t, task'[c]) /\ task'[c].faults = t.faults
  BY <1>1, PatchesItsRow DEF Moves
<1>3. /\ DOMAIN db'.requests = DOMAIN db.requests
      /\ \A q \in DOMAIN db.requests : db'.requests[q].by = db.requests[q].by
      /\ db'.requests[r].status = t.pc
      /\ \A q \in DOMAIN db.requests : q # r => db'.requests[q] = db.requests[q]
  BY <1>1, <1>2, UpdateStatusIs DEF RecordsInv, TypeOK
<1>4. OwnRowsOnly(c)
  BY <1>1, <1>2, <1>3 DEF OwnRowsOnly
<1>5. task'[c].kind = t.kind /\ task'[c].request = r
  BY <1>2 DEF Keeps
<1>6. ASSUME Compares(t) PROVE Cover(c)'
  <2>1. Strays(c)' = Strays(c)
    BY <1>3, <1>5 DEF Strays, Early
  <2>2. BackInTime(c)' => BackInTime(c)
    BY <1>1, <1>5 DEF BackInTime
  <2>3. r \in Early(c)' => t.pc \in {"parsing", "discovering"}
    BY <1>1, <1>3 DEF Early, Patches
  <2>4. CASE t.pc \in {"parsing", "discovering"}
    <3>1. t.pc \in Steps(t.kind) /\ t.kind \in {"compare", "run"}
      BY <1>6, <2>4, AtAStep DEF AllSteps, Patches, Compares
    <3>2. t.pc = "discovering"
      BY <2>4, <3>1, StepsAre
    <3>3. task'[c].pc \in Settling
      BY <1>1, <1>2, <1>6, <3>1, <3>2, SettlesOn DEF Settling
    <3> QED
      BY <1>2, <1>6, <2>1, <2>2, <3>3, CoverSteady DEF MayStrand, Settling, RecordsInv
  <2>5. CASE t.pc \notin {"parsing", "discovering"}
    <3>1. MayStrand(c)' => MayStrand(c)
      BY <1>5, <2>2, <2>3, <2>5 DEF MayStrand
    <3> QED
      BY <1>2, <1>6, <2>1, <3>1, CoverSteady DEF RecordsInv
  <2> QED
    BY <2>4, <2>5
<1> QED
  BY <1>4, <1>5, <1>6 DEF Covered

LEMMA CallsCovered ==
  ASSUME RecordsInv, RecordsInv', NEW c \in Clients, Compares(task[c]) => Cover(c),
         Parse(c) \/ Discover(c) \/ Score(c) \/ Remember(c) \/ Select(c) \/ Confirm(c) \/ CallFails(c)
  PROVE  Covered(c)
<1> DEFINE t == task[c]
<1>1. t.pc \in Calls /\ db' = db /\ late' = late
  BY DEF Parse, Discover, Score, Remember, Select, Confirm, CallFails, At, Calls
<1>2. t \in Task /\ t.pc \in Steps(t.kind) /\ t.pc # "scoring"
  BY <1>1, AtAStep DEF AllSteps, Calls, Patches
<1>3. {"nothing", "error", "results"} \subseteq Replies \ {"ordered"}
  BY DEF Replies
<1>4. task \in [Clients -> Task]
  BY DEF RecordsInv, TypeOK
<1>5. ASSUME NEW v \in Task, v.kind = t.kind, v.pc = t.pc, v.request = t.request,
             v.faults = t.faults, Becomes(c, Advance(v))
      PROVE  Covered(c)
  <2>1. task'[c] = Advance(v)
    BY <1>4, <1>5 DEF Becomes
  <2> QED
    BY <1>1, <1>2, <1>5, <2>1, GetsCovered
<1>6. ASSUME NEW reply \in Replies \ {"ordered"},
             \/ Becomes(c, Cancel(t, reply))
             \/ Becomes(c, End(t, reply)) /\ ~(Compares(t) /\ t.pc \in Settling)
      PROVE  Covered(c)
  <2>1. \/ task'[c] = Cancel(t, reply)
        \/ task'[c] = End(t, reply) /\ ~(Compares(t) /\ t.pc \in Settling)
    BY <1>4, <1>6 DEF Becomes
  <2> QED
    BY <1>1, <2>1, CancelCovered
<1>7. CASE Parse(c)
  BY <1>2, <1>3, <1>5, <1>6, <1>7 DEF Parse
<1>8. CASE Select(c)
  BY <1>2, <1>5, <1>8 DEF Select
<1>9. CASE CallFails(c)
  <2>1. Becomes(c, Cancel(t, "error")) \/ (Becomes(c, End(t, "error")) /\ ~Compares(t))
    BY <1>9 DEF CallFails, Fail
  <2> QED
    BY <1>3, <1>6, <2>1
<1>10. CASE Discover(c)
  <2>1. PICK hits \in {{}} \cup {Matches(q) : q \in Queries} :
          Becomes(c, IF hits = {} THEN FoundNothing(t) ELSE Advance([t EXCEPT !.found = hits]))
    BY <1>10 DEF Discover
  <2>2. CASE hits = {}
    <3>1. Becomes(c, Cancel(t, "nothing")) \/ (Becomes(c, End(t, "nothing")) /\ ~Compares(t))
      BY <2>1, <2>2 DEF FoundNothing
    <3> QED
      BY <1>3, <1>6, <3>1
  <2>3. CASE hits # {}
    <3> DEFINE v == [t EXCEPT !.found = hits]
    <3>1. hits = Items
      BY <2>3, HitsAre
    <3>2. v \in Task /\ v.kind = t.kind /\ v.pc = t.pc /\ v.request = t.request /\ v.faults = t.faults
      BY <1>2, <3>1 DEF Task
    <3>3. Becomes(c, Advance(v))
      BY <2>1, <2>3
    <3> HIDE DEF v
    <3> QED
      BY <1>5, <3>2, <3>3
  <2> QED
    BY <2>2, <2>3
<1>11. CASE Score(c)
  <2>1. PICK r \in Recommendations(t.found) :
          Becomes(c, Advance([t EXCEPT !.recommended = r, !.choice = r]))
    BY <1>11 DEF Score
  <2> DEFINE v == [t EXCEPT !.recommended = r, !.choice = r]
  <2>2. r \in SUBSET Items /\ r \in SUBSET Picks
    BY <1>2, TaskFields DEF Recommendations, Picks
  <2>3. v \in Task /\ v.kind = t.kind /\ v.pc = t.pc /\ v.request = t.request /\ v.faults = t.faults
    BY <1>2, <2>2 DEF Task
  <2>4. Becomes(c, Advance(v))
    BY <2>1
  <2> HIDE DEF v
  <2> QED
    BY <1>5, <2>3, <2>4
<1>12. CASE Remember(c)
  <2>1. PICK hits \in Histories, r \in t.recommended :
          Becomes(c, Advance([t EXCEPT !.choice = {Enriched(Ranking, PriceScore, Maker, r, hits)}]))
    BY <1>12 DEF Remember
  <2> DEFINE pick == Enriched(Ranking, PriceScore, Maker, r, hits)
  <2>2. {pick} \in SUBSET Picks
    BY <1>2, <2>1, TaskFields DEF Picks
  <2> HIDE DEF pick
  <2> DEFINE v == [t EXCEPT !.choice = {pick}]
  <2>3. v \in Task /\ v.kind = t.kind /\ v.pc = t.pc /\ v.request = t.request /\ v.faults = t.faults
    BY <1>2, <2>2 DEF Task
  <2>4. Becomes(c, Advance(v))
    BY <2>1 DEF pick
  <2> HIDE DEF v
  <2> QED
    BY <1>5, <2>3, <2>4
<1>13. CASE Confirm(c)
  <2>1. t.pc = "confirm"
    BY <1>13 DEF Confirm, At
  <2> DEFINE chosen == IF t.recommended = {} THEN {Ranking[1]} ELSE t.recommended
  <2>2. Becomes(c, End(t, "results")) \/ Becomes(c, Advance([t EXCEPT !.choice = chosen]))
    BY <1>13 DEF Confirm
  <2>3. CASE Becomes(c, End(t, "results"))
    BY <1>3, <1>6, <2>1, <2>3 DEF Settling
  <2>4. CASE Becomes(c, Advance([t EXCEPT !.choice = chosen]))
    <3> DEFINE v == [t EXCEPT !.choice = chosen]
    <3>1. chosen \in SUBSET Picks
      BY <1>2, TaskFields, FirstRanked DEF Picks
    <3> HIDE DEF chosen
    <3>2. v \in Task /\ v.kind = t.kind /\ v.pc = t.pc /\ v.request = t.request /\ v.faults = t.faults
      BY <1>2, <3>1 DEF Task
    <3> HIDE DEF v
    <3> QED
      BY <1>5, <2>4, <3>2 DEF v
  <2> QED
    BY <2>2, <2>3, <2>4
<1> QED
  BY <1>7, <1>8, <1>9, <1>10, <1>11, <1>12, <1>13

LEMMA RunsCovered ==
  ASSUME RecordsInv, RecordsInv', FaultsCover, NEW c \in Clients, Runs(c) \/ Dies(c)
  PROVE  FaultsCover'
<1>1. \A d \in Clients : Compares(task[d]) => Cover(d)
  BY DEF FaultsCover, Cover
<1>2. Covered(c)
  BY <1>1, PostSucceedsCovered, PostRefusedCovered, PostUnansweredCovered, FaultsCovered,
     PatchWrittenCovered, CallsCovered DEF Runs
<1>3. \A d \in Clients : d # c => task'[d] = task[d]
  BY DEF Runs, Dies, PostSucceeds, PostRefused, PostUnanswered, PostFails, PatchWritten, PatchLost,
         PatchDelayed, Parse, Discover, Score, Remember, Select, Confirm, CallFails, Becomes,
         BecomesByFault, RecordsInv, TypeOK
<1>4. ASSUME NEW d \in Clients, Compares(task'[d]) PROVE Cover(d)'
  <2>1. CASE d = c
    BY <1>2, <1>4, <2>1 DEF Covered, Compares
  <2>2. CASE d # c
    BY <1>1, <1>2, <1>3, <1>4, <2>2, OthersCovered DEF Covered
  <2> QED
    BY <2>1, <2>2
<1> QED
  BY <1>4 DEF FaultsCover, Cover, Compares

LEMMA LateWriteCovered ==
  ASSUME RecordsInv, RecordsInv', FaultsCover, NEW w \in late, LateWrite(w)
  PROVE  FaultsCover'
<1> DEFINE r == w.request
<1>1. /\ db' = UpdateStatus(db, r, w.status) /\ late' = late \ {w} /\ task' = task
  BY DEF LateWrite
<1>2. /\ db \in Db /\ w.status \in Patches /\ r \in DOMAIN db.requests
      /\ task[db.requests[r].by].request = r
  BY DEF RecordsInv, TypeOK, Chained
<1>3. /\ DOMAIN db'.requests = DOMAIN db.requests
      /\ \A q \in DOMAIN db.requests : db'.requests[q].by = db.requests[q].by
      /\ db'.requests[r].status = w.status
      /\ \A q \in DOMAIN db.requests : q # r => db'.requests[q] = db.requests[q]
  BY <1>1, <1>2, UpdateStatusIs
<1>4. ASSUME NEW c \in Clients, Cover(c) PROVE Cover(c)'
  <2>1. Strays(c)' = Strays(c)
    BY <1>1, <1>2, <1>3 DEF Strays, Early
  <2>2. BackInTime(c)' => BackInTime(c)
    BY <1>1 DEF BackInTime
  <2>3. MayStrand(c)' => MayStrand(c)
    <3>1. CASE task[c].request = r /\ w.status \in {"draft", "parsing", "discovering"}
      BY <3>1 DEF MayStrand, BackInTime
    <3>2. CASE task[c].request = r /\ w.status \notin {"draft", "parsing", "discovering"}
      BY <1>1, <1>3, <2>2, <3>2 DEF MayStrand, Early
    <3>3. CASE task[c].request # r
      BY <1>1, <1>3, <2>2, <3>3 DEF MayStrand, Early
    <3> QED
      BY <3>1, <3>2, <3>3
  <2> QED
    BY <1>1, <1>4, <2>1, <2>3, CoverSteady DEF RecordsInv
<1> QED
  BY <1>1, <1>4 DEF FaultsCover, Cover

LEMMA CoverStarts == Init => FaultsCover
<1> SUFFICES ASSUME Init, NEW c \in Clients PROVE Cover(c)
  BY DEF FaultsCover, Cover
<1>1. db = EmptyDb /\ late = {} /\ task[c].faults = 0
  BY DEF Init, NewTask
<1>2. Early(c) = {} /\ Strays(c) = {} /\ ~MayStrand(c)
  BY <1>1 DEF EmptyDb, Early, Strays, MayStrand, BackInTime
<1>3. Cardinality(Strays(c)) = 0
  BY <1>2, FS_EmptySet
<1> QED
  BY <1>1, <1>2, <1>3 DEF Cover

LEMMA CoverKeeps == RecordsInv /\ RecordsInv' /\ FaultsCover /\ [Next]_vars => FaultsCover'
<1> SUFFICES ASSUME RecordsInv, RecordsInv', FaultsCover, [Next]_vars PROVE FaultsCover'
  OBVIOUS
<1>1. CASE UNCHANGED vars
  BY <1>1 DEF vars, FaultsCover, Strays, MayStrand, BackInTime, Early, Compares
<1> QED
  BY <1>1, RunsCovered, LateWriteCovered DEF Next

LEMMA CoverExplains ==
  ASSUME RecordsInv, FaultsCover
  PROVE  OrphansAreExplained
<1> SUFFICES ASSUME NEW c \in Clients, Compares(task[c]), Ended(task[c])
             PROVE  Cardinality(Early(c)) <= task[c].faults
  BY DEF OrphansAreExplained
<1> DEFINE r == task[c].request
           n == Cardinality(Strays(c))
<1>1. Cover(c) /\ task[c].faults \in Nat
  BY TaskFields DEF FaultsCover, Cover, RecordsInv, TypeOK
<1>2. IsFiniteSet(Early(c)) /\ n \in Nat
  BY EarlyIsFinite DEF RecordsInv
<1>3. CASE r \in Early(c)
  <2>1. MayStrand(c)
    BY <1>3 DEF MayStrand, Ended
  <2>2. Cardinality(Early(c) \ {r}) = Cardinality(Early(c)) - 1 /\ Cardinality(Early(c)) \in Nat
    BY <1>2, <1>3, FS_RemoveElement, FS_CardinalityType
  <2>3. n + 1 <= task[c].faults
    BY <1>1, <2>1 DEF Cover
  <2> QED
    BY <1>1, <1>2, <2>2, <2>3 DEF Strays
<1>4. CASE r \notin Early(c)
  <2>1. Strays(c) = Early(c)
    BY <1>4 DEF Strays
  <2>2. n <= task[c].faults
    BY <1>1, <1>2 DEF Cover
  <2> QED
    BY <2>1, <2>2
<1> QED
  BY <1>3, <1>4

(* Every row that a handler of /compare or /run leaves early is there by a *)
(* fault of its own (_compare_phase, which cancels the row on each of its  *)
(* error paths).                                                           *)
THEOREM OrphansNeedFaults == Spec => []OrphansAreExplained
<1>1. Init => RecordsInv /\ FaultsCover
  BY RecordsStart, CoverStarts
<1>2. RecordsInv /\ FaultsCover /\ [Next]_vars => (RecordsInv /\ FaultsCover)'
  BY RecordsKeep, CoverKeeps
<1>3. RecordsInv /\ FaultsCover => OrphansAreExplained
  BY CoverExplains
<1> QED
  BY <1>1, <1>2, <1>3, PTL DEF Spec
=============================================================================

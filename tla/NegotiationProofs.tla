--------------------------- MODULE NegotiationProofs ---------------------------
(* Theorems about a negotiation, for any policies, candidates, prices,     *)
(* ceilings of rounds and messages, and any number of messages, runs that  *)
(* raise, crashes of the engine and ends of its listener.                  *)
EXTENDS Negotiation, TLAPS

-----------------------------------------------------------------------------
(* The counter-offer (strategy.py, guardrails.py). *)

(* The caps of category and supplier can only tighten G1. *)
LEMMA EffectiveMaxRange ==
  ASSUME NEW policy \in Policies
  PROVE  EffectiveMax(policy) \in 0..AbsoluteMax
BY DEF EffectiveMax, Least, AbsoluteMax, Policies

(* Whatever base, gap and history ask for is a number. *)
LEMMA RawTargetIsInt ==
  ASSUME NEW category \in Categories, NEW offer \in Targets, NEW policy \in Policies
  PROVE  RawTarget(category, offer, policy) \in Int
<1>1. GapPct(offer.price, policy) \in Int
  <2>1. offer.price \in Nat /\ policy.budget \in Nat
    BY DEF Targets, Policies
  <2>2. CASE policy.budget = 0
    BY <2>2 DEF GapPct
  <2>3. CASE policy.budget # 0
    <3>1. ((offer.price - policy.budget) * 100) \div policy.budget \in Int
      BY <2>1, <2>3
    <3> QED
      BY <2>3, <3>1 DEF GapPct, Greatest
  <2> QED
    BY <2>2, <2>3
<1>2. Alpha(category) \in Int /\ Base(category) \in Int
  BY DEF Alpha, Base, Categories, AdvisoryOnly
<1>3. Gamma(offer.history) \in Int
  BY DEF Gamma, Targets, Histories
<1>4. (GapPct(offer.price, policy) * Alpha(category)) \div 100 \in Int
  BY <1>1, <1>2
<1>5. Greatest(Base(category), (GapPct(offer.price, policy) * Alpha(category)) \div 100) \in Int
  BY <1>2, <1>4 DEF Greatest
<1> QED
  BY <1>3, <1>5 DEF RawTarget

(* compute_target_discount keeps to the tightest cap, whatever the gap, the *)
(* category and the supplier's history ask for.                             *)
LEMMA TargetDiscountRange ==
  ASSUME NEW category \in Categories, NEW offer \in Targets, NEW policy \in Policies
  PROVE  TargetDiscount(category, offer, policy) \in 0..EffectiveMax(policy)
<1>1. EffectiveMax(policy) \in 0..AbsoluteMax
  BY EffectiveMaxRange
<1>2. RawTarget(category, offer, policy) \in Int
  BY RawTargetIsInt
<1> QED
  BY <1>1, <1>2 DEF TargetDiscount, Least, Greatest, AbsoluteMax

(* A part of a price is a price. *)
LEMMA PriceAfterDiscount ==
  ASSUME NEW price \in Nat, NEW d \in 0..100
  PROVE  (price * (100 - d)) \div 100 \in Nat
<1>1. price * (100 - d) \in Nat
  BY SMT
<1> DEFINE n == price * (100 - d)
<1>2. n \in Nat
  BY <1>1
<1> HIDE DEF n
<1>3. n \div 100 \in Nat
  BY <1>2
<1> QED
  BY <1>3 DEF n

(* A draft is a counter-offer that the shield can hold back for the lead   *)
(* time or the stock only, never for its discount: the caps that the       *)
(* strategy clamps to are those that the guardrails check.                 *)
THEOREM DraftsKeepToTheCaps ==
  ASSUME NEW category \in Categories, NEW offer \in Targets, NEW policy \in Policies
  PROVE  LET counter == Draft(category, offer, policy)
         IN  counter \in Counters /\ (Validates(counter, policy) <=> offer.fits)
<1> DEFINE d == TargetDiscount(category, offer, policy)
<1>1. d \in 0..EffectiveMax(policy) /\ EffectiveMax(policy) \in 0..AbsoluteMax
  BY TargetDiscountRange, EffectiveMaxRange
<1>2. d \in 0..100 /\ offer.price \in Nat /\ offer.fits \in BOOLEAN
  BY <1>1 DEF AbsoluteMax, Targets
<1>3. (offer.price * (100 - d)) \div 100 \in Nat
  BY <1>2, PriceAfterDiscount
<1>4. Draft(category, offer, policy) =
        [discount |-> d, price |-> (offer.price * (100 - d)) \div 100, fits |-> offer.fits]
  BY DEF Draft
<1> HIDE DEF d
<1> QED
  BY <1>1, <1>2, <1>3, <1>4 DEF Counters, Validates

-----------------------------------------------------------------------------
(* The types. *)

(* What a resumed node, or the evaluation of a message, makes of the       *)
(* thread is a thread.                                                     *)
LEMMA ResumedTyped ==
  ASSUME TypeOK, NEW m \in Messages
  PROVE  Resumed(m) \in Thread
<1>1. thread \in Thread
  BY DEF TypeOK
<1>2. m \in Messages /\ m.action \in Actions
  BY DEF Messages
<1>3. CASE thread.at = "wait_for_async_callback"
  <2>1. Resumed(m) = [thread EXCEPT !.payload = m,
                        !.at = IF m.status = "timeout" THEN "timeout_handler" ELSE "evaluate_response"]
    BY <1>3 DEF Resumed
  <2> QED
    BY <1>1, <1>2, <2>1 DEF Thread, Nodes
<1>4. CASE thread.at = "human_escalation"
  <2>1. Resumed(m) = [thread EXCEPT !.reason = "none", !.said = m.action,
                        !.at = IF m.action = "override" THEN "wait_for_async_callback" ELSE "finalize"]
    BY <1>4 DEF Resumed
  <2> QED
    BY <1>1, <1>2, <2>1 DEF Thread, Nodes
<1>5. CASE thread.at \notin {"wait_for_async_callback", "human_escalation"}
  BY <1>1, <1>5 DEF Resumed
<1> QED
  BY <1>3, <1>4, <1>5

LEMMA EvaluatedTyped ==
  ASSUME TypeOK, NEW m \in Messages
  PROVE  /\ Evaluated(m) \in Thread
         /\ Evaluated(m).round = thread.round + 1
         /\ \A node \in Nodes : [Evaluated(m) EXCEPT !.at = node] \in Thread
<1>1. thread \in Thread /\ thread.target \in Targets
  BY DEF TypeOK, Thread
<1> DEFINE target == [thread.target EXCEPT !.price = IF m.status \in {"counter", "none"} /\ m.price > 0
                                                     THEN m.price ELSE @]
           outcome == IF m.status = "accepted" THEN "accepted" ELSE thread.outcome
<1>2. target \in Targets
  BY <1>1 DEF Targets, Messages
<1>3. outcome \in Outcomes
  BY <1>1 DEF Outcomes, Thread
<1>4. thread.round \in Nat /\ thread.round + 1 \in Nat
  BY <1>1 DEF Thread
<1>5. Evaluated(m) = [thread EXCEPT !.round = thread.round + 1, !.outcome = outcome, !.target = target]
  BY <1>1 DEF Evaluated, Thread
<1> HIDE DEF target, outcome
<1>6. Evaluated(m) \in Thread /\ Evaluated(m).round = thread.round + 1
  BY <1>1, <1>2, <1>3, <1>4, <1>5 DEF Thread
<1> QED
  BY <1>6 DEF Thread

LEMMA NoThreadTyped == NoThread \in Thread
<1>1. (CHOOSE p \in Session : TRUE) \in Policies
  BY UsedAssumption
<1>2. NoTarget \in Targets /\ NoCounter \in Counters /\ NoMessage \in Messages
  BY DEF NoTarget, Targets, NoCounter, Counters, NoMessage, Messages, Statuses, Actions
<1>3. <<>> \in Seq(Offers)
  OBVIOUS
<1> QED
  BY <1>1, <1>2, <1>3 DEF NoThread, Thread, Nodes, Categories, Actions, Outcomes

LEMMA FinalIsOutcome == ASSUME TypeOK PROVE Final \in Outcomes
BY DEF Final, TypeOK, Thread, Outcomes

(* A node changes the thread only, and the thread stays one. *)
LEMMA NodeTyped ==
  ASSUME TypeOK, Node
  PROVE  TypeOK'
<1>1. thread \in Thread /\ thread.at \in Nodes \cup {"none", "end"}
  BY DEF TypeOK, Thread
<1> SUFFICES /\ thread' \in Thread /\ run' \in {"none", "kickoff", "resume"} /\ given' \in Seq(Messages)
             /\ UNCHANGED <<origin, channel, listener, lost, session, page, foreign, faults>>
  BY DEF TypeOK
<1> USE DEF EngineStep
<1>2. CASE AnalyzeTarget
  <2>1. CASE thread.left = <<>>
    <3>1. NoTarget \in Targets
      BY DEF NoTarget, Targets
    <3>2. /\ thread' = [thread EXCEPT !.target = NoTarget, !.at = "finalize"]
          /\ run' = run /\ EngineStep
      BY <1>2, <2>1 DEF AnalyzeTarget
    <3>3. "finalize" \in Nodes
      BY DEF Nodes
    <3>4. thread' \in Thread
      BY <1>1, <3>1, <3>2, <3>3 DEF Thread
    <3>5. run' \in {"none", "kickoff", "resume"} /\ given' \in Seq(Messages)
      BY <3>2 DEF TypeOK
    <3> QED
      BY <3>2, <3>4, <3>5
  <2>2. CASE thread.left # <<>>
    <3>1. thread.left \in Seq(Offers) /\ Head(thread.left) \in Offers /\ Tail(thread.left) \in Seq(Offers)
      BY <1>1, <2>2 DEF Thread
    <3>2. Head(thread.left) \in Targets
      BY <3>1 DEF Offers, Targets
    <3> DEFINE to == IF AdvisoryOnly(thread.category) THEN "evaluate_ambiguous_terms"
                     ELSE "compute_counter_offer"
    <3>3. thread' = [thread EXCEPT !.target = Head(thread.left), !.left = Tail(thread.left), !.at = to]
      BY <1>1, <1>2, <2>2 DEF AnalyzeTarget, Thread
    <3>4. to \in Nodes
      BY DEF Nodes
    <3> HIDE DEF to
    <3> QED
      BY <1>1, <1>2, <3>1, <3>2, <3>3, <3>4 DEF AnalyzeTarget, TypeOK, Thread
  <2> QED
    BY <2>1, <2>2
<1>3. CASE EvaluateAmbiguousTerms
  BY <1>1, <1>3 DEF EvaluateAmbiguousTerms, TypeOK, Thread, Nodes, Outcomes
<1>4. CASE ComputeCounterOffer
  <2>1. Drafted \in Counters
    BY <1>1, DraftsKeepToTheCaps DEF Thread, Drafted
  <2> QED
    BY <1>1, <1>4, <2>1 DEF ComputeCounterOffer, TypeOK, Thread, Nodes
<1>5. CASE PolicyGuardrailCheck
  BY <1>1, <1>5 DEF PolicyGuardrailCheck, TypeOK, Thread, Nodes
<1>6. CASE Interrupts
  BY <1>1, <1>6 DEF Interrupts, TypeOK
<1>7. CASE EvaluateResponse
  <2> DEFINE m == thread.payload
             to == RouteFromEvaluateResponse(Evaluated(m), Evaluated(m).payload)
  <2>1. m \in Messages
    BY <1>1 DEF Thread
  <2>2. to \in Nodes
    BY DEF RouteFromEvaluateResponse, Nodes
  <2>3. thread' = [Evaluated(m) EXCEPT !.at = to] /\ run' = run /\ EngineStep
    BY <1>7 DEF EvaluateResponse
  <2> HIDE DEF to, m
  <2> QED
    BY <2>1, <2>2, <2>3, EvaluatedTyped DEF TypeOK
<1>8. CASE TimeoutHandler
  BY <1>1, <1>8 DEF TimeoutHandler, TypeOK, Thread, Nodes, Outcomes
<1>9. CASE Finalize
  <2>1. thread' = [thread EXCEPT !.outcome = Final, !.at = "end"]
    BY <1>9 DEF Finalize
  <2> QED
    BY <1>1, <1>9, <2>1, FinalIsOutcome DEF Finalize, Thread, TypeOK
<1>10. CASE Answered
  <2>1. Head(given) \in Messages /\ <<>> \in Seq(Messages)
    BY <1>10 DEF Answered, TypeOK
  <2> QED
    BY <1>10, <2>1, ResumedTyped DEF Answered, TypeOK
<1> QED
  BY <1>2, <1>3, <1>4, <1>5, <1>6, <1>7, <1>8, <1>9, <1>10 DEF Node

(* What is published is taken as it is, or by nobody. *)
LEMMA PublishTyped ==
  ASSUME TypeOK, NEW m \in Messages, Publish(m)
  PROVE  channel' \in Seq(Messages) /\ lost' \in BOOLEAN
BY DEF TypeOK, Publish

LEMMA TypeStep == ASSUME TypeOK, [Next]_vars PROVE TypeOK'
<1>1. CASE UNCHANGED vars
  BY <1>1 DEF vars, TypeOK, Page
<1>2. CASE Negotiate
  <2>1. PICK ranking \in Rankings, category \in Used, policy \in Session :
          thread' = [NoThread EXCEPT !.at = "analyze_target", !.category = category,
                                     !.policy = policy, !.left = ranking]
    BY <1>2 DEF Negotiate
  <2>2. ranking \in Seq(Offers) /\ category \in Categories /\ policy \in Policies
    BY UsedAssumption, InputsAssumption
  <2>3. thread' \in Thread
    BY <2>1, <2>2, NoThreadTyped DEF Thread, Nodes
  <2>4. page' \in Page
    BY <1>2 DEF Negotiate, TypeOK, Page
  <2> QED
    BY <1>2, <2>3, <2>4 DEF Negotiate, TypeOK
<1>3. CASE Node
  BY <1>3, NodeTyped
<1>4. CASE Resume
  <2>1. Head(channel) \in Messages /\ Tail(channel) \in Seq(Messages) /\ <<>> \in Seq(Messages)
    BY <1>4 DEF Resume, TypeOK
  <2>2. given' \in Seq(Messages) /\ run' \in {"none", "kickoff", "resume"} /\ channel' \in Seq(Messages)
    BY <1>4, <2>1 DEF Resume
  <2> QED
    BY <1>4, <2>2 DEF Resume, TypeOK
<1>5. CASE ForeignMessage
  <2>1. PICK m \in Others : Publish(m)
    BY <1>5 DEF ForeignMessage
  <2>2. channel' \in Seq(Messages) /\ lost' \in BOOLEAN
    BY <2>1, InputsAssumption, PublishTyped
  <2> QED
    BY <1>5, <2>2 DEF ForeignMessage, TypeOK
<1>6. CASE ListenerEnds
  <2>1. lost' \in BOOLEAN
    BY <1>6, Zenon DEF ListenerEnds
  <2>2. <<>> \in Seq(Messages)
    OBVIOUS
  <2> QED
    BY <1>6, <2>1, <2>2 DEF ListenerEnds, TypeOK
<1>7. CASE Restart
  <2>1. thread' \in Thread
    BY <1>7, NoThreadTyped DEF Restart, TypeOK
  <2>2. page' \in Page
    BY <1>7 DEF Restart, TypeOK, Page
  <2>3. lost' \in BOOLEAN
    BY <1>7, Zenon DEF Restart
  <2>4. /\ channel' \in Seq(Messages) /\ given' \in Seq(Messages) /\ listener' \in BOOLEAN
        /\ run' \in {"none", "kickoff", "resume"}
    <3>1. <<>> \in Seq(Messages)
      OBVIOUS
    <3> QED
      BY <1>7, <3>1 DEF Restart
  <2>5. faults' \in Nat /\ UNCHANGED <<origin, session, foreign>>
    BY <1>7 DEF Restart, TypeOK
  <2> QED
    BY <2>1, <2>2, <2>3, <2>4, <2>5 DEF TypeOK
<1>8. CASE AsksSupplier
  <2>1. thread.counter.price \in Nat /\ session.rounds + 1 \in Nat
    BY DEF TypeOK, Thread, Counters
  <2>2. page' \in Page
    BY <1>8, <2>1 DEF AsksSupplier, TypeOK, Page
  <2> QED
    BY <1>8, <2>2 DEF AsksSupplier, PageStep, TypeOK
<1>9. CASE SupplierAnswers
  <2> DEFINE Named(action, price) == CASE action = "accept"  -> page.ask
                                       [] action = "counter" -> Conceded(price)
                                       [] action = "reject"  -> price
  <2>1. PICK action \in SupplierActions, price \in Prices :
          /\ Publish(Reply(action, Named(action, price)))
          /\ session' = [rounds |-> page.round,
                         last   |-> IF action = "reject" THEN session.last ELSE Named(action, price),
                         agreed |-> session.agreed \/ Closes(action)]
          /\ page' = [page EXCEPT !.pc = "wording", !.closes = Closes(action)]
    BY <1>9 DEF SupplierAnswers
  <2>2. page.ask \in Nat /\ page.round \in Nat /\ session.last \in Nat /\ price \in Nat
    BY InputsAssumption DEF TypeOK, Page
  <2>3. Conceded(price) \in Nat
    BY <2>2 DEF Conceded, Greatest
  <2>4. Named(action, price) \in Nat
    BY <2>2, <2>3 DEF SupplierActions
  <2> HIDE DEF Named
  <2>5. Reply(action, Named(action, price)) \in Messages
    BY <2>4 DEF Reply, Messages, Statuses, Actions, SupplierActions
  <2>6. channel' \in Seq(Messages) /\ lost' \in BOOLEAN
    BY <2>1, <2>5, PublishTyped
  <2>7. session' \in [rounds : Nat, last : Nat, agreed : BOOLEAN]
    BY <2>1, <2>2, <2>4 DEF TypeOK, Closes
  <2>8. page' \in Page
    BY <2>1 DEF TypeOK, Page, Closes
  <2> QED
    BY <1>9, <2>6, <2>7, <2>8 DEF SupplierAnswers, PageStep, TypeOK
<1>10. CASE TurnRecorded
  <2>1. page' \in Page
    BY <1>10 DEF TurnRecorded, TypeOK, Page
  <2> QED
    BY <1>10, <2>1 DEF TurnRecorded, PageStep, TypeOK
<1>11. CASE GivesUp
  <2>1. page' \in Page
    BY <1>11 DEF GivesUp, TypeOK, Page
  <2> QED
    BY <1>11, <2>1 DEF GivesUp, PageStep, TypeOK
<1>12. CASE RunFails
  <2>1. page' \in Page /\ <<>> \in Seq(Messages)
    BY <1>12 DEF RunFails, TypeOK, Page
  <2>2. faults' \in Nat /\ UNCHANGED <<origin, thread, channel, listener, session, foreign>>
    BY <1>12 DEF RunFails, TypeOK
  <2> QED
    BY <1>12, <2>1, <2>2 DEF RunFails, TypeOK
<1> QED
  BY <1>1, <1>2, <1>3, <1>4, <1>5, <1>6, <1>7, <1>8, <1>9, <1>10, <1>11, <1>12 DEF Next

-----------------------------------------------------------------------------
(* The record. *)

(* The override of a round stays on record. *)
LEMMA OverriddenStays ==
  ASSUME saved \subseteq saved', NEW round, Overridden(round)
  PROVE  Overridden(round)'
BY DEF Overridden

(* What a node sends without an answer is one event of the thread's round, *)
(* which no saved record of that round holds, unless the node waits.       *)
LEMMA OwnRecordIsOne ==
  \A e \in OwnRecord :
    /\ e.round = thread.round
    /\ \A f \in OwnRecord : e = f
    /\ e.event \notin Answers \cup {"resume_failed"}
    /\ e.event = "outcome_received" => thread.at = "finalize"
    /\ e.event = "counter_offer_dispatched" =>
         thread.at = "wait_for_async_callback" /\ e.counter = thread.counter
    /\ \/ ~OnRecord(e.event, thread.at)
       \/ thread.at \in Waits /\ e.event = WaitsWith /\ e \in BeforeInterrupt
<1>1. CASE thread.at = "compute_counter_offer"
  BY <1>1 DEF OwnRecord, DraftRecord, Event, Answers, OnRecord, Waits
<1>2. CASE thread.at = "policy_guardrail_check"
  BY <1>2 DEF OwnRecord, BlockRecord, Event, Answers, OnRecord, Waits
<1>3. CASE thread.at = "finalize"
  BY <1>3 DEF OwnRecord, OutcomeRecord, Event, Answers, OnRecord, Waits
<1>4. CASE thread.at \in Waits
  BY <1>4 DEF OwnRecord, BeforeInterrupt, Event, Answers, WaitsWith, Waits
<1>5. CASE thread.at \notin {"compute_counter_offer", "policy_guardrail_check", "finalize"} \cup Waits
  BY <1>5 DEF OwnRecord
<1> QED
  BY <1>1, <1>2, <1>3, <1>4, <1>5

(* What a failing node has sent is its own record, or an answer.           *)
LEMMA SentByNowIsOwn ==
  ASSUME NEW sent \in SentByNow, NEW e \in sent
  PROVE  \/ e \in OwnRecord
         \/ e.event \in Answers /\ e.round = thread.round
<1>1. CASE thread.at = "compute_counter_offer"
  BY <1>1 DEF SentByNow, OwnRecord, Waits
<1>2. CASE thread.at = "policy_guardrail_check"
  BY <1>2 DEF SentByNow, OwnRecord, Waits
<1>3. CASE thread.at = "finalize"
  BY <1>3 DEF SentByNow, OwnRecord, Waits
<1>4. CASE thread.at \in Waits
  <2>1. OwnRecord = BeforeInterrupt
    BY <1>4 DEF OwnRecord, Waits
  <2>2. SentByNow = {{}, BeforeInterrupt} \cup
                    {BeforeInterrupt \cup AfterInterrupt(given[i]) : i \in DOMAIN given}
    BY <1>4 DEF SentByNow, Waits
  <2>3. \A m : \A f \in AfterInterrupt(m) : f.event \in Answers /\ f.round = thread.round
    BY DEF AfterInterrupt, Event, Answers
  <2> QED
    BY <2>1, <2>2, <2>3
<1>5. CASE thread.at \notin {"compute_counter_offer", "policy_guardrail_check", "finalize"} \cup Waits
  BY <1>5 DEF SentByNow
<1> QED
  BY <1>1, <1>2, <1>3, <1>4, <1>5

(* A step that touches neither the graph nor its record. *)
LEMMA QuietStep ==
  ASSUME AuditInv, TypeOK', UNCHANGED <<thread, audit, saved>>, lost => lost',
         thread.at = "none" => run' = "none"
  PROVE  AuditInv'
<1>1. RecordInOrder'
  BY DEF AuditInv, RecordInOrder, WaitsWith, BeforeInterrupt, Event, OwnRecord, DraftRecord, Drafted,
         BlockRecord, Blocked, OutcomeRecord, Final
<1>2. RecordStartsEmpty'
  BY DEF AuditInv, RecordStartsEmpty
<1>3. MayGoOut'
  BY DEF AuditInv, MayGoOut, Overridden
<1>4. KeysTellEventsApart'
  BY DEF AuditInv, KeysTellEventsApart
<1>5. RoundsAreBounded'
  BY DEF AuditInv, RoundsAreBounded, Overridden
<1>6. Durable \/ thread'.at # "none" => OnlyOverridesPass'
  BY DEF AuditInv, OnlyOverridesPass, Overridden
<1> QED
  BY <1>1, <1>2, <1>3, <1>4, <1>5, <1>6 DEF AuditInv

(* A run fails at a node: what the node has sent stays on the topic, and   *)
(* the thread is where it was.                                             *)
LEMMA FailedSendFits ==
  ASSUME AuditInv, thread.at # "none", NEW sent \in SentByNow, NEW failure \in {{}, FailureRecord},
         audit' = audit \cup sent \cup failure, saved' = saved
  PROVE  /\ KeysTellEventsApart' /\ RoundsAreBounded'
         /\ \A e \in audit' \ audit :
              /\ e.round \in Nat /\ e.round <= thread.round
              /\ e.event = "outcome_received" => e.round = thread.round
              /\ e \in OwnRecord \/ e.event \in Answers \cup {"resume_failed"}
              /\ e.event = "counter_offer_dispatched" =>
                   Overridden(thread.round) \/ (Validates(e.counter, thread.policy) /\ thread.round < MaxRounds)
<1>1. thread.round \in Nat
  BY DEF AuditInv, TypeOK, Thread
<1>2. \A e \in failure : e.event = "resume_failed" /\ e.round = 0
  BY DEF FailureRecord
<1>3. ASSUME NEW e \in audit' \ audit
      PROVE  \/ e \in OwnRecord
             \/ e.event \in Answers /\ e.round = thread.round
             \/ e.event = "resume_failed" /\ e.round = 0
  BY <1>2, <1>3, SentByNowIsOwn
<1>4. saved \subseteq audit
  BY DEF AuditInv, RecordInOrder
<1>5. ASSUME NEW e \in audit' \ audit
      PROVE  /\ e.round \in Nat /\ e.round <= thread.round
             /\ e.event = "outcome_received" => e.round = thread.round
             /\ e \in OwnRecord \/ e.event \in Answers \cup {"resume_failed"}
  BY <1>1, <1>3, <1>5, OwnRecordIsOne DEF Answers
<1>6. ASSUME NEW e \in audit' \ audit, e.event = "counter_offer_dispatched"
      PROVE  Overridden(thread.round) \/ (Validates(e.counter, thread.policy) /\ thread.round < MaxRounds)
  <2>1. e \in OwnRecord
    BY <1>3, <1>6 DEF Answers
  <2>2. thread.at = "wait_for_async_callback" /\ e.counter = thread.counter
    BY <1>6, <2>1, OwnRecordIsOne
  <2> QED
    BY <2>2 DEF AuditInv, MayGoOut
<1>7. KeysTellEventsApart'
  <2>1. ASSUME NEW e \in audit' \ audit, NEW f \in audit', Key(e) = Key(f), e.event # "resume_failed"
        PROVE  e = f \/ (e.event \in Answers /\ e \notin saved)
    <3>1. CASE e \notin OwnRecord
      BY <1>3, <1>4, <2>1, <3>1
    <3>2. CASE e \in OwnRecord
      <4>1. f.event = e.event /\ (e.event = "outcome_received" \/ f.round = e.round)
        BY <2>1 DEF Key
      <4>2. e.event \notin Answers /\ e.round = thread.round
        BY <3>2, OwnRecordIsOne
      <4>3. CASE f \notin audit
        <5>1. f \in OwnRecord
          BY <1>3, <2>1, <4>1, <4>2, <4>3
        <5> QED
          BY <3>2, <5>1, OwnRecordIsOne
      <4>4. CASE f \in audit
        <5>1. f.round = thread.round
          BY <4>1, <4>2, <4>4 DEF AuditInv, RecordInOrder
        <5>2. CASE f \in saved
          <6>1. /\ OnRecord(f.event, thread.at)
                /\ thread.at \in Waits /\ f.event = WaitsWith => f \in BeforeInterrupt
            BY <4>4, <5>1, <5>2 DEF AuditInv, RecordInOrder
          <6>2. thread.at \in Waits /\ e.event = WaitsWith /\ e \in BeforeInterrupt
            BY <3>2, <4>1, <6>1, OwnRecordIsOne
          <6> QED
            BY <4>1, <6>1, <6>2 DEF BeforeInterrupt, Event
        <5>3. CASE f \notin saved
          <6>1. f \in OwnRecord
            BY <2>1, <4>1, <4>2, <4>4, <5>3 DEF AuditInv, RecordInOrder
          <6> QED
            BY <3>2, <6>1, OwnRecordIsOne
        <5> QED
          BY <5>2, <5>3
      <4> QED
        BY <4>3, <4>4
    <3> QED
      BY <3>1, <3>2
  <2> SUFFICES ASSUME NEW e \in audit', NEW f \in audit', Key(e) = Key(f), e.event # "resume_failed"
               PROVE  e = f \/ (e.event \in Answers /\ ~({e, f} \subseteq saved))
    BY DEF KeysTellEventsApart, Key
  <2>2. CASE e \notin audit
    BY <2>1, <2>2
  <2>3. CASE e \in audit /\ f \notin audit
    <3>1. f.event = e.event
      BY DEF Key
    <3> QED
      BY <2>1, <2>3, <3>1
  <2>4. CASE e \in audit /\ f \in audit
    BY <2>4 DEF AuditInv, KeysTellEventsApart
  <2> QED
    BY <2>2, <2>3, <2>4
<1>8. RoundsAreBounded'
  <2> SUFFICES ASSUME NEW e \in audit', e.event = "counter_offer_dispatched"
               PROVE  e.round < MaxRounds \/ Overridden(e.round)
    BY DEF RoundsAreBounded, Overridden
  <2>1. CASE e \in audit
    BY <2>1 DEF AuditInv, RoundsAreBounded
  <2>2. CASE e \notin audit
    <3>1. e \in OwnRecord
      BY <1>3, <2>2 DEF Answers
    <3> QED
      BY <1>6, <2>2, <3>1, OwnRecordIsOne
  <2> QED
    BY <2>1, <2>2
<1> QED
  BY <1>5, <1>6, <1>7, <1>8

LEMMA FailureKeepsAuditInv ==
  ASSUME AuditInv, TypeOK', thread.at # "none", thread' = thread,
         NEW sent \in SentByNow, NEW failure \in {{}, FailureRecord},
         audit' = audit \cup sent \cup failure, saved' = saved
  PROVE  AuditInv'
<1>1. KeysTellEventsApart' /\ RoundsAreBounded'
  BY FailedSendFits
<1>2. \A e \in audit' \ audit :
        /\ e.round \in Nat /\ e.round <= thread.round
        /\ e.event = "outcome_received" => e.round = thread.round
        /\ e \in OwnRecord \/ e.event \in Answers \cup {"resume_failed"}
        /\ e.event = "counter_offer_dispatched" =>
             Overridden(thread.round) \/ (Validates(e.counter, thread.policy) /\ thread.round < MaxRounds)
  BY FailedSendFits
<1>3. WaitsWith' = WaitsWith /\ BeforeInterrupt' = BeforeInterrupt /\ OwnRecord' = OwnRecord
  BY DEF WaitsWith, BeforeInterrupt, Event, OwnRecord, DraftRecord, Drafted, BlockRecord, Blocked,
         OutcomeRecord, Final
<1>4. RecordInOrder'
  <2>1. saved \subseteq audit
    BY DEF AuditInv, RecordInOrder
  <2> SUFFICES ASSUME NEW e \in audit'
               PROVE  /\ e.round \in Nat /\ e.round <= thread.round
                      /\ e.event = "outcome_received" => e.round = thread.round
                      /\ e \in saved /\ e.round = thread.round =>
                           /\ OnRecord(e.event, thread.at)
                           /\ thread.at \in Waits /\ e.event = WaitsWith => e \in BeforeInterrupt
                      /\ e \in saved \/ e \in OwnRecord \/ e.event \in Answers \cup {"resume_failed"}
    BY <1>3, <2>1 DEF RecordInOrder
  <2>2. CASE e \in audit
    BY <2>2 DEF AuditInv, RecordInOrder
  <2>3. CASE e \notin audit
    BY <1>2, <2>1, <2>3
  <2> QED
    BY <2>2, <2>3
<1>5. RecordStartsEmpty'
  BY DEF RecordStartsEmpty
<1>6. MayGoOut'
  BY DEF AuditInv, MayGoOut, Overridden
<1>7. OnlyOverridesPass'
  <2>1. \A e \in audit' \ audit : e.event = "counter_offer_dispatched" => e.round = thread.round
    BY FailedSendFits, <1>2, OwnRecordIsOne DEF Answers
  <2> QED
    BY <1>2, <2>1 DEF AuditInv, OnlyOverridesPass, Overridden
<1> QED
  BY <1>1, <1>4, <1>5, <1>6, <1>7 DEF AuditInv

(* What a node sends by the time its checkpoint is written is of the round *)
(* the thread is in; the saved record does not hold it yet, or holds it as *)
(* it was sent before the node waited; and an offer it sends to a supplier *)
(* may go out.                                                             *)
MaySend(new) ==
  /\ OwnRecord \subseteq new
  /\ \A e \in new : e.round = thread.round /\ e.event # "resume_failed"
  /\ \A e, f \in new : e.event = f.event => e = f
  /\ \A e \in new : \/ ~OnRecord(e.event, thread.at)
                    \/ thread.at \in Waits /\ e.event = WaitsWith /\ e \in BeforeInterrupt
  /\ \A e \in new : e.event = "counter_offer_dispatched" =>
       Overridden(thread.round) \/ (Validates(e.counter, thread.policy) /\ thread.round < MaxRounds)

(* Where the thread goes, the saved record of its round may be what it now *)
(* is; or it goes to the next round, and sends nothing.                    *)
MayMove(new) ==
  \/ /\ thread'.round = thread.round
     /\ \A e \in saved \cup new : e.round = thread.round =>
          /\ OnRecord(e.event, thread'.at)
          /\ thread'.at \in Waits /\ e.event = WaitsWith' => e \in BeforeInterrupt'
  \/ thread.at = "evaluate_response" /\ thread'.round = thread.round + 1 /\ new = {}

LEMMA GraphStep ==
  ASSUME AuditInv, TypeOK', thread.at # "none", thread'.at # "none",
         thread'.policy = thread.policy,
         NEW new, audit' = audit \cup new, saved' = saved \cup new, MaySend(new), MayMove(new), MayGoOut'
  PROVE  AuditInv'
<1>1. thread.round \in Nat /\ thread'.round \in Nat /\ thread.round <= thread'.round
  BY DEF AuditInv, TypeOK, Thread, MayMove
<1>2. /\ saved \subseteq audit
      /\ \A e \in audit : /\ e.round \in Nat /\ e.round <= thread.round
                          /\ e.event = "outcome_received" => e.round = thread.round
                          /\ e \in saved \/ e \in OwnRecord \/ e.event \in Answers \cup {"resume_failed"}
  BY DEF AuditInv, RecordInOrder
<1>3. \A e \in saved : e.round = thread.round =>
        /\ OnRecord(e.event, thread.at)
        /\ thread.at \in Waits /\ e.event = WaitsWith => e \in BeforeInterrupt
  BY <1>2 DEF AuditInv, RecordInOrder
<1>4. \A e \in audit' : e \notin saved' => e.event \in Answers \cup {"resume_failed"}
  BY <1>2 DEF MaySend
<1>5. RecordInOrder'
  <2>1. ASSUME NEW e \in audit', e.event = "outcome_received"
        PROVE  e.round = thread'.round
    <3>1. e.round = thread.round
      BY <1>2, <2>1 DEF MaySend
    <3>2. CASE thread'.round = thread.round
      BY <3>1, <3>2
    <3>3. CASE thread.at = "evaluate_response" /\ new = {}
      <4>1. e \in saved
        BY <1>4, <2>1, <3>3 DEF Answers
      <4> QED
        BY <1>3, <2>1, <3>1, <3>3, <4>1 DEF OnRecord
    <3> QED
      BY <3>2, <3>3 DEF MayMove
  <2>2. ASSUME NEW e \in audit' PROVE e.round \in Nat /\ e.round <= thread'.round
    <3>1. e.round \in Nat /\ e.round <= thread.round
      BY <1>1, <1>2 DEF MaySend
    <3> QED
      BY <1>1, <3>1
  <2>3. ASSUME NEW e \in saved', e.round = thread'.round
        PROVE  /\ OnRecord(e.event, thread'.at)
               /\ thread'.at \in Waits /\ e.event = WaitsWith' => e \in BeforeInterrupt'
    <3>1. (e \in audit /\ e.round <= thread.round) \/ e \in new
      BY <1>2, <2>3
    <3> QED
      BY <1>1, <2>3, <3>1 DEF MayMove
  <2>4. saved' \subseteq audit'
    BY <1>2
  <2> QED
    BY <1>4, <2>1, <2>2, <2>3, <2>4 DEF RecordInOrder
<1>6. RecordStartsEmpty'
  BY DEF RecordStartsEmpty
<1>7. KeysTellEventsApart'
  <2>1. ASSUME NEW old \in audit, NEW sent \in new, Key(old) = Key(sent)
        PROVE  old = sent \/ (sent.event \in Answers /\ old \notin saved')
    <3>1. old.event = sent.event /\ (sent.event = "outcome_received" \/ old.round = sent.round)
      BY <2>1 DEF Key
    <3>2. sent.round = thread.round /\ sent.event # "resume_failed"
      BY DEF MaySend
    <3>3. old.round = thread.round
      BY <1>2, <3>1, <3>2
    <3>4. CASE old \in saved
      <4>1. /\ OnRecord(old.event, thread.at)
            /\ thread.at \in Waits /\ old.event = WaitsWith => old \in BeforeInterrupt
        BY <1>3, <3>3, <3>4
      <4>2. thread.at \in Waits /\ sent.event = WaitsWith /\ sent \in BeforeInterrupt
        BY <3>1, <4>1 DEF MaySend
      <4> QED
        BY <3>1, <4>1, <4>2 DEF BeforeInterrupt, Event
    <3>5. CASE old \in new
      BY <3>1, <3>5 DEF MaySend
    <3>6. CASE old \notin saved /\ old \notin new
      BY <1>4, <3>1, <3>2, <3>6
    <3> QED
      BY <3>4, <3>5, <3>6
  <2> SUFFICES ASSUME NEW e \in audit', NEW f \in audit', Key(e) = Key(f), e.event # "resume_failed"
               PROVE  e = f \/ (e.event \in Answers /\ ~({e, f} \subseteq saved'))
    BY DEF KeysTellEventsApart, Key
  <2>2. e.event = f.event
    BY DEF Key
  <2>3. CASE e \in new /\ f \in new
    BY <2>2, <2>3 DEF MaySend
  <2>4. CASE e \in audit /\ f \in new
    BY <2>1, <2>2, <2>4
  <2>5. CASE e \in new /\ f \in audit
    BY <2>1, <2>2, <2>5
  <2>6. CASE e \in audit /\ e \notin new /\ f \in audit /\ f \notin new
    <3>1. e = f \/ (e.event \in Answers /\ ~({e, f} \subseteq saved))
      BY <2>6 DEF AuditInv, KeysTellEventsApart
    <3> QED
      BY <2>6, <3>1
  <2> QED
    BY <2>3, <2>4, <2>5, <2>6
<1>8. RoundsAreBounded'
  BY OverriddenStays DEF AuditInv, RoundsAreBounded, MaySend
<1>9. OnlyOverridesPass'
  BY OverriddenStays DEF AuditInv, OnlyOverridesPass, MaySend
<1> QED
  BY <1>5, <1>6, <1>7, <1>8, <1>9 DEF AuditInv

(* A message is recorded under the node that waits, whose own event is     *)
(* sent a second time; it may come too late, or resume the other node.     *)
LEMMA AnsweredKeepsAuditInv ==
  ASSUME AuditInv, TypeOK', Answered
  PROVE  AuditInv'
<1> DEFINE m == Head(given)
<1>1. m \in Messages
  BY DEF AuditInv, TypeOK, Answered
<1>2. /\ thread \in Thread
      /\ DOMAIN thread = {"at", "category", "policy", "left", "target", "counter", "round",
                          "payload", "reason", "said", "outcome"}
  BY DEF AuditInv, TypeOK, Thread
<1>3. thread' = Resumed(m) /\ lost' = lost
  BY DEF Answered
<1>4. thread.at \in Waits
  BY DEF Answered
<1> DEFINE after == AfterInterrupt(m)
           new == BeforeInterrupt \cup after
<1>5. audit' = audit \cup new /\ saved' = saved \cup new
  BY DEF Answered, Emit
<1>6. \A e \in BeforeInterrupt :
        /\ e.event = WaitsWith /\ e.round = thread.round /\ BeforeInterrupt = {e}
        /\ e.counter = thread.counter /\ e.event # "resume_failed"
  BY DEF BeforeInterrupt, WaitsWith, Event
<1>7. \A e \in saved : e.round = thread.round =>
        /\ OnRecord(e.event, thread.at)
        /\ e.event = WaitsWith => e \in BeforeInterrupt
  BY <1>4 DEF AuditInv, RecordInOrder, Waits
<1>8. MayGoOut /\ OwnRecord = BeforeInterrupt
  BY <1>4 DEF AuditInv, OwnRecord, Waits
<1>9. CASE thread.at = "wait_for_async_callback"
  <2>1. /\ thread'.at \in {"timeout_handler", "evaluate_response"}
        /\ thread'.round = thread.round /\ thread'.policy = thread.policy
    BY <1>2, <1>3, <1>9 DEF Resumed
  <2>2. \A e \in after : e.event = "on_select_received" /\ e.round = thread.round /\ after = {e}
    BY <1>9 DEF AfterInterrupt, Event
  <2>3. WaitsWith = "counter_offer_dispatched"
    BY <1>9 DEF WaitsWith
  <2> HIDE DEF after
  <2>4. \A e \in new : e.event = "counter_offer_dispatched" =>
          Overridden(thread.round) \/ (Validates(e.counter, thread.policy) /\ thread.round < MaxRounds)
    BY <1>6, <1>8, <1>9, <2>2 DEF MayGoOut
  <2>5. MaySend(new)
    BY <1>4, <1>6, <1>8, <1>9, <2>2, <2>3, <2>4 DEF MaySend, OnRecord
  <2>6. MayMove(new)
    BY <1>6, <1>7, <1>9, <2>1, <2>2, <2>3 DEF MayMove, OnRecord, Waits
  <2>7. MayGoOut'
    BY <2>1 DEF MayGoOut
  <2> QED
    BY <1>5, <1>9, <2>1, <2>5, <2>6, <2>7, GraphStep
<1>10. CASE thread.at = "human_escalation"
  <2>1. /\ thread'.at = IF m.action = "override" THEN "wait_for_async_callback" ELSE "finalize"
        /\ thread'.round = thread.round /\ thread'.policy = thread.policy
    BY <1>2, <1>3, <1>10 DEF Resumed
  <2>2. /\ \A e \in after : /\ e.event = "human_decision_recorded" /\ e.round = thread.round
                           /\ after = {e} /\ e.what = m.action
        /\ \E e \in after : TRUE
    BY <1>10 DEF AfterInterrupt, Event
  <2>3. WaitsWith = "escalated_to_human"
    BY <1>10 DEF WaitsWith
  <2> HIDE DEF after
  <2>4. MaySend(new)
    BY <1>4, <1>6, <1>8, <1>10, <2>2, <2>3 DEF MaySend, OnRecord
  <2>5. MayMove(new)
    <3>1. \A e \in saved \cup new : e.round = thread.round =>
            /\ OnRecord(e.event, thread'.at)
            /\ e.event # "counter_offer_dispatched"
      BY <1>6, <1>7, <1>10, <2>1, <2>2, <2>3 DEF OnRecord
    <3>2. thread'.at \in Waits => WaitsWith' = "counter_offer_dispatched"
      BY <2>1 DEF Waits, WaitsWith
    <3> QED
      BY <2>1, <3>1, <3>2 DEF MayMove
  <2>6. MayGoOut'
    <3>1. m.action = "override" => Overridden(thread.round)'
      BY <1>5, <2>1, <2>2 DEF Overridden
    <3> QED
      BY <2>1, <3>1 DEF MayGoOut
  <2> QED
    BY <1>5, <1>10, <2>1, <2>4, <2>5, <2>6, GraphStep
<1> QED
  BY <1>4, <1>9, <1>10 DEF Waits

(* The nodes before the offer go out on a record that does not know of     *)
(* their round, and the guardrail check on one that knows of the draft.    *)
LEMMA NodeKeepsAuditInv ==
  ASSUME AuditInv, TypeOK', Node
  PROVE  AuditInv'
<1> USE DEF At
<1>1. /\ thread \in Thread /\ thread.round \in Nat /\ MaxRounds \in Nat \ {0}
      /\ DOMAIN thread = {"at", "category", "policy", "left", "target", "counter", "round",
                          "payload", "reason", "said", "outcome"}
  BY RoundsAssumption DEF AuditInv, TypeOK, Thread
<1>2. \A e \in saved : e.round = thread.round =>
        /\ OnRecord(e.event, thread.at)
        /\ thread.at \in Waits /\ e.event = WaitsWith => e \in BeforeInterrupt
  <2>1. thread.at # "none"
    BY DEF Node, AnalyzeTarget, EvaluateAmbiguousTerms, ComputeCounterOffer, PolicyGuardrailCheck,
           Interrupts, Answered, Waits, EvaluateResponse, TimeoutHandler, Finalize
  <2> QED
    BY <2>1 DEF AuditInv, RecordInOrder
<1>3. MayGoOut
  BY DEF AuditInv
<1>4. CASE AnalyzeTarget
  <2>1. /\ thread'.at \in {"finalize", "evaluate_ambiguous_terms", "compute_counter_offer"}
        /\ thread'.round = thread.round /\ thread'.policy = thread.policy
        /\ thread.at = "analyze_target" /\ UNCHANGED topic
    BY <1>1, <1>4 DEF AnalyzeTarget
  <2>2. MaySend({}) /\ MayMove({})
    BY <1>2, <2>1 DEF MaySend, MayMove, OnRecord, Waits, OwnRecord
  <2>3. MayGoOut'
    BY <1>3, <2>1 DEF MayGoOut
  <2> QED
    BY <2>1, <2>2, <2>3, GraphStep DEF topic
<1>5. CASE EvaluateAmbiguousTerms
  <2>1. /\ thread'.at = "finalize" /\ thread'.round = thread.round /\ thread'.policy = thread.policy
        /\ thread.at = "evaluate_ambiguous_terms" /\ UNCHANGED topic
    BY <1>1, <1>5 DEF EvaluateAmbiguousTerms
  <2>2. MaySend({}) /\ MayMove({})
    BY <1>2, <2>1 DEF MaySend, MayMove, OnRecord, Waits, OwnRecord
  <2>3. MayGoOut'
    BY <2>1 DEF MayGoOut
  <2> QED
    BY <2>1, <2>2, <2>3, GraphStep DEF topic
<1>6. CASE ComputeCounterOffer
  <2> DEFINE new == DraftRecord
  <2>1. /\ thread'.at = "policy_guardrail_check"
        /\ thread'.round = thread.round /\ thread'.policy = thread.policy
        /\ thread.at = "compute_counter_offer" /\ audit' = audit \cup new /\ saved' = saved \cup new
    BY <1>1, <1>6 DEF ComputeCounterOffer, Emit
  <2>2. /\ \A e \in new : e.event = "counter_offer_drafted" /\ e.round = thread.round /\ new = {e}
        /\ OwnRecord = new
    BY <2>1 DEF Event, DraftRecord, OwnRecord, Waits
  <2> HIDE DEF new
  <2>3. MaySend(new) /\ MayMove(new)
    BY <1>2, <2>1, <2>2 DEF MaySend, MayMove, OnRecord, Waits
  <2>4. MayGoOut'
    BY <1>3, <2>1 DEF MayGoOut
  <2> QED
    BY <2>1, <2>3, <2>4, GraphStep
<1>7. CASE PolicyGuardrailCheck
  <2> DEFINE new == BlockRecord
  <2>1. /\ thread'.at \in Waits
        /\ thread'.at = "wait_for_async_callback" => Validates(thread.counter, thread.policy)
        /\ thread'.round = thread.round /\ thread'.policy = thread.policy
        /\ thread'.counter = thread.counter
        /\ thread.at = "policy_guardrail_check" /\ audit' = audit \cup new /\ saved' = saved \cup new
    BY <1>1, <1>7 DEF PolicyGuardrailCheck, Emit, Waits, Blocked
  <2>2. /\ \A e \in new : e.event = "policy_violation_blocked" /\ e.round = thread.round /\ new = {e}
        /\ OwnRecord = new
    BY <2>1 DEF Event, BlockRecord, OwnRecord, Waits
  <2> HIDE DEF new
  <2>3. MaySend(new)
    BY <1>2, <2>1, <2>2 DEF MaySend, OnRecord
  <2>4. MayMove(new)
    BY <1>2, <2>1, <2>2 DEF MayMove, OnRecord, Waits, WaitsWith
  <2>5. MayGoOut'
    BY <1>3, <2>1 DEF MayGoOut, Waits
  <2> QED
    BY <2>1, <2>3, <2>4, <2>5, GraphStep DEF Waits
<1>8. CASE Interrupts
  <2>1. /\ thread' = thread /\ thread.at \in Waits /\ audit' = audit \cup BeforeInterrupt
        /\ saved' = saved \cup BeforeInterrupt
    BY <1>8 DEF Interrupts, Emit
  <2>2. \A e \in BeforeInterrupt :
          /\ e.event = WaitsWith /\ e.round = thread.round /\ BeforeInterrupt = {e}
          /\ e.counter = thread.counter /\ e.event # "resume_failed"
    BY DEF BeforeInterrupt, WaitsWith, Event
  <2>3. MaySend(BeforeInterrupt)
    <3>1. WaitsWith = "counter_offer_dispatched" =>
            Overridden(thread.round) \/ (Validates(thread.counter, thread.policy) /\ thread.round < MaxRounds)
      BY <1>3 DEF MayGoOut, WaitsWith
    <3>2. \A e \in BeforeInterrupt : e.event = "counter_offer_dispatched" =>
            Overridden(thread.round) \/ (Validates(e.counter, thread.policy) /\ thread.round < MaxRounds)
      BY <2>2, <3>1
    <3>3. OwnRecord = BeforeInterrupt /\ \A e, f \in BeforeInterrupt : e = f
      BY <2>1 DEF OwnRecord, Waits, BeforeInterrupt, Event
    <3> QED
      BY <2>1, <2>2, <3>2, <3>3 DEF MaySend
  <2>4. MayMove(BeforeInterrupt)
    <3>1. WaitsWith' = WaitsWith /\ BeforeInterrupt' = BeforeInterrupt
      BY <2>1 DEF WaitsWith, BeforeInterrupt, Event
    <3>2. OnRecord(WaitsWith, thread.at)
      BY <2>1 DEF WaitsWith, OnRecord, Waits
    <3> HIDE DEF BeforeInterrupt, WaitsWith
    <3> QED
      BY <1>2, <2>1, <2>2, <3>1, <3>2 DEF MayMove
  <2>5. MayGoOut'
    BY <1>3, <2>1, OverriddenStays DEF MayGoOut
  <2> QED
    BY <2>1, <2>3, <2>4, <2>5, GraphStep DEF Waits
<1>9. CASE EvaluateResponse
  <2> DEFINE m == thread.payload
             t == Evaluated(m)
             to == RouteFromEvaluateResponse(t, t.payload)
  <2>1. m \in Messages /\ TypeOK
    BY <1>1 DEF Thread, AuditInv
  <2>2. t \in Thread /\ t.round = thread.round + 1 /\ t.policy = thread.policy
    BY <1>1, <2>1, EvaluatedTyped DEF Evaluated
  <2>3. /\ to \in {"finalize", "human_escalation", "compute_counter_offer", "analyze_target"}
        /\ to \in {"compute_counter_offer", "analyze_target"} => t.round < MaxRounds
    BY <1>1, <2>2 DEF RouteFromEvaluateResponse
  <2>4. thread' = [t EXCEPT !.at = to] /\ UNCHANGED topic /\ thread.at = "evaluate_response"
    BY <1>9 DEF EvaluateResponse
  <2> HIDE DEF t, to, m
  <2>5. thread'.at = to /\ thread'.round = thread.round + 1 /\ thread'.policy = thread.policy
    BY <2>2, <2>4 DEF Thread
  <2>6. MaySend({}) /\ MayMove({})
    BY <2>4, <2>5 DEF MaySend, MayMove, OwnRecord, Waits
  <2>7. MayGoOut'
    BY <2>2, <2>3, <2>5 DEF MayGoOut
  <2> QED
    BY <2>3, <2>4, <2>5, <2>6, <2>7, GraphStep DEF topic
<1>10. CASE TimeoutHandler
  <2>1. /\ thread'.at = "finalize" /\ thread'.round = thread.round /\ thread'.policy = thread.policy
        /\ thread.at = "timeout_handler" /\ UNCHANGED topic
    BY <1>1, <1>10 DEF TimeoutHandler
  <2>2. MaySend({}) /\ MayMove({})
    BY <1>2, <2>1 DEF MaySend, MayMove, OnRecord, Waits, OwnRecord
  <2>3. MayGoOut'
    BY <2>1 DEF MayGoOut
  <2> QED
    BY <2>1, <2>2, <2>3, GraphStep DEF topic
<1>11. CASE Finalize
  <2> DEFINE new == OutcomeRecord
  <2>1. /\ thread'.at = "end" /\ thread'.round = thread.round /\ thread'.policy = thread.policy
        /\ thread.at = "finalize" /\ audit' = audit \cup new /\ saved' = saved \cup new
    BY <1>1, <1>11 DEF Finalize, Emit
  <2>2. /\ \A e \in new : e.event = "outcome_received" /\ e.round = thread.round /\ new = {e}
        /\ OwnRecord = new
    BY <2>1 DEF Event, OutcomeRecord, OwnRecord, Waits
  <2> HIDE DEF new
  <2>3. MaySend(new) /\ MayMove(new)
    BY <1>2, <2>1, <2>2 DEF MaySend, MayMove, OnRecord, Waits
  <2>4. MayGoOut'
    BY <2>1 DEF MayGoOut
  <2> QED
    BY <2>1, <2>3, <2>4, GraphStep
<1>12. CASE Answered
  BY <1>12, AnsweredKeepsAuditInv
<1> QED
  BY <1>4, <1>5, <1>6, <1>7, <1>8, <1>9, <1>10, <1>11, <1>12 DEF Node

LEMMA InitAuditInv == Init => AuditInv
<1> SUFFICES ASSUME Init PROVE AuditInv
  OBVIOUS
<1>1. TypeOK
  <2>1. <<>> \in Seq(Messages) /\ Idle \in Page
    BY DEF Idle, Page
  <2> QED
    BY <2>1, NoThreadTyped DEF Init, TypeOK
<1>2. thread.at = "none" /\ audit = {} /\ saved = {} /\ run = "none"
  BY DEF Init, NoThread
<1> QED
  BY <1>1, <1>2 DEF AuditInv, RecordInOrder, RecordStartsEmpty, MayGoOut, KeysTellEventsApart,
                    RoundsAreBounded, OnlyOverridesPass

(* A run has a thread. *)
LEMMA NoRunWithoutThread == ASSUME AuditInv PROVE thread.at = "none" => run = "none"
BY DEF AuditInv, RecordStartsEmpty

LEMMA AuditInvStep == ASSUME AuditInv, [Next]_vars PROVE AuditInv'
<1>1. TypeOK /\ TypeOK'
  BY TypeStep DEF AuditInv
<1>2. CASE UNCHANGED vars
  BY <1>1, <1>2, QuietStep, NoRunWithoutThread DEF vars, topic
<1>3. CASE Negotiate
  <2>1. thread = NoThread /\ ~lost /\ audit' = audit /\ saved' = saved
    BY <1>3 DEF Negotiate, topic
  <2>2. audit = {} /\ saved = {}
    BY <2>1 DEF AuditInv, RecordStartsEmpty, RecordInOrder, NoThread
  <2>3. thread'.at = "analyze_target" /\ thread'.round = 0
    BY <1>3 DEF Negotiate, NoThread
  <2>4. MayGoOut'
    BY <2>3, RoundsAssumption DEF MayGoOut
  <2> QED
    BY <1>1, <2>1, <2>2, <2>3, <2>4
       DEF AuditInv, RecordInOrder, RecordStartsEmpty, KeysTellEventsApart, RoundsAreBounded, OnlyOverridesPass
<1>4. CASE Node
  BY <1>1, <1>4, NodeKeepsAuditInv
<1>5. CASE Resume
  BY <1>1, <1>5, QuietStep DEF Resume, topic
<1>6. CASE ForeignMessage
  BY <1>1, <1>6, QuietStep, NoRunWithoutThread DEF ForeignMessage, Publish, topic
<1>7. CASE ListenerEnds
  BY <1>1, <1>7, QuietStep, NoRunWithoutThread DEF ListenerEnds, topic
<1>8. CASE Restart
  <2>1. CASE run = "none" /\ Durable
    BY <1>1, <1>8, <2>1, QuietStep DEF Restart
  <2>2. CASE run # "none" /\ Durable
    <3>1. PICK sent \in SentByNow : audit' = audit \cup sent \cup {}
      BY <1>8, <2>2 DEF Restart
    <3>2. thread.at # "none" /\ thread' = thread /\ saved' = saved
      BY <1>8, <2>2, NoRunWithoutThread DEF Restart
    <3> QED
      BY <1>1, <3>1, <3>2, FailureKeepsAuditInv
  <2>3. CASE ~Durable
    <3>1. thread'.at = "none" /\ saved' = saved /\ lost' /\ run' = "none"
      BY <1>8, <2>3 DEF Restart, NoThread
    <3>2. KeysTellEventsApart' /\ RoundsAreBounded' /\ audit \subseteq audit'
      <4>1. CASE run = "none"
        <5>1. audit' = audit
          BY <1>8, <4>1 DEF Restart
        <5> QED
          BY <3>1, <5>1 DEF AuditInv, KeysTellEventsApart, RoundsAreBounded, Overridden
      <4>2. CASE run # "none"
        <5>1. PICK sent \in SentByNow : audit' = audit \cup sent \cup {}
          BY <1>8, <4>2 DEF Restart
        <5> QED
          BY <3>1, <4>2, <5>1, NoRunWithoutThread, FailedSendFits
      <4> QED
        BY <4>1, <4>2
    <3>3. RecordInOrder'
      BY <3>1, <3>2 DEF AuditInv, RecordInOrder
    <3> QED
      BY <1>1, <2>3, <3>1, <3>2, <3>3 DEF AuditInv, RecordStartsEmpty, MayGoOut
  <2> QED
    BY <2>1, <2>2, <2>3
<1>9. CASE AsksSupplier
  BY <1>1, <1>9, QuietStep, NoRunWithoutThread DEF AsksSupplier, PageStep, topic
<1>10. CASE SupplierAnswers
  BY <1>1, <1>10, QuietStep, NoRunWithoutThread DEF SupplierAnswers, PageStep, Publish, topic
<1>11. CASE TurnRecorded
  BY <1>1, <1>11, QuietStep, NoRunWithoutThread DEF TurnRecorded, PageStep, topic
<1>12. CASE GivesUp
  BY <1>1, <1>12, QuietStep, NoRunWithoutThread DEF GivesUp, PageStep, topic
<1>13. CASE RunFails
  <2>1. PICK sent \in SentByNow :
          audit' = audit \cup sent \cup (IF run = "resume" THEN FailureRecord ELSE {})
    BY <1>13 DEF RunFails
  <2>2. thread.at # "none" /\ thread' = thread /\ saved' = saved
    BY <1>13, NoRunWithoutThread DEF RunFails
  <2> QED
    BY <1>1, <2>1, <2>2, FailureKeepsAuditInv
<1> QED
  BY <1>2, <1>3, <1>4, <1>5, <1>6, <1>7, <1>8, <1>9, <1>10, <1>11, <1>12, <1>13 DEF Next

(* Whoever sends which message when, and wherever the engine dies: what    *)
(* the audit topic holds fits the node the graph has come to.              *)
THEOREM AuditInvariant == Spec => []AuditInv
<1> QED
  BY InitAuditInv, AuditInvStep, PTL DEF Spec

(* Every variable keeps to its type. *)
THEOREM NegotiationTypes == Spec => []TypeOK
<1>1. AuditInv => TypeOK
  BY DEF AuditInv
<1> QED
  BY <1>1, AuditInvariant, PTL

(* A node that runs twice sends under the keys of its first time, and what *)
(* it sends before an interrupt, or without one, is the same event: for    *)
(* these no key is ever used for two, wherever runs and engine fail after  *)
(* the event is out.  An answer may differ from an earlier one of its key  *)
(* whose checkpoint was not written (nodes.py; broker.py, resume_graph).   *)
THEOREM KeysAreUnique == Spec => []KeysTellEventsApart
<1>1. AuditInv => KeysTellEventsApart
  BY DEF AuditInv
<1> QED
  BY <1>1, AuditInvariant, PTL

(* An offer of a round past the ceiling was released by an approver in     *)
(* that round.                                                             *)
THEOREM RoundsAreBoundedAlways == Spec => []RoundsAreBounded
<1>1. AuditInv => RoundsAreBounded
  BY DEF AuditInv
<1> QED
  BY <1>1, AuditInvariant, PTL

(* An offer that the guardrails block goes to a supplier only if an        *)
(* approver overrode them in that round; with checkpoints in memory, as    *)
(* long as the engine has the thread (whose policy tells what is blocked). *)
THEOREM BlockedOffersNeedAnOverride ==
  Spec => [](Durable \/ thread.at # "none" => OnlyOverridesPass)
<1>1. AuditInv => (Durable \/ thread.at # "none" => OnlyOverridesPass)
  BY DEF AuditInv
<1> QED
  BY <1>1, AuditInvariant, PTL
=============================================================================

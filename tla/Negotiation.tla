------------------------------ MODULE Negotiation ------------------------------
(***************************************************************************)
(* One negotiation, identified by its transaction: the graph of the        *)
(* negotiation engine (services/negotiation_engine/src), the Redis channel *)
(* whose listener resumes it, and the two who start negotiations: the demo *)
(* gateway with its page (services/frontend_demo_gateway, useNegotiation)  *)
(* and any other service through the engine's API.                         *)
(*                                                                         *)
(* Each node of the graph is an action; between two nodes the graph is     *)
(* checkpointed, and the engine may die; a node sends its audit events     *)
(* before its checkpoint is written, and either may fail after that.  A    *)
(* run goes on until a node waits for a message or the graph ends.         *)
(* Nothing ties a message to the node that waits or to its round: it       *)
(* resumes whatever waits.                                                 *)
(***************************************************************************)
EXTENDS CounterOffer, Sequences

CONSTANTS
  Rankings,     \* lists of candidates a negotiation may start with
  Session,      \* policies a negotiation may start with
  Prices,       \* prices a supplier may name
  MaxRounds,    \* max_rounds of the request
  Budget,       \* the page's own rounds, max_rounds of the demo session
  Used,         \* categories a negotiation may be in
  Others,       \* messages suppliers and approvers other than the page may send
  MaxForeign,   \* bound: how many of them
  MaxPending,   \* bound: messages in the channel when they send one
  MaxFaults,    \* bound: restarts of the engine, and runs that raise
  Durable       \* checkpoints in Postgres, not in memory

ASSUME UsedAssumption == Used \subseteq Categories /\ Session \subseteq Policies /\ Session # {}

ASSUME RoundsAssumption == MaxRounds \in Nat \ {0} /\ Budget \in Nat \ {0} /\ Durable \in BOOLEAN

VARIABLES
  origin,     \* "gateway" or "api": who started the negotiation
  thread,     \* checkpoint of the graph
  run,        \* the run of the graph, by what began it
  given,      \* what the interrupt of this run is going to return
  audit,      \* audit events on the topic, with what their key stands for
  saved,      \* history: those whose node had its checkpoint written
  channel,    \* messages the listener has not taken
  listener,   \* TRUE while it runs
  lost,       \* history: TRUE once a message, a checkpoint or a run was lost
  session,    \* the gateway's session: rounds, last supplier price, agreed
  page,       \* the page's call
  foreign,    \* messages of others so far
  faults

topic == <<audit, saved>>
vars == <<origin, thread, run, given, topic, channel, listener, lost, session, page, foreign, faults>>

Statuses == {"accepted", "counter", "rejected", "timeout", "none"}
Actions == {"accept", "counter", "reject", "override", "none"}

(* wide: gap_pct exceeds hitl_gap_pct. *)
Messages == [status : Statuses, action : Actions, price : Nat, wide : BOOLEAN]

Outcomes == {"none", "accepted", "escalated", "timed_out"}

NoTarget == [price |-> 0, history |-> "none", fits |-> FALSE]

NoMessage == [status |-> "none", action |-> "none", price |-> 0, wide |-> FALSE]

NoThread == [at |-> "none", category |-> "unknown", policy |-> CHOOSE p \in Session : TRUE,
             left |-> <<>>, target |-> NoTarget, counter |-> NoCounter, round |-> 0,
             payload |-> NoMessage, reason |-> "none", said |-> "none", outcome |-> "none"]

ASSUME InputsAssumption ==
  /\ \A ranking \in Rankings : ranking \in Seq(Offers)
  /\ Prices \subseteq Nat
  /\ Others \subseteq Messages

(* The page's call: its kickoff, its polling, the supplier's model at      *)
(* work, or the model that words the buyer's offer.                        *)
Idle == [pc |-> "idle", ask |-> 0, round |-> 0, closes |-> FALSE]

Nodes == {"analyze_target", "evaluate_ambiguous_terms", "compute_counter_offer",
          "policy_guardrail_check", "human_escalation", "wait_for_async_callback",
          "evaluate_response", "timeout_handler", "finalize"}

Thread == [at : Nodes \cup {"none", "end"}, category : Categories, policy : Policies,
           left : Seq(Offers), target : Targets, counter : Counters, round : Nat,
           payload : Messages, reason : {"none", "guardrail_violation"}, said : Actions,
           outcome : Outcomes]

Page == [pc : {"idle", "starting", "asking", "supplier", "wording", "done"},
         ask : Nat, round : Nat, closes : BOOLEAN]

TypeOK ==
  /\ origin \in {"gateway", "api"}
  /\ thread \in Thread
  /\ run \in {"none", "kickoff", "resume"}
  /\ given \in Seq(Messages)
  /\ listener \in BOOLEAN /\ lost \in BOOLEAN
  /\ channel \in Seq(Messages)
  /\ session \in [rounds : Nat, last : Nat, agreed : BOOLEAN]
  /\ page \in Page
  /\ foreign \in Nat /\ faults \in Nat

Init ==
  /\ origin \in {"gateway", "api"}
  /\ thread = NoThread
  /\ run = "none"
  /\ given = <<>>
  /\ audit = {}
  /\ saved = {}
  /\ channel = <<>>
  /\ listener = TRUE
  /\ lost = FALSE
  /\ session = [rounds |-> 0, last |-> 0, agreed |-> FALSE]
  /\ page = Idle
  /\ foreign = 0
  /\ faults = 0

-----------------------------------------------------------------------------
(* The nodes, each with the router that follows it. *)

(* An audit event: its key is made of its name and round. *)
Event(name, what, counter) == {[event |-> name, round |-> thread.round, what |-> what, counter |-> counter]}

(* A node that gets to its checkpoint has its events out by then.          *)
Emit(events) == audit' = audit \cup events /\ saved' = saved \cup events

EngineStep == UNCHANGED <<origin, given, channel, listener, lost, session, page, foreign, faults>>

At(node) == run # "none" /\ thread.at = node

(* What the gateway's kickoff asks for: one candidate, a budget, caps no   *)
(* tighter than G1, and nothing on lead times and stock.                   *)
Kickoff(ranking, policy) ==
  /\ Len(ranking) = 1 /\ ranking[1].fits
  /\ policy.category_max = AbsoluteMax /\ policy.supplier_max = AbsoluteMax
  /\ policy.budget > 0

(* POST /negotiate *)
Negotiate ==
  /\ thread = NoThread
  /\ ~lost
  /\ \E ranking \in Rankings, category \in Used, policy \in Session :
       /\ origin = "gateway" => Kickoff(ranking, policy)
       /\ thread' = [NoThread EXCEPT !.at = "analyze_target", !.category = category,
                                     !.policy = policy, !.left = ranking]
  /\ run' = "kickoff"
  /\ page' = IF origin = "gateway" THEN [page EXCEPT !.pc = "starting"] ELSE page
  /\ UNCHANGED <<origin, given, topic, channel, listener, lost, session, foreign, faults>>

(* The next candidate; a list that has run out leaves the outcome open.    *)
AnalyzeTarget ==
  /\ At("analyze_target")
  /\ IF thread.left = <<>>
     THEN thread' = [thread EXCEPT !.target = NoTarget, !.at = "finalize"]
     ELSE thread' = [thread EXCEPT !.target = Head(thread.left), !.left = Tail(@),
                                   !.at = IF AdvisoryOnly(thread.category) THEN "evaluate_ambiguous_terms"
                                          ELSE "compute_counter_offer"]
  /\ UNCHANGED <<run, topic>>
  /\ EngineStep

(* An advisory category ends with a recommendation. *)
EvaluateAmbiguousTerms ==
  /\ At("evaluate_ambiguous_terms")
  /\ thread' = [thread EXCEPT !.outcome = "escalated", !.at = "finalize"]
  /\ UNCHANGED <<run, topic>>
  /\ EngineStep

Drafted == Draft(thread.category, thread.target, thread.policy)

DraftRecord == Event("counter_offer_drafted", "none", Drafted)

ComputeCounterOffer ==
  /\ At("compute_counter_offer")
  /\ thread' = [thread EXCEPT !.counter = Drafted, !.at = "policy_guardrail_check"]
  /\ Emit(DraftRecord)
  /\ UNCHANGED run
  /\ EngineStep

Blocked == ~Validates(thread.counter, thread.policy)

BlockRecord == IF Blocked THEN Event("policy_violation_blocked", "none", thread.counter) ELSE {}

(* The router goes by the reason, set here or before. *)
PolicyGuardrailCheck ==
  /\ At("policy_guardrail_check")
  /\ LET reason == IF Blocked THEN "guardrail_violation" ELSE thread.reason
     IN  thread' = [thread EXCEPT !.reason = reason,
                                  !.at = IF reason # "none" THEN "human_escalation"
                                         ELSE "wait_for_async_callback"]
  /\ Emit(BlockRecord)
  /\ UNCHANGED run
  /\ EngineStep

(* The two nodes that wait run up to their interrupt, and when resumed     *)
(* from their first line again.                                            *)
BeforeInterrupt ==
  IF thread.at = "wait_for_async_callback"
  THEN Event("counter_offer_dispatched", "none", thread.counter)
  ELSE Event("escalated_to_human", thread.reason, thread.counter)

Waits == {"wait_for_async_callback", "human_escalation"}

Interrupts ==
  /\ run # "none"
  /\ thread.at \in Waits
  /\ given = <<>>
  /\ run' = "none"
  /\ Emit(BeforeInterrupt)
  /\ UNCHANGED thread
  /\ EngineStep

(* What the interrupt returns is the message of the run. *)

ResumedUnlessRejected(m) ==
  CASE thread.at = "wait_for_async_callback" ->
         [thread EXCEPT !.payload = m,
                        !.at = IF m.status = "timeout" THEN "timeout_handler" ELSE "evaluate_response"]
    [] thread.at = "human_escalation" ->
         [thread EXCEPT !.reason = "none", !.said = m.action,
                        !.at = IF m.action # "reject" THEN "wait_for_async_callback" ELSE "finalize"]
    [] OTHER -> thread

Resumed(m) ==
  CASE thread.at = "wait_for_async_callback" ->
         [thread EXCEPT !.payload = m,
                        !.at = IF m.status = "timeout" THEN "timeout_handler" ELSE "evaluate_response"]
    [] thread.at = "human_escalation" ->
         (* an override sends the very offer that was held back *)
         [thread EXCEPT !.reason = "none", !.said = m.action,
                        !.at = IF m.action = "override" THEN "wait_for_async_callback" ELSE "finalize"]
    [] OTHER -> thread

AfterInterrupt(m) ==
  IF thread.at = "wait_for_async_callback"
  THEN Event("on_select_received", m.status, thread.counter)
  ELSE Event("human_decision_recorded", m.action, thread.counter)

Answered ==
  /\ run # "none"
  /\ thread.at \in Waits
  /\ given # <<>>
  /\ thread' = Resumed(Head(given))
  /\ Emit(BeforeInterrupt \cup AfterInterrupt(Head(given)))
  /\ given' = <<>>
  /\ UNCHANGED <<origin, run, channel, listener, lost, session, page, foreign, faults>>

SameRound(m) ==
  [thread EXCEPT !.outcome = IF m.status = "accepted" THEN "accepted" ELSE @,
                 !.target.price = IF m.status \in {"counter", "none"} /\ m.price > 0 THEN m.price ELSE @]

(* evaluate_response: a message without a status is a counter here. *)
Evaluated(m) ==
  [thread EXCEPT !.round = @ + 1,
                 !.outcome = IF m.status = "accepted" THEN "accepted" ELSE @,
                 !.target.price = IF m.status \in {"counter", "none"} /\ m.price > 0 THEN m.price ELSE @]

AnotherRound(t, m) ==
  IF m.wide THEN "human_escalation" ELSE IF m.status = "counter" THEN "compute_counter_offer" ELSE "analyze_target"

(* _route_from_evaluate_response: the same message without a status is a   *)
(* rejection here, which moves on to the next candidate.                   *)
RouteFromEvaluateResponse(t, m) ==
  IF t.outcome = "accepted" THEN "finalize"
  ELSE IF m.wide \/ t.round >= MaxRounds THEN "human_escalation"
  ELSE IF m.status = "counter" THEN "compute_counter_offer" ELSE "analyze_target"

EvaluateResponse ==
  /\ At("evaluate_response")
  /\ LET t == Evaluated(thread.payload)
     IN  thread' = [t EXCEPT !.at = RouteFromEvaluateResponse(t, t.payload)]
  /\ UNCHANGED <<run, topic>>
  /\ EngineStep

TimeoutHandler ==
  /\ At("timeout_handler")
  /\ thread' = [thread EXCEPT !.outcome = "timed_out", !.at = "finalize"]
  /\ UNCHANGED <<run, topic>>
  /\ EngineStep

(* The outcome is "accepted" unless another one was stamped. *)
Final == IF thread.outcome = "none" THEN "accepted" ELSE thread.outcome

OutcomeRecord == Event("outcome_received", Final, thread.counter)

Finalize ==
  /\ At("finalize")
  /\ thread' = [thread EXCEPT !.outcome = Final, !.at = "end"]
  /\ Emit(OutcomeRecord)
  /\ run' = "none"
  /\ EngineStep

-----------------------------------------------------------------------------
(* OnSelectListener: one message after the other, the next one when the    *)
(* run has ended.  A thread that has ended, or is not there, is left as it *)
(* is, and one whose run died goes on with its node.                       *)
Resume ==
  /\ listener
  /\ run = "none"
  /\ channel # <<>>
  /\ channel' = Tail(channel)
  /\ run' = IF thread.at \in {"none", "end"} THEN "none" ELSE "resume"
  /\ given' = IF thread.at \in Waits THEN <<Head(channel)>> ELSE <<>>
  /\ UNCHANGED <<origin, thread, topic, listener, lost, session, page, foreign, faults>>

(* What the node at hand may have sent when it, or its checkpoint, fails.  *)
SentByNow ==
  CASE thread.at = "compute_counter_offer"  -> {{}, DraftRecord}
    [] thread.at = "policy_guardrail_check" -> {{}, BlockRecord}
    [] thread.at = "finalize"               -> {{}, OutcomeRecord}
    [] thread.at \in Waits ->
         {{}, BeforeInterrupt} \cup
         {BeforeInterrupt \cup AfterInterrupt(given[i]) : i \in DOMAIN given}
    [] OTHER -> {{}}

(* All failures of resuming a thread share one key. *)
FailureRecord == {[event |-> "resume_failed", round |-> 0, what |-> "none", counter |-> NoCounter]}

(* The run raises: resume_graph records that and the message is gone, or   *)
(* POST /negotiate answers 500.  The thread is where it was before.        *)
RunFails ==
  /\ run # "none"
  /\ faults < MaxFaults
  /\ faults' = faults + 1
  /\ \E sent \in SentByNow :
       audit' = audit \cup sent \cup (IF run = "resume" THEN FailureRecord ELSE {})
  /\ run' = "none"
  /\ given' = <<>>
  /\ lost' = TRUE
  /\ page' = IF run = "kickoff" /\ page.pc = "starting" THEN [page EXCEPT !.pc = "done"] ELSE page
  /\ UNCHANGED <<origin, thread, saved, channel, listener, session, foreign>>

(* Redis delivers to who listens now, and keeps nothing. *)
Publish(m) ==
  /\ channel' = IF listener THEN Append(channel, m) ELSE channel
  /\ lost' = (lost \/ ~listener)

(* A supplier's callback, or an approver's decision, for a thread that     *)
(* was started through the API: late, twice, or at the wrong node too.     *)
ForeignMessage ==
  /\ origin = "api"
  /\ thread.at # "none"
  /\ foreign < MaxForeign
  /\ foreign' = foreign + 1
  /\ Len(channel) < MaxPending
  /\ \E m \in Others : Publish(m)
  /\ UNCHANGED <<origin, thread, run, given, topic, listener, session, page, faults>>

(* A Redis error ends the listener, until the process starts again. *)
ListenerEnds ==
  /\ listener
  /\ faults < MaxFaults
  /\ listener' = FALSE
  /\ channel' = <<>>
  /\ lost' = (lost \/ channel # <<>>)
  /\ UNCHANGED <<origin, thread, run, given, topic, session, page, foreign, faults>>

(* A run that dies with the engine is not taken up by the next one, nor is *)
(* what its last node has sent taken back.                                 *)
Restart ==
  /\ faults < MaxFaults
  /\ faults' = faults + 1
  /\ \E sent \in IF run = "none" THEN {{}} ELSE SentByNow : audit' = audit \cup sent
  /\ listener' = TRUE
  /\ channel' = <<>>
  /\ run' = "none"
  /\ given' = <<>>
  /\ thread' = IF Durable THEN thread ELSE NoThread
  /\ lost' = (lost \/ channel # <<>> \/ run # "none" \/ ~Durable)
  /\ page' = IF page.pc = "starting" THEN [page EXCEPT !.pc = "done"] ELSE page
  /\ UNCHANGED <<origin, saved, session, foreign>>

-----------------------------------------------------------------------------
(* The page (useNegotiation) and the endpoints it calls. *)

PageStep == UNCHANGED <<origin, thread, run, given, topic, listener, foreign, faults>>

(* The page polls until the buyer waits for the supplier, or gives up      *)
(* waiting for that; then supplier_respond, up to the supplier's model.    *)
(* What it reads here of engine and session it uses once the model has     *)
(* answered.                                                               *)
AsksSupplier ==
  /\ page.pc = "asking" \/ (page.pc = "starting" /\ run = "none")
  /\ page' = IF thread.outcome # "none" \/ thread = NoThread THEN [page EXCEPT !.pc = "done"]
             ELSE [page EXCEPT !.pc = "supplier", !.ask = thread.counter.price, !.round = session.rounds + 1]
  /\ UNCHANGED <<channel, lost, session>>
  /\ PageStep

(* A counter that does not improve on the one before is stepped down.      *)
Conceded(price) ==
  IF session.last > 0 /\ price >= session.last
  THEN Greatest(page.ask, session.last - ((session.last - page.ask) * 4) \div 10)
  ELSE price

(* The page's rounds end with a deal: in the last one the buyer takes      *)
(* whatever the supplier said.                                             *)
Closes(action) == action = "accept" \/ page.round >= Budget

(* The message that goes to the engine; a refusal is sent on as a counter  *)
(* at the list price.                                                      *)
ReplyInAction(action, named) ==
  [status |-> action, action |-> action, price |-> named, wide |-> FALSE]

Reply(action, named) ==
  [status |-> IF Closes(action) THEN "accepted" ELSE "counter",
   action |-> action, price |-> named, wide |-> FALSE]

(* What the supplier's model may say; any other word is a counter, and a   *)
(* rule answers when the model does not.                                   *)
SupplierActions == {"accept", "counter", "reject"}

SupplierAnswers ==
  /\ page.pc = "supplier"
  /\ \E action \in SupplierActions, price \in Prices :
       LET named == CASE action = "accept"  -> page.ask
                      [] action = "counter" -> Conceded(price)
                      [] action = "reject"  -> price
       IN  /\ Publish(Reply(action, named))
           /\ session' = [rounds |-> page.round,
                          last   |-> IF action = "reject" THEN session.last ELSE named,
                          agreed |-> session.agreed \/ Closes(action)]
           /\ page' = [page EXCEPT !.pc = "wording", !.closes = Closes(action)]
  /\ PageStep

(* The buyer's offer is worded and the turn recorded; the page goes on     *)
(* polling, and may find the thread as it was before its answer.           *)
TurnRecorded ==
  /\ page.pc = "wording"
  /\ page' = [page EXCEPT !.pc = IF page.closes THEN "done" ELSE "asking"]
  /\ UNCHANGED <<channel, lost, session>>
  /\ PageStep

(* A call of the page fails (no thread, Redis or engine down, a model too  *)
(* slow): it gives up, and the orchestrator orders at the quoted price.    *)
GivesUp ==
  /\ page.pc \in {"starting", "asking", "supplier"}
  /\ page' = [page EXCEPT !.pc = "done"]
  /\ UNCHANGED <<channel, lost, session>>
  /\ PageStep

Node ==
  \/ AnalyzeTarget
  \/ EvaluateAmbiguousTerms
  \/ ComputeCounterOffer
  \/ PolicyGuardrailCheck
  \/ Interrupts
  \/ Answered
  \/ EvaluateResponse
  \/ TimeoutHandler
  \/ Finalize

Next ==
  \/ Negotiate
  \/ Node
  \/ Resume
  \/ RunFails
  \/ ForeignMessage
  \/ ListenerEnds
  \/ Restart
  \/ AsksSupplier
  \/ SupplierAnswers
  \/ TurnRecorded
  \/ GivesUp

Spec == Init /\ [][Next]_vars

(* The engine takes its messages, and the page and the models go on.       *)
Fairness == WF_vars(Node) /\ WF_vars(Resume) /\ WF_vars(AsksSupplier \/ SupplierAnswers \/ TurnRecorded)

FairSpec == Spec /\ Fairness

-----------------------------------------------------------------------------
(* Audit events are deduplicated by a key made of name and round; an       *)
(* outcome has one for the whole negotiation.                              *)
Key(e) == IF e.event = "outcome_received" THEN <<e.event>> ELSE <<e.event, e.round>>

(* What a node sends once its interrupt has returned. *)
Answers == {"on_select_received", "human_decision_recorded"}

(* A node that runs again, since its interrupt returns or its checkpoint   *)
(* was not written, sends under the same keys as before.  It never sends   *)
(* anything else under them, so that deduplication drops only what is      *)
(* there already, whatever suppliers and approvers send and when.  Only an *)
(* answer whose checkpoint was not written may differ from the one that    *)
(* the node takes in its place.                                            *)
KeysTellEventsApart ==
  \A e, f \in audit :
    Key(e) = Key(f) /\ e.event # "resume_failed" =>
      e = f \/ (e.event \in Answers /\ ~({e, f} \subseteq saved))

(* What took an offer past the guardrails is an answer that took effect.   *)
Overridden(round) ==
  \E e \in saved : e.event = "human_decision_recorded" /\ e.round = round /\ e.what = "override"

(* An offer that the guardrails would block is on its way to a supplier    *)
(* only if an approver overrode them in that very round, even though       *)
(* suppliers' messages can resume a graph that waits for an approver.      *)
OnlyOverridesPass ==
  \A e \in audit :
    e.event = "counter_offer_dispatched" =>
      \/ Validates(e.counter, thread.policy)
      \/ Overridden(e.round)

(* Rounds never exceed the ceiling but by the overrides of an approver.    *)
RoundsAreBounded ==
  \A e \in audit : e.event = "counter_offer_dispatched" =>
    \/ e.round < MaxRounds
    \/ Overridden(e.round)

(* Once the page says a deal is closed, the engine closes the negotiation  *)
(* as accepted, in whatever round it is by then, if nothing gets lost.     *)
DealsAreKept ==
  session.agreed ~> lost \/ thread.outcome = "accepted"

(* docs: "hitl_decision.action == reject (abandon)": a negotiation that    *)
(* the approver rejected does not end as accepted.                         *)
RejectedIsNotAccepted == ~(thread.said = "reject" /\ thread.outcome = "accepted")

-----------------------------------------------------------------------------
(* What the properties of the audit rest on. *)

(* The events that a round may have on record while the thread is at a     *)
(* node: those of the nodes that may come before it, and the node's own if *)
(* it waits there.                                                         *)
OnRecord(event, at) ==
  LET held == {"counter_offer_drafted", "policy_violation_blocked", "escalated_to_human"}
      sent == held \cup {"human_decision_recorded", "counter_offer_dispatched"}
  IN  /\ at \notin {"analyze_target", "evaluate_ambiguous_terms", "compute_counter_offer"}
      /\ at = "policy_guardrail_check" => event = "counter_offer_drafted"
      /\ at = "human_escalation" => event \in held
      /\ at = "wait_for_async_callback" => event \in sent
      /\ at \in {"evaluate_response", "timeout_handler", "finalize"} =>
           event \in sent \cup {"on_select_received"}

(* What a node sends before it waits: it will send the same again, for     *)
(* neither the offer nor the reason changes under it.                      *)
WaitsWith == IF thread.at = "wait_for_async_callback" THEN "counter_offer_dispatched"
                                                      ELSE "escalated_to_human"

(* What the node at hand sends without an answer.                          *)
OwnRecord ==
  CASE thread.at = "compute_counter_offer"  -> DraftRecord
    [] thread.at = "policy_guardrail_check" -> BlockRecord
    [] thread.at = "finalize"               -> OutcomeRecord
    [] thread.at \in Waits                  -> BeforeInterrupt
    [] OTHER -> {}

(* The record whose checkpoints were written has come to this node, and    *)
(* what was sent without one is what this node is going to send, or an     *)
(* answer to one of the nodes that wait.                                   *)
RecordInOrder ==
  /\ saved \subseteq audit
  /\ thread.at # "none" =>
       \A e \in audit :
         /\ e.round \in Nat /\ e.round <= thread.round
         /\ e.event = "outcome_received" => e.round = thread.round
         /\ e \in saved /\ e.round = thread.round =>
              /\ OnRecord(e.event, thread.at)
              /\ thread.at \in Waits /\ e.event = WaitsWith => e \in BeforeInterrupt
         /\ e \in saved \/ e \in OwnRecord \/ e.event \in Answers \cup {"resume_failed"}

(* A negotiation starts on an empty record, and only an engine that keeps  *)
(* its checkpoints in memory forgets the thread of a record.               *)
RecordStartsEmpty ==
  thread.at = "none" => /\ run = "none"
                        /\ Durable \/ ~lost => audit = {}

(* What waits for the supplier passed the guardrails, or the approver; and *)
(* a round that is not escalated is one of those that were asked for.      *)
MayGoOut ==
  /\ thread.at = "wait_for_async_callback" =>
       \/ Overridden(thread.round)
       \/ Validates(thread.counter, thread.policy) /\ thread.round < MaxRounds
  /\ thread.at \in {"analyze_target", "evaluate_ambiguous_terms", "compute_counter_offer",
                   "policy_guardrail_check"} => thread.round < MaxRounds

AuditInv ==
  /\ TypeOK
  /\ RecordInOrder
  /\ RecordStartsEmpty
  /\ MayGoOut
  /\ KeysTellEventsApart
  /\ RoundsAreBounded
  /\ Durable \/ thread.at # "none" => OnlyOverridesPass
=============================================================================

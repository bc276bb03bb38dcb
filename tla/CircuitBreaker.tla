---------------------------- MODULE CircuitBreaker ----------------------------
(***************************************************************************)
(* breaker_call (services/erp-adapter/src/resilience/breaker.py): one      *)
(* vendor's circuit breaker, shared by every coroutine of the process that *)
(* calls the vendor.  The breaker itself is pybreaker, driven from outside: *)
(* a call asks it before the request (the gate) and tells it afterwards,   *)
(* and other calls run in between.                                         *)
(*                                                                         *)
(* pybreaker's half-open state lasts only inside one of its synchronous    *)
(* calls, so none of its clients ever meets it: a rest state is closed or  *)
(* open, and `cooling` says that reset_timeout still runs.                 *)
(***************************************************************************)
EXTENDS Naturals

CONSTANTS
  Calls,     \* coroutines that call the vendor
  FailMax    \* fail_max

ASSUME FailMaxAssumption == FailMax \in Nat \ {0}

VARIABLES
  circuit,   \* the breaker's state, failure counter and timeout
  call,      \* call[c]: where coroutine c is, or how its last call ended
  streak     \* history: vendor failures since the vendor's last success

breakerVars == <<circuit, call, streak>>

Circuit == [state : {"closed", "open"}, fails : Nat, cooling : BOOLEAN]
CallState == {"idle", "running", "rejected", "ok", "failed", "permanent", "cancelled"}

Closed == [state |-> "closed", fails |-> 0, cooling |-> FALSE]
Opened == [state |-> "open", fails |-> 0, cooling |-> TRUE]

BreakerTypeOK ==
  /\ circuit \in Circuit
  /\ call \in [Calls -> CallState]
  /\ streak \in Nat

BreakerInit ==
  /\ circuit = Closed
  /\ call = [c \in Calls |-> "idle"]
  /\ streak = 0

-----------------------------------------------------------------------------
(* pybreaker.call(f), for an f that returns and an f that raises. *)

(* Open and within reset_timeout: raises CircuitBreakerError, f not called. *)
Blocks(cb) == cb.state = "open" /\ cb.cooling

(* Closed: the counter is reset.  Open and past reset_timeout: half-open,  *)
(* then closed with its counter at 0, in the same call.                    *)
NotedSuccessAnyTime(cb) == Closed

NotedSuccess(cb) == IF Blocks(cb) THEN cb ELSE Closed

(* Closed: counted, and open at fail_max.  Open and past reset_timeout:    *)
(* half-open, then open again, and the timeout starts over.                *)
NotedFailureEager(cb) == Opened

NotedFailure(cb) ==
  CASE Blocks(cb)                               -> cb
    [] ~Blocks(cb) /\ cb.state = "open"          -> Opened
    [] cb.state = "closed" /\ cb.fails + 1 >= FailMax -> Opened
    [] cb.state = "closed" /\ cb.fails + 1 < FailMax  -> [cb EXCEPT !.fails = @ + 1]

-----------------------------------------------------------------------------
(* breaker_call. *)

AdmitsOnlyClosed(cb) == cb.state = "closed"

(* The gate asks pybreaker only when it is open, with a call that does     *)
(* nothing and returns.                                                    *)
Admits(cb) == ~Blocks(cb)

Gated(cb) == IF cb.state = "open" THEN NotedSuccess(cb) ELSE cb

Begin(c) ==
  /\ call[c] # "running"
  /\ Admits(circuit)
  /\ circuit' = Gated(circuit)
  /\ call' = [call EXCEPT ![c] = "running"]
  /\ UNCHANGED streak

(* CircuitOpenError *)
Reject(c) ==
  /\ call[c] # "running"
  /\ ~Admits(circuit)
  /\ call' = [call EXCEPT ![c] = "rejected"]
  /\ UNCHANGED <<circuit, streak>>

Ends(c, how) == call[c] = "running" /\ call' = [call EXCEPT ![c] = how]

Succeed(c) ==
  /\ Ends(c, "ok")
  /\ circuit' = NotedSuccess(circuit)
  /\ streak' = 0

Fail(c) ==
  /\ Ends(c, "failed")
  /\ circuit' = NotedFailure(circuit)
  /\ streak' = IF streak < FailMax THEN streak + 1 ELSE FailMax

(* VendorPermanentError is excluded, and cancellation is no Exception:     *)
(* pybreaker hears of neither.                                             *)
EndUnnoticed(c) ==
  /\ Ends(c, "permanent") \/ Ends(c, "cancelled")
  /\ UNCHANGED <<circuit, streak>>

(* reset_timeout has passed since the circuit opened. *)
TimeoutElapses ==
  /\ Blocks(circuit)
  /\ circuit' = [circuit EXCEPT !.cooling = FALSE]
  /\ UNCHANGED <<call, streak>>

BreakerNext ==
  \/ \E c \in Calls : Begin(c)
  \/ \E c \in Calls : Reject(c)
  \/ \E c \in Calls : Succeed(c)
  \/ \E c \in Calls : Fail(c)
  \/ \E c \in Calls : EndUnnoticed(c)
  \/ TimeoutElapses

BreakerSpec == BreakerInit /\ [][BreakerNext]_breakerVars

(* Time passes, a request ends (aiohttp bounds it), and somebody goes on   *)
(* calling the vendor: the outbox retries what it has.                     *)
BreakerFairness ==
  /\ WF_breakerVars(TimeoutElapses)
  /\ WF_breakerVars(\E c \in Calls : Begin(c))
  /\ \A c \in Calls : WF_breakerVars(Succeed(c) \/ Fail(c) \/ EndUnnoticed(c))

BreakerFairSpec == BreakerSpec /\ BreakerFairness

-----------------------------------------------------------------------------
(* Properties. *)

(* While reset_timeout runs no new request reaches the vendor, and nothing *)
(* that comes back from requests sent before the circuit opened closes it  *)
(* or restarts its timeout: the late answers of breaker_call's last lines. *)
OutageIsShielded ==
  [][Blocks(circuit) =>
       /\ circuit' \in {circuit, [circuit EXCEPT !.cooling = FALSE]}
       /\ \A c \in Calls : call'[c] = "running" => call[c] = "running"]_breakerVars

(* The circuit opens on fail_max failures of the vendor with no success of *)
(* the vendor between them: what the gate notes is not counted for one,    *)
(* nor are bad requests, whatever order concurrent answers come in.        *)
TripsOnStreak ==
  [][circuit.state = "closed" /\ circuit'.state = "open" => streak' >= FailMax]_breakerVars

(* The counter never runs ahead of the vendor's own failures. *)
CountsFailures ==
  /\ circuit.fails <= streak
  /\ circuit.state = "closed" => circuit.fails < FailMax

(* A vendor that is well again is called again: once every request that    *)
(* ends is answered, the circuit closes and no answer or rejection still   *)
(* under way from the outage opens it any more.                            *)
RecoversWithVendor ==
  <>[][\A c \in Calls : ~Fail(c) /\ ~EndUnnoticed(c)]_breakerVars
    => <>[](circuit.state = "closed")

(* What breaker.py says of its states: "one probe call allowed; success    *)
(* closes, failure re-opens".  An open circuit would be closed by a call   *)
(* that the vendor answered.                                               *)
ProbeDecides ==
  [][circuit.state = "open" /\ circuit'.state = "closed"
       => \E c \in Calls : call[c] = "running" /\ call'[c] = "ok"]_breakerVars
=============================================================================

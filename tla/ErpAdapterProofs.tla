-------------------------- MODULE ErpAdapterProofs ---------------------------
(***************************************************************************)
(* Theorems about the ERP adapter: about its outbox, for any set of keys   *)
(* and replicas, any number of attempts, any batch size and any number of  *)
(* faults and replays; and about the circuit breaker through which its     *)
(* worker's pushes go, for any number of concurrent calls and any fail_max. *)
(***************************************************************************)
EXTENDS ErpOutbox, CircuitBreaker, TLAPS

USE DEF NoRef

-----------------------------------------------------------------------------
(* The statements of the repository, row by row. *)

(* Every statement leaves a well-formed row. *)
LEMMA RowOperations ==
  ASSUME NEW r \in Row, NEW n \in Nat
  PROVE  /\ InsertPending(r) \in Row
         /\ Claim(r) \in Row
         /\ MarkSuccess(r, n) \in Row
         /\ Reschedule(r) \in Row
         /\ MarkDead(r) \in Row
         /\ UpdateInboundState(r, n) \in Row
         /\ Replay(r) \in Row
<1>1. r \in [status : Status, attempts : Nat, due : BOOLEAN, lease : LeaseState, ref : Nat]
  BY DEF Row
<1>2. r.attempts + 1 \in Nat
  BY <1>1
<1> QED
  BY <1>1, <1>2 DEF Row, Status, LeaseState, InsertPending, Absent, Claim, MarkSuccess,
       Reschedule, MarkDead, UpdateInboundState, Replay

(* The lease and the status of a row. *)
Leased(r) == r.lease # "null" <=> r.status = "in_progress"

(* Every statement keeps the lease and the status together. *)
LEMMA RowLeases ==
  ASSUME NEW r \in Row, NEW n \in Nat, Leased(r)
  PROVE  /\ Leased(InsertPending(r))
         /\ Leased(Claim(r))
         /\ Leased(MarkSuccess(r, n))
         /\ Leased(Reschedule(r))
         /\ Leased(MarkDead(r))
         /\ Leased(UpdateInboundState(r, n))
         /\ Leased(Replay(r))
BY DEF Row, Leased, InsertPending, Absent, Claim, MarkSuccess,
       Reschedule, MarkDead, UpdateInboundState, Replay

(* What settling a push makes of a row: typed, its lease and status together,*)
(* its number kept or, after an accepted push, the answer's.               *)
LEMMA SettledRow ==
  ASSUME NEW r \in Row, NEW j \in Job, j.outcome # "none"
  PROVE  /\ Settled(r, j) \in Row
         /\ Leased(r) => Leased(Settled(r, j))
         /\ j.outcome = "ok" => /\ Settled(r, j).status = "success"
                                /\ Settled(r, j).ref = j.ref
         /\ j.outcome # "ok" => /\ Settled(r, j).ref = r.ref
                                /\ Settled(r, j).status \in {"pending", "failed"}
                                /\ Settled(r, j).attempts = r.attempts
         /\ Settled(r, j).status = "pending" => ~Exhausted(j.attempt)
<1>1. j.outcome \in {"ok", "transient", "permanent"} /\ j.ref \in Nat
  BY DEF Job, Outcome
<1>2. CASE j.outcome = "ok"
  <2>1. Settled(r, j) = MarkSuccess(r, j.ref)
    BY <1>2 DEF Settled
  <2>2. MarkSuccess(r, j.ref) \in Row /\ (Leased(r) => Leased(MarkSuccess(r, j.ref)))
    BY <1>1, RowOperations, RowLeases
  <2> QED
    BY <1>2, <2>1, <2>2 DEF Row, MarkSuccess
<1>3. CASE j.outcome = "permanent"
  <2>1. Settled(r, j) = MarkDead(r)
    BY <1>3 DEF Settled
  <2> QED
    BY <1>1, <1>3, <2>1, RowOperations, RowLeases DEF Row, MarkDead
<1>4. CASE j.outcome = "transient"
  <2>1. Settled(r, j) = IF Exhausted(j.attempt) THEN MarkDead(r) ELSE Reschedule(r)
    BY <1>4 DEF Settled
  <2> QED
    BY <1>1, <1>4, <2>1, RowOperations, RowLeases DEF Row, MarkDead, Reschedule
<1> QED
  BY <1>1, <1>2, <1>3, <1>4

(* A row whose columns of the clock change is still well-formed. *)
LEMMA RowClock ==
  ASSUME NEW r \in Row
  PROVE  [r EXCEPT !.due = TRUE] \in Row /\ [r EXCEPT !.lease = "expired"] \in Row
BY DEF Row, LeaseState

(* The jobs that the steps of _process make are well-formed. *)
LEMMA JobOperations ==
  /\ NoJob \in Job
  /\ \A n \in Nat : [NoJob EXCEPT !.stage = "pushing", !.attempt = n] \in Job
  /\ \A j \in Job, o \in Outcome, n \in Nat :
       [j EXCEPT !.stage = "answered", !.outcome = o, !.ref = n] \in Job
  /\ \A j \in Job : [j EXCEPT !.stage = "marked"] \in Job
BY DEF NoJob, Job, Stage, Outcome

(* A batch is made of eligible rows. *)
LEMMA BatchIsEligible ==
  ASSUME NEW S \in Batches
  PROVE  S \subseteq Keys /\ \A k \in S : Eligible(row[k])
BY DEF Batches

-----------------------------------------------------------------------------
(* Every variable keeps its type: each row its columns and its enumerations, *)
(* each job its stage, whatever the repository, the workers and the vendor do. *)
LEMMA TypeOKStep == TypeOK /\ AnswerIsReal /\ [Next]_vars => TypeOK'
<1> SUFFICES ASSUME TypeOK, AnswerIsReal, [Next]_vars PROVE TypeOK'
  OBVIOUS
<1>row. \A k \in Keys : row[k] \in Row
  BY DEF TypeOK
<1>job. \A p \in Replicas, k \in Keys : job[p][k] \in Job
  BY DEF TypeOK
<1>fault. Fault => faults' \in Nat
  BY DEF Fault, TypeOK
<1>1. ASSUME NEW k \in Keys, PoSync(k) PROVE TypeOK'
  BY <1>1, <1>row, RowOperations DEF TypeOK, PoSync
<1>2. ASSUME NEW k \in Keys, AdminReplay(k) PROVE TypeOK'
  BY <1>2, <1>row, RowOperations DEF TypeOK, AdminReplay
<1>3. ASSUME NEW k \in Keys, Webhook(k) PROVE TypeOK'
  BY <1>3, <1>row, RowOperations DEF TypeOK, Webhook
<1>4. ASSUME NEW k \in Keys, BackoffElapses(k) PROVE TypeOK'
  BY <1>4, <1>row, RowClock DEF TypeOK, BackoffElapses
<1>5. ASSUME NEW k \in Keys, LeaseExpires(k) \/ LeaseOverrun(k) PROVE TypeOK'
  <2>1. row' = [row EXCEPT ![k].lease = "expired"]
    BY <1>5 DEF LeaseExpires, LeaseOverrun
  <2>2. row' \in [Keys -> Row]
    BY <2>1, <1>row, RowClock DEF TypeOK
  <2>3. faults' \in Nat
    BY <1>5, <1>fault DEF LeaseExpires, LeaseOverrun, TypeOK
  <2> QED
    BY <1>5, <2>2, <2>3 DEF TypeOK, LeaseExpires, LeaseOverrun
<1>6. ASSUME NEW k \in Keys, LateArrival(k) PROVE TypeOK'
  BY <1>6 DEF TypeOK, LateArrival, CreateOnce
<1>7. ASSUME NEW p \in Replicas, NEW S \in Batches, ClaimBatch(p, S) PROVE TypeOK'
  <2>1. row' \in [Keys -> Row]
    BY <1>7, <1>row, RowOperations DEF ClaimBatch, ClaimRows
  <2>2. \A k \in Keys :
          [NoJob EXCEPT !.stage = "pushing", !.attempt = row[k].attempts + 1] \in Job
    <3>1. \A k \in Keys : row[k].attempts + 1 \in Nat
      BY <1>row DEF Row
    <3> QED
      BY <3>1, JobOperations
  <2>3. job' \in [Replicas -> [Keys -> Job]]
    BY <1>7, JobOperations, <2>2 DEF ClaimBatch, TypeOK
  <2> QED
    BY <1>7, <2>1, <2>3 DEF ClaimBatch, TypeOK
<1>8. ASSUME NEW p \in Replicas, NEW S \in Batches, ClaimLost(p, S) PROVE TypeOK'
  BY <1>8, <1>row, RowOperations DEF TypeOK, ClaimLost, ClaimRows, Fault
<1>9. ASSUME NEW p \in Replicas, NEW k \in Keys, PushAccepted(p, k) PROVE TypeOK'
  <2>1. minted' \in [Keys -> Nat]
    BY <1>9 DEF TypeOK, PushAccepted, CreateOnce
  <2>2. [job[p][k] EXCEPT !.stage = "answered", !.outcome = "ok", !.ref = minted'[k]] \in Job
    BY <1>job, <2>1, JobOperations DEF TypeOK, Outcome
  <2> QED
    BY <1>9, <2>1, <2>2 DEF TypeOK, PushAccepted, Answered, SetJob
<1>10. ASSUME NEW p \in Replicas, NEW k \in Keys, NEW o \in {"transient", "permanent"},
              PushRefused(p, k, o)
       PROVE  TypeOK'
  <2>1. [job[p][k] EXCEPT !.stage = "answered", !.outcome = o, !.ref = NoRef] \in Job
    BY <1>job, JobOperations DEF Outcome
  <2> QED
    BY <1>10, <2>1 DEF TypeOK, PushRefused, Answered, SetJob
<1>11. ASSUME NEW p \in Replicas, NEW k \in Keys, PushTimesOut(p, k) PROVE TypeOK'
  <2>1. [job[p][k] EXCEPT !.stage = "answered", !.outcome = "transient", !.ref = NoRef] \in Job
    BY <1>job, JobOperations DEF Outcome
  <2> QED
    BY <1>11, <2>1 DEF TypeOK, PushTimesOut, Answered, SetJob
<1>12. ASSUME NEW p \in Replicas, NEW k \in Keys, Settle(p, k) PROVE TypeOK'
  <2>1. Settled(row[k], job[p][k]) \in Row
    BY <1>12, <1>row, <1>job, SettledRow DEF Settle, AnswerIsReal
  <2>2. job' \in [Replicas -> [Keys -> Job]]
    BY <1>12, <1>job, JobOperations DEF TypeOK, Settle, SetJob
  <2> QED
    BY <1>12, <2>1, <2>2 DEF TypeOK, Settle
<1>13. ASSUME NEW p \in Replicas, NEW k \in Keys, SettleFails(p, k) PROVE TypeOK'
  <2>1. Settled(row[k], job[p][k]) \in Row
    BY <1>13, <1>row, <1>job, SettledRow DEF SettleFails, AnswerIsReal
  <2>2. row' \in [Keys -> Row]
    BY <1>13, <2>1 DEF TypeOK, SettleFails
  <2> QED
    BY <1>13, <1>fault, <2>2, JobOperations DEF TypeOK, SettleFails, SetJob, WorkerState
<1>14. ASSUME NEW p \in Replicas, NEW k \in Keys, Announce(p, k) PROVE TypeOK'
  BY <1>14, JobOperations DEF TypeOK, Announce, SetJob
<1>15. ASSUME NEW p \in Replicas, NEW sent \in SUBSET Keys, Crash(p, sent) PROVE TypeOK'
  <2>1. job' \in [Replicas -> [Keys -> Job]]
    BY <1>15, JobOperations DEF TypeOK, Crash
  <2>2. worker' \in [Replicas -> WorkerState]
    BY <1>15 DEF TypeOK, Crash, WorkerState
  <2>3. wire' \in SUBSET Keys
    BY <1>15 DEF TypeOK, Crash
  <2> QED
    BY <1>15, <1>fault, <2>1, <2>2, <2>3 DEF TypeOK, Crash
<1>16. ASSUME NEW p \in Replicas, Restart(p) PROVE TypeOK'
  BY <1>16 DEF TypeOK, Restart, WorkerState
<1>17. CASE UNCHANGED vars
  BY <1>17 DEF vars, TypeOK
<1> QED
  BY <1>1, <1>2, <1>3, <1>4, <1>5, <1>6, <1>7, <1>8, <1>9, <1>10, <1>11, <1>12, <1>13,
     <1>14, <1>15, <1>16, <1>17 DEF Next

-----------------------------------------------------------------------------
(* What one step, of whichever actor, can do to one key: to its row, to its *)
(* job in one replica, and at the vendor.  The invariants below follow from *)
(* these alone.                                                            *)

Expires(k) ==
  /\ row[k].lease = "live"
  /\ k \in overrun' \/ \A p \in Replicas : ~Holds(p, k)
  /\ row'[k] = [row[k] EXCEPT !.lease = "expired"]

Settles(p, k) ==
  /\ job[p][k].stage = "answered"
  /\ row'[k] = Settled(row[k], job[p][k])
  /\ ~Holds(p, k)'

Claims(k) == Eligible(row[k]) /\ row'[k] = Claim(row[k])

RowStep(k) ==
  \/ row'[k] = row[k]
  \/ row'[k] = InsertPending(row[k])
  \/ row'[k] = Replay(row[k]) /\ replays' > replays
  \/ row'[k] = UpdateInboundState(row[k], minted[k]) /\ minted[k] > 0
  \/ row'[k] = [row[k] EXCEPT !.due = TRUE] /\ row[k].status = "pending"
  \/ Expires(k)
  \/ Claims(k)
  \/ \E p \in Replicas : Settles(p, k)

JobStep(p, k) ==
  \/ job'[p][k] = job[p][k]
  \/ /\ job'[p][k] = NoJob
     /\ Holds(p, k) => k \in doubted' \/ (Settles(p, k) /\ job[p][k].outcome # "ok")
  \/ /\ Claims(k)
     /\ job'[p][k] = [NoJob EXCEPT !.stage = "pushing", !.attempt = row[k].attempts + 1]
     /\ \A q \in Replicas : q # p => job'[q][k] = job[q][k]
  \/ /\ job[p][k].stage = "pushing"
     /\ job'[p][k].stage = "answered"
     /\ job'[p][k].attempt = job[p][k].attempt
     /\ job'[p][k].outcome # "none"
     /\ job'[p][k].outcome = "ok" => minted'[k] > 0 /\ job'[p][k].ref = minted'[k]
     /\ row'[k] = row[k]
  \/ /\ Settles(p, k)
     /\ job[p][k].outcome = "ok"
     /\ job'[p][k].stage = "marked"

Requested(k) == k \in wire \/ \E p \in Replicas : job[p][k].stage = "pushing"

Accepts(p, k) ==
  /\ job[p][k].stage = "pushing"
  /\ job'[p][k].stage = "answered"
  /\ job'[p][k].outcome = "ok"

VendorStep(k) ==
  /\ \/ minted'[k] = minted[k]
     \/ /\ minted[k] = 0 /\ minted'[k] = 1 /\ row'[k] = row[k]
        /\ k \in wire \/ \E p \in Replicas : Accepts(p, k)
  /\ k \in wire' => k \in wire \/ (Requested(k) /\ k \in doubted')
  /\ k \in announced' => k \in announced \/ \E p \in Replicas : job[p][k].stage = "marked"
  /\ k \in overrun => k \in overrun'
  /\ k \in doubted => k \in doubted'

KeyStep(k) == RowStep(k) /\ VendorStep(k) /\ \A p \in Replicas : JobStep(p, k)

(* Every step of the outbox is such a step for every key. *)
LEMMA StepShape ==
  ASSUME TypeOK, [Next]_vars
  PROVE  \A c \in Keys : KeyStep(c)
<1> SUFFICES ASSUME NEW c \in Keys PROVE KeyStep(c)
  OBVIOUS
<1> USE DEF KeyStep
<1>1. ASSUME NEW k \in Keys, PoSync(k) PROVE KeyStep(c)
  BY <1>1 DEF TypeOK, PoSync, RowStep, JobStep, VendorStep, Accepts, Requested
<1>2. ASSUME NEW k \in Keys, AdminReplay(k) PROVE KeyStep(c)
  BY <1>2 DEF TypeOK, AdminReplay, RowStep, JobStep, VendorStep, Accepts, Requested
<1>3. ASSUME NEW k \in Keys, Webhook(k) PROVE KeyStep(c)
  BY <1>3 DEF TypeOK, Webhook, RowStep, JobStep, VendorStep, Accepts, Requested
<1>4. ASSUME NEW k \in Keys, BackoffElapses(k) PROVE KeyStep(c)
  BY <1>4 DEF TypeOK, BackoffElapses, RowStep, JobStep, VendorStep, Accepts, Requested
<1>5. ASSUME NEW k \in Keys, LeaseExpires(k) PROVE KeyStep(c)
  BY <1>5 DEF TypeOK, LeaseExpires, RowStep, Expires, JobStep, VendorStep, Accepts, Requested
<1>6. ASSUME NEW k \in Keys, LeaseOverrun(k) PROVE KeyStep(c)
  BY <1>6 DEF TypeOK, LeaseOverrun, RowStep, Expires, JobStep, VendorStep, Accepts, Requested
<1>7. ASSUME NEW k \in Keys, LateArrival(k) PROVE KeyStep(c)
  BY <1>7 DEF TypeOK, LateArrival, CreateOnce, RowStep, JobStep, VendorStep, Accepts, Requested
<1>8. ASSUME NEW p \in Replicas, NEW S \in Batches, ClaimBatch(p, S) PROVE KeyStep(c)
  <2>1. c \in S => Claims(c)
    BY <1>8, BatchIsEligible DEF ClaimBatch, ClaimRows, Claims
  <2>2. c \notin S => row'[c] = row[c]
    BY <1>8 DEF ClaimBatch, ClaimRows
  <2>3. \A q \in Replicas : q # p => job'[q][c] = job[q][c]
    BY <1>8 DEF TypeOK, ClaimBatch
  <2>4. JobStep(p, c)
    <3>1. job[p][c] = NoJob
      BY <1>8 DEF ClaimBatch, BatchDone
    <3>2. /\ c \in S => job'[p][c] = [NoJob EXCEPT !.stage = "pushing",
                                                  !.attempt = row[c].attempts + 1]
          /\ c \notin S => job'[p][c] = NoJob
      BY <1>8 DEF TypeOK, ClaimBatch
    <3> QED
      BY <2>1, <2>3, <3>1, <3>2 DEF JobStep
  <2>5. RowStep(c)
    BY <2>1, <2>2 DEF RowStep
  <2>6. VendorStep(c)
    BY <1>8 DEF ClaimBatch, VendorStep, Accepts, Requested
  <2>7. \A q \in Replicas : JobStep(q, c)
    BY <2>3, <2>4 DEF JobStep
  <2> QED
    BY <1>8, <2>5, <2>6, <2>7 DEF ClaimBatch
<1>9. ASSUME NEW p \in Replicas, NEW S \in Batches, ClaimLost(p, S) PROVE KeyStep(c)
  <2>1. c \in S => Claims(c)
    BY <1>9, BatchIsEligible DEF ClaimLost, ClaimRows, Claims
  <2>2. c \notin S => row'[c] = row[c]
    BY <1>9 DEF ClaimLost, ClaimRows
  <2>3. job' = job /\ minted' = minted /\ UNCHANGED <<wire, announced, overrun, doubted>>
    BY <1>9 DEF ClaimLost
  <2> QED
    BY <2>1, <2>2, <2>3 DEF RowStep, JobStep, VendorStep, Accepts, Requested
<1>10. ASSUME NEW p \in Replicas, NEW k \in Keys, PushAccepted(p, k) PROVE KeyStep(c)
  <2>1. VendorStep(c)
    <3>1. UNCHANGED <<row, wire, announced, overrun, doubted>>
      BY <1>10 DEF PushAccepted
    <3>2. \/ minted'[c] = minted[c]
          \/ c = k /\ minted[c] = 0 /\ minted'[c] = 1
      BY <1>10 DEF TypeOK, PushAccepted, CreateOnce
    <3>3. Accepts(p, k)
      BY <1>10 DEF TypeOK, PushAccepted, Answered, SetJob, Job, Accepts
    <3> QED
      BY <3>1, <3>2, <3>3 DEF VendorStep
  <2>2. minted'[k] > 0
    BY <1>10 DEF TypeOK, PushAccepted, CreateOnce
  <2>3. ASSUME NEW q \in Replicas PROVE JobStep(q, c)
    BY <1>10, <2>2 DEF TypeOK, PushAccepted, Answered, SetJob, Job, JobStep
  <2> QED
    BY <1>10, <2>1, <2>3 DEF PushAccepted, RowStep
<1>11. ASSUME NEW p \in Replicas, NEW k \in Keys, NEW o \in {"transient", "permanent"},
              PushRefused(p, k, o)
       PROVE  KeyStep(c)
  <2>1. ASSUME NEW q \in Replicas PROVE JobStep(q, c)
    BY <1>11 DEF TypeOK, PushRefused, Answered, SetJob, Job, JobStep
  <2> QED
    BY <1>11, <2>1 DEF PushRefused, RowStep, VendorStep, Accepts, Requested
<1>12. ASSUME NEW p \in Replicas, NEW k \in Keys, PushTimesOut(p, k) PROVE KeyStep(c)
  <2>1. ASSUME NEW q \in Replicas PROVE JobStep(q, c)
    BY <1>12 DEF TypeOK, PushTimesOut, Answered, SetJob, Job, JobStep
  <2> QED
    BY <1>12, <2>1 DEF PushTimesOut, RowStep, VendorStep, Accepts, Requested
<1>13. ASSUME NEW p \in Replicas, NEW k \in Keys, Settle(p, k) PROVE KeyStep(c)
  <2>1. c = k => Settles(p, c)
    BY <1>13 DEF TypeOK, Settle, SetJob, Settles, Holds, NoJob, Job
  <2>2. ASSUME NEW q \in Replicas PROVE JobStep(q, c)
    BY <1>13, <2>1 DEF TypeOK, Settle, SetJob, Job, JobStep
  <2> QED
    BY <1>13, <2>1, <2>2 DEF TypeOK, Settle, RowStep, VendorStep, Accepts, Requested
<1>14. ASSUME NEW p \in Replicas, NEW k \in Keys, SettleFails(p, k) PROVE KeyStep(c)
  <2>1. row' # row /\ c = k => Settles(p, c)
    BY <1>14 DEF TypeOK, SettleFails, SetJob, Settles, Holds, NoJob
  <2>2. row' # row /\ c # k => row'[c] = row[c]
    BY <1>14 DEF TypeOK, SettleFails
  <2>3. ASSUME NEW q \in Replicas PROVE JobStep(q, c)
    BY <1>14 DEF TypeOK, SettleFails, SetJob, JobStep
  <2> QED
    BY <1>14, <2>1, <2>2, <2>3 DEF SettleFails, RowStep, VendorStep, Accepts, Requested
<1>15. ASSUME NEW p \in Replicas, NEW k \in Keys, Announce(p, k) PROVE KeyStep(c)
  <2>1. ASSUME NEW q \in Replicas PROVE JobStep(q, c)
    BY <1>15 DEF TypeOK, Announce, SetJob, JobStep, Holds
  <2> QED
    BY <1>15, <2>1 DEF TypeOK, Announce, RowStep, VendorStep, Accepts, Requested
<1>16. ASSUME NEW p \in Replicas, NEW sent \in SUBSET Keys, Crash(p, sent) PROVE KeyStep(c)
  <2>1. ASSUME NEW q \in Replicas PROVE JobStep(q, c)
    BY <1>16 DEF TypeOK, Crash, JobStep
  <2>2. VendorStep(c)
    <3>1. c \in wire' => c \in wire \/ c \in sent
      BY <1>16 DEF Crash
    <3>2. c \in sent => job[p][c].stage = "pushing" /\ c \in doubted'
      BY <1>16 DEF Crash, Holds
    <3>3. UNCHANGED <<minted, announced, overrun>> /\ doubted \subseteq doubted'
      BY <1>16 DEF Crash
    <3> QED
      BY <3>1, <3>2, <3>3 DEF VendorStep, Requested
  <2> QED
    BY <1>16, <2>1, <2>2 DEF Crash, RowStep
<1>17. ASSUME NEW p \in Replicas, Restart(p) PROVE KeyStep(c)
  BY <1>17 DEF Restart, RowStep, JobStep, VendorStep, Accepts, Requested
<1>18. CASE UNCHANGED vars
  <2>1. row' = row /\ job' = job
    BY <1>18 DEF vars
  <2>2. UNCHANGED <<minted, wire, announced, overrun, doubted>>
    BY <1>18 DEF vars
  <2>3. RowStep(c)
    BY <2>1 DEF RowStep
  <2>4. VendorStep(c)
    BY <2>2 DEF VendorStep
  <2>5. \A p \in Replicas : JobStep(p, c)
    BY <2>1 DEF JobStep
  <2> QED
    BY <2>3, <2>4, <2>5
<1> QED
  BY <1>1, <1>2, <1>3, <1>4, <1>5, <1>6, <1>7, <1>8, <1>9, <1>10, <1>11, <1>12, <1>13,
     <1>14, <1>15, <1>16, <1>17, <1>18 DEF Next

(* The two columns of a new job that the arguments below look at. *)
LEMMA JobFields ==
  /\ NoJob.stage = "idle"
  /\ \A n : /\ [NoJob EXCEPT !.stage = "pushing", !.attempt = n].stage = "pushing"
            /\ [NoJob EXCEPT !.stage = "pushing", !.attempt = n].attempt = n
BY DEF NoJob

(* A replica that holds a row after a step held it before, under the same  *)
(* attempt, or has claimed it in this very step, and no one else has.      *)
LEMMA HoldStep ==
  ASSUME NEW k \in Keys, NEW p \in Replicas, JobStep(p, k), Holds(p, k)'
  PROVE  \/ Holds(p, k) /\ job'[p][k].attempt = job[p][k].attempt
         \/ /\ Claims(k)
            /\ job'[p][k].attempt = row[k].attempts + 1
            /\ \A q \in Replicas : q # p => job'[q][k] = job[q][k]
<1>1. job'[p][k].stage \in {"pushing", "answered"}
  BY DEF Holds
<1>2. job'[p][k] = job[p][k] => Holds(p, k)
  BY <1>1 DEF Holds
<1>3. job'[p][k] # NoJob /\ job'[p][k].stage # "marked"
  BY <1>1, JobFields
<1>4. job[p][k].stage = "pushing" => Holds(p, k)
  BY DEF Holds
<1> QED
  BY <1>2, <1>3, <1>4, JobFields, Zenon DEF JobStep

-----------------------------------------------------------------------------
(* What holds whatever the lengths of pushes and leases. *)

(* The initial state: no row, no order, nothing in hand. *)
LEMMA TruthInit == Init => TruthInv
BY DEF Init, TruthInv, TypeOK, AnswerIsReal, SuccessIsReal, NumbersAreTheVendors,
       LeaseDisciplined, RequestHasRow, Holds, Row, Status, LeaseState, Absent, WorkerState, Job, NoJob, Stage,
       Outcome

(* One step keeps it: by RowStep, what each statement does to the row; the *)
(* vendor's number is minted once, and an answer quotes it.                *)
LEMMA TruthStep == TruthInv /\ [Next]_vars => TruthInv'
<1> SUFFICES ASSUME TruthInv, [Next]_vars PROVE TruthInv'
  OBVIOUS
<1> USE DEF TruthInv
<1>1. TypeOK'
  BY TypeOKStep
<1>2. ASSUME NEW k \in Keys PROVE KeyStep(k) /\ row[k] \in Row /\ minted[k] \in Nat
  BY StepShape DEF TypeOK
<1>3. ASSUME NEW k \in Keys, NEW p \in Replicas, job[p][k].stage = "answered"
      PROVE  job[p][k] \in Job /\ job[p][k].outcome # "none"
  BY <1>3 DEF TypeOK, AnswerIsReal
<1>4. AnswerIsReal'
  <2> SUFFICES ASSUME NEW p \in Replicas, NEW k \in Keys, job'[p][k].stage = "answered"
               PROVE  /\ job'[p][k].outcome # "none"
                      /\ job'[p][k].outcome = "ok" =>
                           minted'[k] > 0 /\ job'[p][k].ref = minted'[k]
    BY DEF AnswerIsReal
  <2>1. minted[k] > 0 => minted'[k] = minted[k]
    BY <1>2 DEF KeyStep, VendorStep
  <2>2. CASE job'[p][k] = job[p][k]
    BY <2>1, <2>2 DEF AnswerIsReal
  <2>3. \/ job'[p][k] = job[p][k]
        \/ /\ job'[p][k].outcome # "none"
           /\ job'[p][k].outcome = "ok" => minted'[k] > 0 /\ job'[p][k].ref = minted'[k]
    <3>1. NoJob.stage = "idle" /\ \A n : [NoJob EXCEPT !.stage = "pushing", !.attempt = n].stage = "pushing"
      BY DEF NoJob
    <3>2. JobStep(p, k)
      BY <1>2 DEF KeyStep
    <3> QED
      BY <3>1, <3>2, Zenon DEF JobStep
  <2> QED
    BY <2>2, <2>3
<1>5. ASSUME NEW k \in Keys
      PROVE  /\ (row'[k].status = "success") => minted'[k] > 0 /\ row'[k].ref = minted'[k]
             /\ minted'[k] <= 1
             /\ row'[k].ref \in {NoRef, minted'[k]}
             /\ Leased(row'[k])
  <2>1. /\ row[k].status = "success" => minted[k] > 0 /\ row[k].ref = minted[k]
        /\ minted[k] <= 1
        /\ row[k].ref \in {NoRef, minted[k]}
        /\ Leased(row[k])
    BY DEF SuccessIsReal, NumbersAreTheVendors, LeaseDisciplined, Leased
  <2>2. \/ minted'[k] = minted[k]
        \/ minted[k] = 0 /\ minted'[k] = 1 /\ row'[k] = row[k]
    BY <1>2 DEF KeyStep, VendorStep
  <2>3. CASE row'[k] = row[k]
    BY <1>2, <2>1, <2>2, <2>3
  <2>4. CASE minted'[k] = minted[k]
    <3>1. CASE row'[k] = InsertPending(row[k])
      BY <1>2, <2>1, <2>4, <3>1, RowLeases DEF InsertPending, Absent
    <3>2. CASE row'[k] = Replay(row[k])
      BY <1>2, <2>1, <2>4, <3>2, RowLeases DEF Replay, Row
    <3>3. CASE row'[k] = UpdateInboundState(row[k], minted[k]) /\ minted[k] > 0
      BY <1>2, <2>1, <2>4, <3>3, RowLeases DEF UpdateInboundState, Row
    <3>4. CASE row'[k] = [row[k] EXCEPT !.due = TRUE]
      BY <1>2, <2>1, <2>4, <3>4 DEF Leased, Row
    <3>5. CASE Expires(k)
      BY <1>2, <2>1, <2>4, <3>5 DEF Expires, Leased, Row
    <3>6. CASE Claims(k)
      <4>1. /\ row'[k].status = "in_progress"
            /\ row'[k].ref = row[k].ref
            /\ row'[k].lease = "live"
        BY <1>2, <3>6 DEF Claims, Claim, Row
      <4> QED
        BY <1>2, <2>1, <2>4, <4>1 DEF Leased
    <3>7. ASSUME NEW p \in Replicas, Settles(p, k)
          PROVE  /\ (row'[k].status = "success") => minted'[k] > 0 /\ row'[k].ref = minted'[k]
                 /\ row'[k].ref \in {NoRef, minted'[k]}
                 /\ Leased(row'[k])
      <4>1. row'[k] = Settled(row[k], job[p][k]) /\ job[p][k].stage = "answered"
        BY <3>7 DEF Settles
      <4>2. job[p][k].outcome = "ok" => minted[k] > 0 /\ job[p][k].ref = minted[k]
        BY <4>1 DEF AnswerIsReal
      <4> QED
        BY <1>2, <1>3, <2>1, <2>4, <4>1, <4>2, SettledRow
    <3> QED
      BY <1>2, <2>1, <2>3, <2>4, <3>1, <3>2, <3>3, <3>4, <3>5, <3>6, <3>7 DEF KeyStep, RowStep
  <2> QED
    BY <2>2, <2>3, <2>4
<1>6. RequestHasRow'
  <2> SUFFICES ASSUME NEW k \in Keys, k \in wire' \/ \E p \in Replicas : Holds(p, k)'
               PROVE  row'[k].status # "absent"
    BY DEF RequestHasRow
  <2>1. row[k].status # "absent" \/ Claims(k)
    <3>1. ASSUME NEW p \in Replicas, Holds(p, k)' PROVE Holds(p, k) \/ Claims(k)
      BY <1>2, <3>1, HoldStep DEF KeyStep
    <3>2. k \in wire' => k \in wire \/ \E p \in Replicas : Holds(p, k)
      BY <1>2 DEF KeyStep, VendorStep, Requested, Holds
    <3> QED
      BY <3>1, <3>2 DEF RequestHasRow
  <2>2. CASE Claims(k)
    BY <1>2, <2>2 DEF Claims, Claim, Row
  <2>3. CASE row[k].status # "absent"
    <3>1. ASSUME NEW p \in Replicas, Settles(p, k) PROVE row'[k].status # "absent"
      BY <1>2, <1>3, <3>1, SettledRow DEF Settles
    <3> QED
      BY <1>2, <2>2, <2>3, <3>1
         DEF KeyStep, RowStep, InsertPending, Replay, UpdateInboundState, Expires, Row
  <2> QED
    BY <2>1, <2>2, <2>3
<1> QED
  BY <1>1, <1>4, <1>5, <1>6 DEF SuccessIsReal, NumbersAreTheVendors, LeaseDisciplined, Leased

(* Hence it holds throughout. *)
LEMMA TruthInvariant == Spec => []TruthInv
BY TruthInit, TruthStep, PTL DEF Spec

(* Every variable of the outbox keeps its type. *)
THEOREM TypeCorrect == Spec => []TypeOK
BY TruthInvariant, PTL DEF TruthInv

(* A row marked success names an order that the vendor has, through every  *)
(* interleaving of retries, reclaims, late requests, webhooks and crashes, *)
(* pushes that outlive their lease included.                               *)
THEOREM SuccessCorrect == Spec => []SuccessIsReal
BY TruthInvariant, PTL DEF TruthInv

(* A lease exists exactly while a row is in progress: no row is stranded   *)
(* in progress and none is taken from a later state by an old lease.       *)
THEOREM LeasesCorrect == Spec => []LeaseDisciplined
BY TruthInvariant, PTL DEF TruthInv

-----------------------------------------------------------------------------
(* Who may write a row.  A replica that holds a row owns it from its claim  *)
(* on, and loses it at one moment only: when the lease ends under its push. *)

(* A push becomes late when the lease of its row ends under it: a claim    *)
(* finds no holder unless one is late already, no statement but the owner's *)
(* UPDATE and the clock touches a row that is owned.                       *)
LEMMA LateStep ==
  ASSUME TruthInv, [Next]_vars, NEW k \in Keys, ~Late(k), Late(k)'
  PROVE  Expires(k) /\ \E p \in Replicas : Holds(p, k)
<1>key. /\ RowStep(k) /\ VendorStep(k) /\ \A p \in Replicas : JobStep(p, k)
        /\ row[k] \in Row
        /\ \A p \in Replicas : Holds(p, k) => Owns(p, k)
  BY StepShape DEF KeyStep, TruthInv, TypeOK, Late
<1>1. PICK p \in Replicas : Holds(p, k)' /\ ~Owns(p, k)'
  BY DEF Late
<1>2. CASE Claims(k)
  <2>free. \A q \in Replicas : ~Holds(q, k)
    BY <1>key, <1>2 DEF Claims, Eligible, Owns
  <2>1. ASSUME NEW q \in Replicas, Holds(q, k)'
        PROVE  /\ job'[q][k].attempt = row[k].attempts + 1
               /\ \A o \in Replicas : o # q => job'[o][k] = job[o][k]
    BY <1>key, <2>free, <2>1, HoldStep
  <2>2. \A q \in Replicas : Holds(q, k)' => q = p
    BY <1>1, <2>free, <2>1 DEF Holds
  <2>3. /\ row'[k].status = "in_progress"
        /\ row'[k].lease = "live"
        /\ row'[k].attempts = row[k].attempts + 1
    BY <1>key, <1>2 DEF Claims, Claim, Row
  <2> QED
    BY <1>1, <2>1, <2>2, <2>3 DEF Owns
<1>3. CASE ~Claims(k)
  <2>1. ASSUME NEW q \in Replicas, Holds(q, k)'
        PROVE  Holds(q, k) /\ job'[q][k].attempt = job[q][k].attempt
    BY <1>key, <1>3, <2>1, HoldStep
  <2>2. Holds(p, k) /\ Owns(p, k)
    BY <1>1, <1>key, <2>1
  <2>3. ASSUME ~Expires(k) PROVE FALSE
    <3>1. \A q \in Replicas : ~Settles(q, k)
      BY <1>1, <2>2 DEF Settles, Holds, Owns
    <3>2. /\ row'[k].status = row[k].status
          /\ row'[k].lease = row[k].lease
          /\ row'[k].attempts = row[k].attempts
      BY <1>key, <1>3, <2>2, <2>3, <3>1
         DEF RowStep, Owns, InsertPending, Replay, UpdateInboundState, Row
    <3> QED
      BY <1>1, <2>1, <2>2, <3>2 DEF Owns
  <2> QED
    BY <2>2, <2>3
<1> QED
  BY <1>2, <1>3

(* The initial state: no row is held, none waits, nothing is announced. *)
LEMMA OwnershipInit == Init => OwnershipInv
BY ConstantsAssumption
   DEF Init, OwnershipInv, ExclusiveClaim, MarkedIsCommitted, RetryBudget,
       AnnouncedIsCommitted, OrdersAreKnown, Late, Holds, NoJob, Absent

(* One step keeps it: a row is claimed only when nobody holds it, its lease *)
(* lasts while it is held, and only its owner settles it; its order is known *)
(* to its owner, and then to itself.                                       *)
LEMMA OwnershipStep == TruthInv /\ OwnershipInv /\ [Next]_vars => OwnershipInv'
<1> SUFFICES ASSUME TruthInv, OwnershipInv, [Next]_vars PROVE OwnershipInv'
  OBVIOUS
<1>type. TypeOK /\ TypeOK'
  BY TypeOKStep DEF TruthInv
<1>key. ASSUME NEW k \in Keys
        PROVE  /\ RowStep(k) /\ VendorStep(k) /\ \A p \in Replicas : JobStep(p, k)
               /\ row[k] \in Row
               /\ \A p \in Replicas : job[p][k] \in Job
               /\ k \notin overrun' => k \notin overrun
               /\ k \notin overrun => \A p \in Replicas : Holds(p, k) => Owns(p, k)
  BY <1>type, StepShape DEF KeyStep, VendorStep, TypeOK, OwnershipInv, ExclusiveClaim, Late
<1>free. ASSUME NEW k \in Keys, k \notin overrun', Claims(k)
         PROVE  \A p \in Replicas : ~Holds(p, k)
  BY <1>free, <1>key DEF Claims, Eligible, Owns
<1>settles. ASSUME NEW k \in Keys, k \notin overrun', NEW p \in Replicas, Settles(p, k)
            PROVE  /\ row[k].status = "in_progress"
                   /\ row[k].attempts = job[p][k].attempt
                   /\ row'[k].status \in {"success", "pending", "failed"}
                   /\ row'[k].status = "pending" =>
                        row'[k].attempts = row[k].attempts /\ row[k].attempts < MaxAttempts
                   /\ job[p][k].outcome = "ok" => row'[k].status = "success"
  <2>1. Owns(p, k)
    BY <1>settles, <1>key DEF Settles, Holds
  <2>2. job[p][k].outcome # "none" /\ job[p][k].attempt \in Nat
    BY <1>settles, <1>key DEF Settles, TruthInv, AnswerIsReal, Job
  <2> QED
    BY <1>settles, <1>key, <2>1, <2>2, SettledRow, ConstantsAssumption
       DEF Settles, Owns, Exhausted
<1>1. ExclusiveClaim'
  <2> SUFFICES ASSUME NEW k \in Keys, k \notin overrun', Late(k)' PROVE FALSE
    BY DEF ExclusiveClaim
  <2>1. ~Late(k)
    BY <1>key DEF OwnershipInv, ExclusiveClaim
  <2> QED
    BY <2>1, LateStep DEF Expires
<1>committed. ASSUME NEW k \in Keys, k \notin overrun', row[k].status = "success"
              PROVE  row'[k].status = "success"
  BY <1>key, <1>committed, <1>settles
     DEF RowStep, InsertPending, Replay, UpdateInboundState, Expires, Claims, Eligible, Row,
         TruthInv, LeaseDisciplined
<1>2. MarkedIsCommitted'
  <2> SUFFICES ASSUME NEW p \in Replicas, NEW k \in Keys, k \notin overrun',
                      job'[p][k].stage = "marked"
               PROVE  row'[k].status = "success"
    BY DEF MarkedIsCommitted
  <2>1. CASE job'[p][k] = job[p][k]
    BY <2>1, <1>key, <1>committed DEF OwnershipInv, MarkedIsCommitted
  <2>2. CASE Settles(p, k) /\ job[p][k].outcome = "ok"
    BY <2>2, <1>settles
  <2>3. JobStep(p, k)
    BY <1>key
  <2> QED
    BY <2>1, <2>2, <2>3, JobFields, Zenon DEF JobStep
<1>3. RetryBudget'
  <2> SUFFICES ASSUME NEW k \in Keys, k \notin overrun', row'[k].status = "pending"
               PROVE  row'[k].attempts < MaxAttempts
    BY DEF RetryBudget
  <2>1. row[k].status = "pending" => row[k].attempts < MaxAttempts
    BY <1>key DEF OwnershipInv, RetryBudget
  <2>2. CASE \E p \in Replicas : Settles(p, k)
    BY <2>2, <1>settles
  <2>3. ~Claims(k)
    BY <1>key DEF Claims, Claim, Row
  <2>4. CASE row'[k] \in {InsertPending(row[k]), Replay(row[k])}
    <3>1. \/ row'[k] = row[k]
          \/ row'[k].attempts = 0
      BY <1>key, <2>4 DEF InsertPending, Absent, Replay, Row
    <3> QED
      BY <2>1, <3>1, ConstantsAssumption
  <2>5. CASE row'[k] = UpdateInboundState(row[k], minted[k])
    BY <1>key, <2>1, <2>5 DEF UpdateInboundState, Row
  <2>6. CASE row'[k] \in {row[k], [row[k] EXCEPT !.due = TRUE]}
    BY <1>key, <2>1, <2>6 DEF Row
  <2>7. CASE Expires(k)
    BY <1>key, <2>1, <2>7 DEF Expires, Row
  <2>8. RowStep(k)
    BY <1>key
  <2> QED
    BY <2>2, <2>3, <2>4, <2>5, <2>6, <2>7, <2>8 DEF RowStep
<1>4. AnnouncedIsCommitted'
  <2> SUFFICES ASSUME NEW k \in announced', k \notin overrun' PROVE row'[k].status = "success"
    BY DEF AnnouncedIsCommitted
  <2>1. k \in Keys
    BY <1>type DEF TypeOK
  <2>2. row[k].status = "success"
    BY <1>key, <2>1 DEF VendorStep, OwnershipInv, AnnouncedIsCommitted, MarkedIsCommitted
  <2> QED
    BY <1>committed, <2>1, <2>2
<1>5. OrdersAreKnown'
  <2>1. ASSUME NEW k \in wire' PROVE k \in doubted'
    <3>1. k \in Keys
      BY <1>type, <2>1 DEF TypeOK
    <3> QED
      BY <1>key, <2>1, <3>1 DEF VendorStep, OwnershipInv, OrdersAreKnown
  <2>2. ASSUME NEW k \in Keys, k \notin overrun', k \notin doubted', minted'[k] > 0
        PROVE  \/ row'[k].status = "success"
               \/ \E p \in Replicas : job'[p][k].stage = "answered" /\ job'[p][k].outcome = "ok"
    <3>1. CASE minted'[k] # minted[k]
      <4>1. k \notin wire
        BY <1>key, <2>2 DEF VendorStep, OwnershipInv, OrdersAreKnown
      <4> QED
        BY <1>key, <2>2, <3>1, <4>1 DEF VendorStep, Accepts
    <3>2. CASE minted'[k] = minted[k] /\ row[k].status = "success"
      BY <1>committed, <2>2, <3>2
    <3>3. ASSUME NEW p \in Replicas,
                 job[p][k].stage = "answered" /\ job[p][k].outcome = "ok"
          PROVE  \/ row'[k].status = "success"
                 \/ job'[p][k].stage = "answered" /\ job'[p][k].outcome = "ok"
      <4>1. JobStep(p, k) /\ Holds(p, k) /\ ~Claims(k)
        BY <1>key, <1>free, <2>2, <3>3 DEF Holds
      <4>2. CASE Settles(p, k)
        BY <1>settles, <2>2, <3>3, <4>2
      <4> QED
        BY <2>2, <3>3, <4>1, <4>2 DEF JobStep
    <3>4. minted'[k] = minted[k] =>
            \/ row[k].status = "success"
            \/ \E p \in Replicas : job[p][k].stage = "answered" /\ job[p][k].outcome = "ok"
      BY <1>key, <2>2 DEF VendorStep, OwnershipInv, OrdersAreKnown
    <3> QED
      BY <3>1, <3>2, <3>3, <3>4
  <2> QED
    BY <2>1, <2>2 DEF OrdersAreKnown
<1> QED
  BY <1>1, <1>2, <1>3, <1>4, <1>5 DEF OwnershipInv

(* Hence it holds throughout. *)
LEMMA OwnershipInvariant == Spec => []OwnershipInv
BY OwnershipInit, OwnershipStep, TruthInvariant, PTL DEF Spec

(* One replica at a time has a row in hand, and owns it under a live lease *)
(* until its own UPDATE, through crashes, lost claims and replays; but for *)
(* the rows of which a push has outlived its lease.                        *)
THEOREM ClaimIsExclusive == Spec => []ExclusiveClaim
BY OwnershipInvariant, PTL DEF OwnershipInv

(* But for the same rows, a row waits only for an attempt that its budget  *)
(* allows.                                                                 *)
THEOREM RetriesAreBounded == Spec => []RetryBudget
BY OwnershipInvariant, PTL DEF OwnershipInv

(* But for the same rows, a published commit is never taken back. *)
THEOREM AnnouncementsAreFinal == Spec => []AnnouncedIsCommitted
BY OwnershipInvariant, PTL DEF OwnershipInv

(* Nobody pushes an order that the vendor has already, unless a timeout, a *)
(* crash, a failed UPDATE or a lease that ran out hid the first answer: who *)
(* pushes owns the row, which then is no success, and is not the one who   *)
(* has the answer in hand.                                                 *)
THEOREM OnlyDoubtRepeats == Spec => []RepeatsNeedDoubt
<1>1. TruthInv /\ OwnershipInv => RepeatsNeedDoubt
  <2> SUFFICES ASSUME TruthInv, OwnershipInv, NEW p \in Replicas, NEW k \in Keys,
                      k \notin overrun, k \notin doubted, job[p][k].stage = "pushing",
                      minted[k] # 0
               PROVE  FALSE
    BY DEF RepeatsNeedDoubt
  <2>1. Holds(p, k) /\ Owns(p, k)
    BY DEF OwnershipInv, ExclusiveClaim, Late, Holds
  <2>2. minted[k] > 0
    BY DEF TruthInv, TypeOK
  <2>3. PICK q \in Replicas : job[q][k].stage = "answered"
    BY <2>1, <2>2 DEF OwnershipInv, OrdersAreKnown, Owns
  <2> QED
    BY <2>1, <2>3 DEF Owns, Holds
<1> QED
  BY <1>1, TruthInvariant, OwnershipInvariant, PTL

(* A dead row becomes work again only by the hand of an operator, or of a  *)
(* push that was under way when it lost the row.                           *)
THEOREM DeadStaysDead == Spec => DeadNeverAutoRetried
<1>1. TruthInv /\ [Next]_vars =>
        [\A k \in Keys :
           row[k].status = "failed" /\ row'[k].status \in {"pending", "in_progress"}
             => replays' > replays \/ Late(k)]_vars
  <2> SUFFICES ASSUME TruthInv, [Next]_vars, NEW k \in Keys,
                      row[k].status = "failed",
                      row'[k].status \in {"pending", "in_progress"},
                      ~Late(k)
               PROVE  replays' > replays
    OBVIOUS
  <2>1. RowStep(k) /\ row[k] \in Row
    BY StepShape DEF TruthInv, TypeOK, KeyStep
  <2>2. ~Expires(k) /\ ~Claims(k)
    BY DEF Expires, Claims, Eligible, TruthInv, LeaseDisciplined
  <2>3. \A p \in Replicas : ~Settles(p, k)
    BY DEF Settles, Holds, Late, Owns
  <2> QED
    BY <2>1, <2>2, <2>3 DEF RowStep, InsertPending, UpdateInboundState, Row
<1> QED
  BY <1>1, TruthInvariant, PTL DEF Spec, DeadNeverAutoRetried

-----------------------------------------------------------------------------
(* The outbox keeps its promise. *)

(* A step is about one key, except a claim, which is about a batch. *)
LEMMA Locality ==
  ASSUME TypeOK, [Next]_vars
  PROVE  \/ \E k \in Keys : \A c \in Keys : c # k => row'[c] = row[c] /\ minted'[c] = minted[c]
         \/ \A c \in Keys : minted'[c] = minted[c] /\ (row'[c] = row[c] \/ Claims(c))
<1> DEFINE OnlyKey(k) == \A c \in Keys : c # k => row'[c] = row[c] /\ minted'[c] = minted[c]
           AnyBatch   == \A c \in Keys : minted'[c] = minted[c] /\ (row'[c] = row[c] \/ Claims(c))
<1>1. ASSUME NEW k \in Keys, PoSync(k) \/ AdminReplay(k) \/ Webhook(k)
      PROVE  OnlyKey(k)
  BY <1>1 DEF TypeOK, PoSync, AdminReplay, Webhook
<1>2. ASSUME NEW k \in Keys, BackoffElapses(k) \/ LeaseExpires(k) \/ LeaseOverrun(k)
      PROVE  OnlyKey(k)
  BY <1>2 DEF TypeOK, BackoffElapses, LeaseExpires, LeaseOverrun
<1>3. ASSUME NEW k \in Keys, LateArrival(k)
      PROVE  OnlyKey(k)
  BY <1>3 DEF TypeOK, LateArrival, CreateOnce
<1>4. ASSUME NEW p \in Replicas, NEW S \in Batches, ClaimBatch(p, S) \/ ClaimLost(p, S)
      PROVE  AnyBatch
  BY <1>4, BatchIsEligible DEF ClaimBatch, ClaimLost, ClaimRows, Claims
<1>5. ASSUME NEW p \in Replicas, NEW k \in Keys, PushAccepted(p, k)
      PROVE  OnlyKey(k)
  BY <1>5 DEF TypeOK, PushAccepted, CreateOnce
<1>6. ASSUME NEW p \in Replicas, NEW k \in Keys, Settle(p, k) \/ SettleFails(p, k)
      PROVE  OnlyKey(k)
  BY <1>6 DEF TypeOK, Settle, SettleFails
<1>7. ASSUME NEW p \in Replicas, NEW k \in Keys,
             \/ PushTimesOut(p, k)
             \/ Announce(p, k)
             \/ \E o \in {"transient", "permanent"} : PushRefused(p, k, o)
      PROVE  AnyBatch
  BY <1>7 DEF PushTimesOut, Announce, PushRefused
<1>8. ASSUME NEW p \in Replicas, Restart(p) \/ \E sent \in SUBSET Keys : Crash(p, sent)
      PROVE  AnyBatch
  BY <1>8 DEF Restart, Crash
<1>9. CASE UNCHANGED vars
  BY <1>9 DEF vars
<1> QED
  BY <1>1, <1>2, <1>3, <1>4, <1>5, <1>6, <1>7, <1>8, <1>9 DEF Next

(* What a step does to one key of the promise. *)
LEMMA PromisedStep ==
  ASSUME TruthInv, [Next]_vars, NEW k \in Keys
  PROVE  \/ SyncState(k)' = SyncState(k) /\ minted'[k] = minted[k]
         \/ /\ SyncState(k) \in {"absent", "dead"} /\ SyncState(k)' = "queued"
            /\ minted'[k] = minted[k]
         \/ /\ SyncState(k) # "absent" /\ SyncState(k)' = SyncState(k)
            /\ minted'[k] > 0
         \/ /\ SyncState(k) = "queued" /\ SyncState(k)' = "committed"
            /\ minted[k] > 0 /\ minted'[k] = minted[k]
         \/ /\ SyncState(k) = "queued" /\ SyncState(k)' = "dead"
            /\ minted'[k] = minted[k]
         \/ /\ Late(k) /\ SyncState(k) # "absent"
            /\ SyncState(k)' \in {"queued", "committed", "dead"}
            /\ SyncState(k)' = "committed" => minted[k] > 0
            /\ minted'[k] = minted[k]
<1>1. /\ RowStep(k) /\ VendorStep(k) /\ row[k] \in Row /\ row'[k] \in Row
      /\ \A p \in Replicas : job[p][k] \in Job
  BY StepShape, TypeOKStep DEF TruthInv, TypeOK, KeyStep
<1>status. row[k].status \in Status /\ row'[k].status \in Status
  BY <1>1 DEF Row
<1>2. CASE minted'[k] # minted[k]
  <2>1. /\ minted'[k] = 1 /\ row'[k] = row[k]
        /\ k \in wire \/ \E p \in Replicas : job[p][k].stage = "pushing"
    BY <1>1, <1>2 DEF VendorStep, Accepts
  <2>2. row[k].status # "absent"
    BY <2>1 DEF TruthInv, RequestHasRow, Holds
  <2> QED
    BY <1>status, <2>1, <2>2 DEF SyncState, Status
<1>3. CASE minted'[k] = minted[k]
  <2>1. CASE row'[k].status = row[k].status
    BY <1>3, <2>1 DEF SyncState
  <2>2. CASE row'[k] = InsertPending(row[k])
    BY <1>1, <1>3, <2>1, <2>2 DEF InsertPending, Absent, SyncState
  <2>3. CASE row'[k] = Replay(row[k])
    BY <1>1, <1>3, <2>1, <2>3 DEF Replay, Row, SyncState
  <2>4. CASE row'[k] = UpdateInboundState(row[k], minted[k])
    BY <1>1, <2>1, <2>4 DEF UpdateInboundState, Row
  <2>5. CASE row'[k] = [row[k] EXCEPT !.due = TRUE] \/ Expires(k)
    BY <1>1, <2>1, <2>5 DEF Expires, Row
  <2>6. CASE Claims(k)
    <3>1. row[k].status \in {"pending", "in_progress"} /\ row'[k].status = "in_progress"
      BY <1>1, <2>6 DEF Claims, Eligible, Claim, Row
    <3> QED
      BY <1>3, <3>1 DEF SyncState
  <2>7. ASSUME NEW p \in Replicas, Settles(p, k)
        PROVE  /\ row[k].status = "in_progress" \/ (Late(k) /\ row[k].status # "absent")
               /\ \/ row'[k].status \in {"pending", "failed"}
                  \/ row'[k].status = "success" /\ minted[k] > 0
    <3>1. job[p][k].stage = "answered" /\ row'[k] = Settled(row[k], job[p][k])
      BY <2>7 DEF Settles
    <3>2. /\ row[k].status = "in_progress" \/ (Late(k) /\ row[k].status # "absent")
          /\ job[p][k].outcome # "none"
          /\ job[p][k].outcome = "ok" => minted[k] > 0
      BY <3>1 DEF Late, Owns, Holds, TruthInv, RequestHasRow, AnswerIsReal
    <3> QED
      BY <1>1, <3>1, <3>2, SettledRow
  <2>8. CASE \E p \in Replicas : Settles(p, k)
    <3>1. /\ row[k].status = "in_progress" \/ (Late(k) /\ row[k].status # "absent")
          /\ \/ row'[k].status \in {"pending", "failed"}
             \/ row'[k].status = "success" /\ minted[k] > 0
      BY <2>7, <2>8
    <3>2. CASE row[k].status = "in_progress"
      BY <1>3, <3>1, <3>2 DEF SyncState
    <3>3. CASE Late(k) /\ row[k].status # "absent"
      <4>1. SyncState(k) # "absent"
        BY <1>status, <3>3 DEF SyncState, Status
      <4>2. CASE row'[k].status \in {"pending", "failed"}
        <5>1. SyncState(k)' \in {"queued", "dead"}
          BY <4>2 DEF SyncState
        <5> QED
          BY <1>3, <3>3, <4>1, <5>1
      <4>3. CASE row'[k].status = "success" /\ minted[k] > 0
        <5>1. SyncState(k)' = "committed"
          BY <4>3 DEF SyncState
        <5> QED
          BY <1>3, <3>3, <4>1, <4>3, <5>1
      <4> QED
        BY <3>1, <4>2, <4>3
    <3> QED
      BY <3>1, <3>2, <3>3
  <2> QED
    BY <1>1, <2>1, <2>2, <2>3, <2>4, <2>5, <2>6, <2>8 DEF RowStep
<1> QED
  BY <1>2, <1>3

(* Which pushes are late after a step: those that were, or one whose lease *)
(* ended in this step, under an order that is queued.                      *)
LEMMA LatePushes ==
  ASSUME TruthInv, [Next]_vars
  PROVE  /\ \A k \in Keys : row'[k] = row[k] \/ Claims(k) => (Late(k)' => Late(k))
         /\ \A k \in Keys : Late(k)' /\ ~Late(k) =>
              /\ SyncState(k) = "queued" /\ SyncState(k)' = "queued"
              /\ minted'[k] = minted[k]
<1> SUFFICES ASSUME NEW k \in Keys, Late(k)', ~Late(k)
             PROVE  /\ row'[k] # row[k] /\ ~Claims(k)
                    /\ SyncState(k) = "queued" /\ SyncState(k)' = "queued"
                    /\ minted'[k] = minted[k]
  OBVIOUS
<1>1. Expires(k) /\ row[k] \in Row /\ VendorStep(k)
  BY LateStep, StepShape DEF KeyStep, TruthInv, TypeOK
<1>2. row[k].status = "in_progress" /\ row'[k].status = "in_progress"
  BY <1>1 DEF Expires, TruthInv, LeaseDisciplined, Row
<1>3. row[k].lease = "live" /\ row'[k].lease = "expired"
  BY <1>1 DEF Expires, Row
<1>4. row'[k] # row[k]
  BY <1>3
<1>5. ~Claims(k)
  BY <1>1, <1>3 DEF Claims, Claim, Row
<1>6. minted'[k] = minted[k]
  BY <1>1, <1>4 DEF VendorStep
<1> QED
  BY <1>2, <1>4, <1>5, <1>6 DEF SyncState

(* The outbox implements ErpSync: nothing it accepted is forgotten, a      *)
(* commit is backed by the vendor and final, a dead order comes back on    *)
(* request only; and what breaks this is only ever a push that lost its    *)
(* row while it was under way.                                             *)
THEOREM OutboxImplementsErpSync == Spec => ImplementsErpSync
<1> DEFINE sync   == [k \in Keys |-> SyncState(k)]
           orders == {k \in Keys : minted[k] > 0}
           late   == {k \in Keys : Late(k)}
<1>1. Init => Promise!Init
  BY DEF Init, Promise!Init, SyncState, Absent, Late, Holds, NoJob
<1>2. TruthInv /\ [Next]_vars => [Promise!Next]_Promise!vars
  <2> SUFFICES ASSUME TruthInv, [Next]_vars
               PROVE  Promise!Next
    BY DEF Promise!vars
  <2>type. minted \in [Keys -> Nat]
    BY DEF TruthInv, TypeOK
  <2>1. ASSUME NEW k \in Keys,
               \A c \in Keys : c # k => row'[c] = row[c] /\ minted'[c] = minted[c]
        PROVE  Promise!Next
    <3>1. \A c \in Keys : c # k => SyncState(c)' = SyncState(c) /\ minted'[c] = minted[c]
      BY <2>1 DEF SyncState
    <3>2. sync' = [sync EXCEPT ![k] = SyncState(k)']
      BY <3>1
    <3>late. late' \subseteq late \cup {k}
      BY <2>1, LatePushes
    <3>3. CASE k \in late' /\ k \notin late
      <4>1. SyncState(k) = "queued" /\ SyncState(k)' = "queued" /\ minted'[k] = minted[k]
        BY <3>3, LatePushes
      <4>2. sync' = sync /\ orders' = orders
        BY <3>1, <3>2, <4>1
      <4> QED
        BY <3>late, <4>1, <4>2 DEF Promise!Next, Promise!Outlives
    <3>4. CASE k \notin late' \/ k \in late
      <4> DEFINE Fade == late' \in SUBSET late
      <4>fade. Fade
        BY <3>late, <3>4
      <4>1. CASE minted'[k] = minted[k]
        <5>1. orders' = orders
          BY <3>1, <4>1
        <5>2. CASE SyncState(k)' = SyncState(k)
          <6>1. sync' = sync
            BY <3>2, <5>2
          <6> QED
            BY <4>fade, <5>1, <6>1 DEF Promise!Next, Promise!LatePushesMayEnd
        <5>3. CASE SyncState(k) \in {"absent", "dead"} /\ SyncState(k)' = "queued"
          BY <3>2, <4>fade, <5>1, <5>3 DEF Promise!Next, Promise!Enqueue, Promise!LatePushesMayEnd
        <5>4. CASE SyncState(k) = "queued" /\ SyncState(k)' = "committed" /\ minted[k] > 0
          BY <3>2, <4>fade, <5>1, <5>4 DEF Promise!Next, Promise!Commit, Promise!LatePushesMayEnd
        <5>5. CASE SyncState(k) = "queued" /\ SyncState(k)' = "dead"
          BY <3>2, <4>fade, <5>1, <5>5 DEF Promise!Next, Promise!GiveUp, Promise!LatePushesMayEnd
        <5>6. CASE /\ Late(k) /\ SyncState(k) # "absent"
                   /\ SyncState(k)' \in {"queued", "committed", "dead"}
                   /\ SyncState(k)' = "committed" => minted[k] > 0
          <6>1. k \in late /\ sync[k] # "absent"
            BY <5>6
          <6>2. SyncState(k)' = "committed" => k \in orders
            BY <5>6
          <6> QED
            BY <3>2, <4>fade, <5>1, <5>6, <6>1, <6>2
               DEF Promise!Next, Promise!WritesLate, Promise!LatePushesMayEnd
        <5> QED
          BY <4>1, <5>2, <5>3, <5>4, <5>5, <5>6, PromisedStep
      <4>2. CASE minted'[k] # minted[k]
        <5>1. SyncState(k) # "absent" /\ SyncState(k)' = SyncState(k) /\ minted'[k] > 0
          BY <4>2, PromisedStep
        <5>2. orders' = orders \cup {k} /\ sync' = sync
          BY <3>1, <3>2, <5>1
        <5> QED
          BY <4>fade, <5>1, <5>2 DEF Promise!Next, Promise!VendorCreates, Promise!LatePushesMayEnd
      <4> QED
        BY <4>1, <4>2
    <3> QED
      BY <3>3, <3>4
  <2>2. CASE \A c \in Keys : minted'[c] = minted[c] /\ (row'[c] = row[c] \/ Claims(c))
    <3>1. ASSUME NEW c \in Keys PROVE SyncState(c)' = SyncState(c)
      <4>1. CASE row'[c] = row[c]
        BY <4>1 DEF SyncState
      <4>2. CASE Claims(c)
        <5>1. row[c].status \in {"pending", "in_progress"} /\ row'[c].status = "in_progress"
          BY <4>2 DEF Claims, Eligible, Claim, TruthInv, TypeOK, Row
        <5> QED
          BY <5>1 DEF SyncState
      <4> QED
        BY <2>2, <4>1, <4>2
    <3>2. sync' = sync /\ orders' = orders
      BY <2>2, <3>1
    <3>3. late' \in SUBSET late
      BY <2>2, LatePushes
    <3> QED
      BY <3>2, <3>3 DEF Promise!Next, Promise!LatePushesMayEnd
  <2> QED
    BY <2>1, <2>2, Locality DEF TruthInv
<1> QED
  BY <1>1, <1>2, TruthInvariant, PTL DEF Spec, ImplementsErpSync, Promise!Spec

-----------------------------------------------------------------------------
(* The circuit breaker. *)

(* An open circuit has no failures on its account: it starts over. *)
OpenStartsOver == circuit.state = "open" => circuit.fails = 0

BreakerInv == BreakerTypeOK /\ CountsFailures /\ OpenStartsOver

(* What one step does to the breaker. *)
LEMMA CircuitStep ==
  ASSUME BreakerInv, [BreakerNext]_breakerVars
  PROVE  /\ BreakerTypeOK'
         /\ \/ circuit' = circuit /\ streak' = streak
            \/ circuit' = Gated(circuit) /\ ~Blocks(circuit) /\ streak' = streak
            \/ circuit' = NotedSuccess(circuit) /\ streak' = 0
            \/ /\ circuit' = NotedFailure(circuit)
               /\ streak' = IF streak < FailMax THEN streak + 1 ELSE FailMax
            \/ Blocks(circuit) /\ circuit' = [circuit EXCEPT !.cooling = FALSE] /\ streak' = streak
<1> USE FailMaxAssumption DEF BreakerInv
<1>noted. /\ NotedSuccess(circuit) \in Circuit
          /\ Gated(circuit) \in Circuit
          /\ NotedFailure(circuit) \in Circuit
  BY DEF BreakerTypeOK, Circuit, NotedSuccess, Gated, NotedFailure, Blocks, Closed, Opened
<1>1. ASSUME NEW c \in Calls, Begin(c) PROVE circuit' = Gated(circuit) /\ BreakerTypeOK'
  BY <1>1, <1>noted DEF Begin, BreakerTypeOK, CallState
<1>2. ASSUME NEW c \in Calls, Reject(c) PROVE UNCHANGED <<circuit, streak>> /\ BreakerTypeOK'
  BY <1>2 DEF Reject, BreakerTypeOK, CallState
<1>3. ASSUME NEW c \in Calls, Succeed(c) PROVE BreakerTypeOK'
  BY <1>3, <1>noted DEF Succeed, Ends, BreakerTypeOK, CallState
<1>4. ASSUME NEW c \in Calls, Fail(c) PROVE BreakerTypeOK'
  BY <1>4, <1>noted DEF Fail, Ends, BreakerTypeOK, CallState
<1>5. ASSUME NEW c \in Calls, EndUnnoticed(c) PROVE BreakerTypeOK'
  BY <1>5 DEF EndUnnoticed, Ends, BreakerTypeOK, CallState
<1>6. CASE TimeoutElapses
  BY <1>6 DEF TimeoutElapses, BreakerTypeOK, Circuit
<1>7. CASE UNCHANGED breakerVars
  BY <1>7 DEF breakerVars, BreakerTypeOK
<1> QED
  BY <1>1, <1>2, <1>3, <1>4, <1>5, <1>6, <1>7
     DEF BreakerNext, Begin, Reject, Succeed, Fail, EndUnnoticed, Admits

(* What pybreaker makes of its counter when it is told of a failure: with a *)
(* counter that is honest before, it trips only at fail_max, else counts one. *)
LEMMA NotedFailureCounts ==
  ASSUME NEW cb \in Circuit, NEW n \in Nat, cb.fails <= n,
         cb.state = "closed" => cb.fails < FailMax,
         cb.state = "open" => cb.fails = 0
  PROVE  \A m \in Nat :
           m = (IF n < FailMax THEN n + 1 ELSE FailMax) =>
             /\ NotedFailure(cb).fails <= m
             /\ NotedFailure(cb).state = "closed" => NotedFailure(cb).fails < FailMax
             /\ NotedFailure(cb).state = "open" => NotedFailure(cb).fails = 0
             /\ cb.state = "closed" /\ NotedFailure(cb).state = "open" => m >= FailMax
<1> USE FailMaxAssumption
<1> TAKE m \in Nat
<1> HAVE m = (IF n < FailMax THEN n + 1 ELSE FailMax)
<1>fails. cb.fails \in Nat /\ cb.fails <= m /\ FailMax \in Nat
  BY DEF Circuit
<1>1. CASE Blocks(cb)
  <2>1. NotedFailure(cb) = cb
    BY <1>1 DEF NotedFailure, Blocks
  <2> QED
    BY <1>1, <1>fails, <2>1 DEF Blocks
<1>2. CASE NotedFailure(cb) = Opened /\ (cb.state = "closed" => cb.fails + 1 >= FailMax)
  <2>1. Opened.state = "open" /\ Opened.fails = 0
    BY DEF Opened
  <2>2. cb.state = "closed" => m >= FailMax
    BY <1>2, <1>fails
  <2> QED
    BY <1>2, <2>1, <2>2
<1>3. CASE cb.state = "closed" /\ cb.fails + 1 < FailMax
  <2>1. NotedFailure(cb) = [cb EXCEPT !.fails = cb.fails + 1]
    BY <1>3 DEF NotedFailure, Blocks, Circuit
  <2>2. NotedFailure(cb).state = "closed" /\ NotedFailure(cb).fails = cb.fails + 1
    BY <1>3, <2>1 DEF Circuit
  <2> QED
    BY <1>3, <1>fails, <2>2
<1>4. CASE ~Blocks(cb) /\ cb.state = "open"
  BY <1>2, <1>4 DEF NotedFailure
<1>5. CASE cb.state = "closed" /\ cb.fails + 1 >= FailMax
  BY <1>2, <1>5, <1>fails DEF NotedFailure, Blocks
<1> QED
  BY <1>1, <1>3, <1>4, <1>5, <1>fails DEF Circuit

(* The counter and the history agree after every step. *)
LEMMA BreakerInvStep == BreakerInv /\ [BreakerNext]_breakerVars => BreakerInv'
<1> SUFFICES ASSUME BreakerInv, [BreakerNext]_breakerVars PROVE BreakerInv'
  OBVIOUS
<1>type. /\ circuit \in Circuit /\ streak \in Nat /\ FailMax \in Nat /\ FailMax > 0
         /\ circuit.fails \in Nat /\ circuit.fails <= streak
         /\ circuit.state = "closed" => circuit.fails < FailMax
         /\ circuit.state = "open" => circuit.fails = 0
  BY FailMaxAssumption DEF BreakerInv, BreakerTypeOK, CountsFailures, OpenStartsOver, Circuit
<1>1. CountsFailures' /\ OpenStartsOver'
  <2> USE DEF CountsFailures, OpenStartsOver
  <2>1. CASE circuit' = Closed /\ streak' \in Nat
    BY <1>type, <2>1 DEF Closed
  <2>2. CASE circuit' = circuit /\ \/ streak' = streak
                                   \/ circuit.state = "open" /\ streak' = 0
    BY <1>type, <2>2
  <2>3. CASE /\ circuit' = NotedFailure(circuit)
             /\ streak' = IF streak < FailMax THEN streak + 1 ELSE FailMax
    BY <1>type, <2>3, NotedFailureCounts
  <2>4. CASE circuit' = [circuit EXCEPT !.cooling = FALSE] /\ streak' = streak
    BY <1>type, <2>4 DEF Circuit
  <2> QED
    BY <1>type, <2>1, <2>2, <2>3, <2>4, CircuitStep DEF Gated, NotedSuccess, Blocks
<1> QED
  BY <1>1, CircuitStep DEF BreakerInv

(* Hence they agree throughout. *)
LEMMA BreakerInvariant == BreakerSpec => []BreakerInv
<1>1. BreakerInit => BreakerInv
  BY FailMaxAssumption DEF BreakerInit, BreakerInv, BreakerTypeOK, CountsFailures, OpenStartsOver, Closed, Circuit, CallState
<1> QED
  BY <1>1, BreakerInvStep, PTL DEF BreakerSpec

(* The failure counter of the breaker counts failures of the vendor alone: *)
(* it never exceeds those since the vendor's last success.                 *)
THEOREM CounterIsHonest == BreakerSpec => []CountsFailures
BY BreakerInvariant, PTL DEF BreakerInv

(* The circuit opens only on fail_max failures in a row, in whatever order *)
(* concurrent calls begin and end.                                         *)
THEOREM OpensOnStreak == BreakerSpec => TripsOnStreak
<1>1. BreakerInv /\ [BreakerNext]_breakerVars =>
        [circuit.state = "closed" /\ circuit'.state = "open" => streak' >= FailMax]_breakerVars
  <2> SUFFICES ASSUME BreakerInv, [BreakerNext]_breakerVars, circuit.state = "closed", circuit'.state = "open"
               PROVE  streak' >= FailMax
    OBVIOUS
  <2>1. circuit \in Circuit /\ streak \in Nat /\ circuit.fails <= streak /\ circuit.fails < FailMax
    BY DEF BreakerInv, BreakerTypeOK, CountsFailures
  <2>2. Gated(circuit).state = "closed" /\ NotedSuccess(circuit).state = "closed"
    BY DEF Gated, NotedSuccess, Blocks, Closed
  <2>3. /\ circuit' = NotedFailure(circuit)
        /\ streak' = IF streak < FailMax THEN streak + 1 ELSE FailMax
    BY <2>2, CircuitStep DEF Blocks
  <2> QED
    BY <2>1, <2>3, NotedFailureCounts
<1> QED
  BY <1>1, BreakerInvariant, PTL DEF BreakerSpec, TripsOnStreak

(* While the circuit is open and its timeout runs, no request is sent and  *)
(* no late answer of an earlier one moves the breaker.                     *)
THEOREM ShieldsOutage == BreakerSpec => OutageIsShielded
<1>1. BreakerInv /\ [BreakerNext]_breakerVars =>
        [Blocks(circuit) =>
           /\ circuit' \in {circuit, [circuit EXCEPT !.cooling = FALSE]}
           /\ \A c \in Calls : call'[c] = "running" => call[c] = "running"]_breakerVars
  <2> SUFFICES ASSUME BreakerInv, [BreakerNext]_breakerVars, Blocks(circuit)
               PROVE  /\ circuit' \in {circuit, [circuit EXCEPT !.cooling = FALSE]}
                      /\ \A c \in Calls : call'[c] = "running" => call[c] = "running"
    OBVIOUS
  <2>1. circuit' \in {circuit, [circuit EXCEPT !.cooling = FALSE]}
    <3>1. NotedSuccess(circuit) = circuit /\ NotedFailure(circuit) = circuit
      BY DEF NotedSuccess, NotedFailure, Blocks
    <3> QED
      BY <3>1, CircuitStep
  <2>2. ASSUME NEW c \in Calls PROVE ~Begin(c)
    BY DEF Begin, Admits
  <2>3. \A c \in Calls : call'[c] = "running" => call[c] = "running"
    BY <2>2 DEF BreakerInv, BreakerTypeOK, BreakerNext, Reject, Succeed, Fail, EndUnnoticed, Ends,
                TimeoutElapses, breakerVars
  <2> QED
    BY <2>1, <2>3
<1> QED
  BY <1>1, BreakerInvariant, PTL DEF BreakerSpec, OutageIsShielded
=============================================================================

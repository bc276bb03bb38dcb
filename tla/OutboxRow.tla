------------------------------ MODULE OutboxRow ------------------------------
(***************************************************************************)
(* One row of the table erp_sync_records, as the outbox repository of the  *)
(* ERP adapter reads and writes it (services/erp-adapter/src/outbox/repo.py)*)
(* Each operator below is one SQL statement of AsyncpgOutboxRepo, the      *)
(* in-memory repository doing the same under its lock: a function from the *)
(* row to the row it leaves.  The operators are pure; ErpOutbox decides    *)
(* when a worker, a route or a webhook applies them.                       *)
(*                                                                         *)
(* Clock columns are kept by the only fact that any statement asks of them: *)
(* `due` is next_attempt_at <= NOW(), and `lease` is NULL, in the future   *)
(* ("live") or in the past ("expired").                                    *)
(***************************************************************************)
EXTENDS Naturals

Status     == {"absent", "pending", "in_progress", "success", "failed"}
LeaseState == {"null", "live", "expired"}

(* erp_reference_id is the number of the purchase order the vendor minted  *)
(* for the row's idempotency key, and 0 is SQL's NULL.                     *)
NoRef == 0

Row == [status   : Status,
        attempts : Nat,
        due      : BOOLEAN,
        lease    : LeaseState,
        ref      : Nat]

(* The idempotency key has no row yet. *)
Absent == [status |-> "absent", attempts |-> 0, due |-> TRUE,
           lease |-> "null", ref |-> NoRef]

-----------------------------------------------------------------------------
(* insert_pending: ON CONFLICT (idempotency_key) the row stays as it is.   *)
InsertPendingOverwrites(row) == [Absent EXCEPT !.status = "pending"]

InsertPending(row) ==
  IF row.status = "absent" THEN [Absent EXCEPT !.status = "pending"] ELSE row

(* The WHERE clause of claim_batch: work that is due, or that a worker     *)
(* took and did not finish within its lease.                               *)
EligibleIgnoresLease(row) ==
  \/ row.status = "pending" /\ row.due
  \/ row.status = "in_progress"

EligibleNeverReclaims(row) == row.status = "pending" /\ row.due

Eligible(row) ==
  \/ row.status = "pending" /\ row.due
  \/ row.status = "in_progress" /\ row.lease = "expired"

(* The UPDATE of claim_batch. *)
Claim(row) ==
  [row EXCEPT !.status = "in_progress", !.attempts = @ + 1, !.lease = "live"]

MarkSuccess(row, r) ==
  [row EXCEPT !.status = "success", !.ref = r, !.lease = "null"]

Reschedule(row) ==
  [row EXCEPT !.status = "pending", !.due = FALSE, !.lease = "null"]

MarkDead(row) == [row EXCEPT !.status = "failed", !.lease = "null"]

(* COALESCE(erp_reference_id, r) by idempotency key; the status stays.     *)
UpdateInboundState(row, r) ==
  IF row.status # "absent" /\ row.ref = NoRef THEN [row EXCEPT !.ref = r] ELSE row

(* WHERE status = 'failed': anything else is left alone (HTTP 409).        *)
ReplayAnyRow(row) ==
  IF row.status = "absent"
  THEN row
  ELSE [row EXCEPT !.status = "pending", !.attempts = 0, !.due = TRUE, !.lease = "null"]

Replay(row) ==
  IF row.status = "failed"
  THEN [row EXCEPT !.status = "pending", !.attempts = 0, !.due = TRUE, !.lease = "null"]
  ELSE row
=============================================================================

------------------------------ MODULE GrantOps ------------------------------
(***************************************************************************)
(* The Grant record of contracts/grant_stream/src/lib.rs and the pure      *)
(* functions over it: warm-up multiplier, accrual, the validator split and *)
(* settle_grant, which every state-changing entry point calls first.       *)
(*                                                                         *)
(* A basis-point denominator, the validator's share and the warm-up floor  *)
(* are parameters, so that small instances can use 1/4 where the code uses *)
(* 500/10000; the theorems hold for every value, the code's included.      *)
(* Fields no handler reads back (rate_updated_at, last_claim_time,         *)
(* pause_reason, clawback_checkpoint, stream_type, token, streamed_amount) *)
(* and redirect, which is never anything but None, are left out.           *)
(***************************************************************************)
EXTENDS Integers

CONSTANTS
  Recipients,             \* addresses that can be a grantee
  Validators,             \* addresses that can be a grant's validator
  Donors,                 \* addresses that can be a grant's donor
  None,                   \* Option::None
  BPS,                    \* 10000 in the code
  VALIDATOR_BPS,          \* 500 in the code
  WARMUP_FLOOR_BPS        \* 2500 in the code

ASSUME GrantOpsAssumption ==
  /\ BPS \in Nat \ {0}
  /\ VALIDATOR_BPS \in 0..BPS
  /\ WARMUP_FLOOR_BPS \in 0..BPS
  /\ None \notin Recipients \cup Validators \cup Donors

GrantStatus ==
  {"Active", "Paused", "Completed", "Cancelled", "RageQuitted", "Clawbacked"}

(* A grant that is not in storage is the record Absent.                    *)
Grant ==
  [ recipient                 : Recipients \cup {None},
    donor                     : Donors \cup {None},
    validator                 : Validators \cup {None},
    status                    : GrantStatus \cup {"Absent"},
    total_amount              : Nat,
    withdrawn                 : Nat,
    claimable                 : Nat,
    validator_withdrawn       : Nat,
    validator_claimable       : Nat,
    flow_rate                 : Nat,
    pending_rate              : Nat,
    effective_timestamp       : Nat,
    last_update_ts            : Nat,
    start_time                : Nat,
    warmup_duration           : Nat,
    legal_hash                : BOOLEAN,      \* legal_hash.is_some()
    requires_legal_signature  : BOOLEAN,
    is_legal_signed           : BOOLEAN,
    cancellation_initiated_at : Nat,
    clawback_eligible         : Nat ]

(* What create_grant stores; Absent is the same record with no owner.      *)
NewGrant(recipient, total, rate, warmup, validator, donor, now) ==
  [ recipient |-> recipient, donor |-> donor, validator |-> validator,
    status |-> "Active", total_amount |-> total, withdrawn |-> 0,
    claimable |-> 0, validator_withdrawn |-> 0, validator_claimable |-> 0,
    flow_rate |-> rate, pending_rate |-> 0, effective_timestamp |-> 0,
    last_update_ts |-> now, start_time |-> now, warmup_duration |-> warmup,
    legal_hash |-> FALSE, requires_legal_signature |-> FALSE,
    is_legal_signed |-> FALSE, cancellation_initiated_at |-> 0,
    clawback_eligible |-> 0 ]

Absent == [NewGrant(None, 0, 0, 0, None, None, 0) EXCEPT !.status = "Absent"]

(***************************************************************************)
(* Accounting.                                                             *)
(***************************************************************************)

PaidOut(g) == g.withdrawn + g.validator_withdrawn

Accounted(g) == PaidOut(g) + g.claimable + g.validator_claimable

(* Mutant: claimable amounts are taken for unearned.                       *)
UnearnedOrClaimable(g) == g.total_amount - PaidOut(g)

(* calculate_unearned_balance: what has not been streamed to anyone.       *)
Unearned(g) == g.total_amount - Accounted(g)

AwaitsSignature(g) == g.requires_legal_signature /\ ~g.is_legal_signed

(***************************************************************************)
(* Accrual.                                                                *)
(***************************************************************************)

WarmupMultiplier(g, now) ==
  LET progress == ((now - g.start_time) * BPS) \div g.warmup_duration
  IN  IF g.warmup_duration = 0 \/ now >= g.start_time + g.warmup_duration
      THEN BPS
      ELSE IF now <= g.start_time
           THEN WARMUP_FLOOR_BPS
           ELSE WARMUP_FLOOR_BPS + ((BPS - WARMUP_FLOOR_BPS) * progress) \div BPS

Accrued(g, elapsed, now) ==
  (g.flow_rate * elapsed * WarmupMultiplier(g, now)) \div BPS

ValidatorShare(accrued) == (accrued * VALIDATOR_BPS) \div BPS

AccruedSplit(g, accrued) ==
  LET share == IF g.validator = None THEN 0 ELSE ValidatorShare(accrued)
  IN  [g EXCEPT !.claimable = @ + (accrued - share),
                !.validator_claimable = @ + share]

(* A rate increase whose timelock has run out.                             *)
SwitchDue(g, now) ==
  /\ g.pending_rate > g.flow_rate
  /\ g.effective_timestamp # 0
  /\ now >= g.effective_timestamp

WithPendingRate(g) ==
  [g EXCEPT !.flow_rate = g.pending_rate, !.pending_rate = 0,
            !.effective_timestamp = 0, !.last_update_ts = g.effective_timestamp]

(* Accrual since last_update_ts: at one rate, or at the old rate up to the *)
(* switch and at the new rate from there.                                  *)
Accrue(g, now) ==
  IF SwitchDue(g, now)
  THEN LET switch   == g.effective_timestamp
           before   == Accrued(g, switch - g.last_update_ts, switch)
           switched == WithPendingRate(AccruedSplit(g, before))
       IN  AccruedSplit(switched, Accrued(switched, now - switch, now))
  ELSE AccruedSplit(g, Accrued(g, now - g.last_update_ts, now))

(* Mutants of Capped: no floor at zero; what was paid out forgotten; the   *)
(* validator's claimable share forgotten; no trimming.                     *)
CappedWithoutFloor(g) ==
  IF Accounted(g) >= g.total_amount
  THEN [g EXCEPT !.claimable = g.total_amount - (PaidOut(g) + g.validator_claimable),
                 !.status = "Completed"]
  ELSE g

CappedAtTotal(g) ==
  IF Accounted(g) >= g.total_amount
  THEN [g EXCEPT !.claimable = g.total_amount, !.status = "Completed"]
  ELSE g

CappedBesideValidator(g) ==
  IF Accounted(g) >= g.total_amount
  THEN [g EXCEPT !.claimable = g.total_amount - g.withdrawn, !.status = "Completed"]
  ELSE g

CappedByStatusAlone(g) ==
  IF Accounted(g) >= g.total_amount THEN [g EXCEPT !.status = "Completed"] ELSE g

(* The cap trims the grantee's side only; validator_claimable is kept.     *)
Capped(g) ==
  LET room == g.total_amount - (PaidOut(g) + g.validator_claimable)
  IN  IF Accounted(g) >= g.total_amount
      THEN [g EXCEPT !.claimable = IF room > 0 THEN room ELSE 0,
                     !.status = "Completed"]
      ELSE g

Accruing(g, now) ==
  g.status = "Active" /\ ~AwaitsSignature(g) /\ now > g.last_update_ts

(* settle_grant fails when the clock is behind last_update_ts, and traps   *)
(* on switch_ts - last_update_ts when the switch is behind last_update_ts. *)
CanSettle(g, now) ==
  /\ g.last_update_ts <= now
  /\ Accruing(g, now) /\ SwitchDue(g, now)
       => g.last_update_ts <= g.effective_timestamp

Settle(g, now) ==
  IF now = g.last_update_ts
  THEN g
  ELSE IF g.status = "Active" /\ AwaitsSignature(g)
       THEN [g EXCEPT !.last_update_ts = now]
       ELSE [Capped(IF g.status = "Active" THEN Accrue(g, now) ELSE g)
               EXCEPT !.last_update_ts = now]

=============================================================================

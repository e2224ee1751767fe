-------------------------- MODULE CircuitBreakers ---------------------------
(***************************************************************************)
(* The circuit breakers as a component: the entry points of                *)
(* GrantStreamContract that reach circuit_breakers.rs, interleaved with    *)
(* the withdrawals and grant creations the breakers gate and with ledger   *)
(* time. A withdrawal is here any amount of Amounts; GrantStream, that     *)
(* implements this module, decides which amounts a grant really allows.    *)
(***************************************************************************)
EXTENDS CircuitBreakerOps

CONSTANTS
  Amounts,                \* amounts a withdrawal may have
  Prices,                 \* prices the oracle may report
  Liquidities,            \* TVL snapshots the admin may record
  ActiveCounts,           \* numbers of Active and Paused grants
  MaxTime,                \* bound: the last ledger timestamp
  MaxDisputes,            \* bound: disputes counted since the last reset
  MaxXlm                  \* bound: the contract's native balance

ASSUME CircuitBreakersAssumption ==
  /\ Amounts \cup Prices \subseteq Nat \ {0}
  /\ Liquidities \cup ActiveCounts \subseteq Nat
  /\ {MaxTime, MaxDisputes, MaxXlm} \subseteq Nat

VARIABLES
  time,                   \* env.ledger().timestamp()
  breaker                 \* the breakers' storage keys

vars == <<time, breaker>>

TypeOK ==
  /\ time \in Nat
  /\ breaker \in Breaker
  /\ breaker.xlm <= MaxXlm

Init ==
  /\ time = 1
  /\ \E xlm \in 0..MaxXlm : breaker = FreshBreaker(xlm)

(***************************************************************************)
(* The gated operations.                                                   *)
(***************************************************************************)

(* Mutant: the velocity is recorded, the checks are gone.                  *)
WithdrawUnchecked(amount) ==
  /\ breaker' = CheckRentBalance(RecordWithdrawalVelocity(breaker, amount, time))
  /\ UNCHANGED time

(* withdraw: the checks, then the velocity record, then the rent check.    *)
Withdraw(amount) ==
  /\ WithdrawalsAllowed(breaker)
  /\ breaker' = CheckRentBalance(RecordWithdrawalVelocity(breaker, amount, time))
  /\ UNCHANGED time

(* trigger_grant_dispute, with the number of Active and Paused grants.     *)
TriggerGrantDispute(active) ==
  /\ breaker.DispAcc < MaxDisputes
  /\ breaker' = RecordDispute(breaker, active, time)
  /\ UNCHANGED time

(***************************************************************************)
(* The oracle's, the admin's and the sanity oracle's entry points.         *)
(***************************************************************************)

SubmitOraclePrice(price) ==
  /\ breaker' = RecordOraclePrice(breaker, price)
  /\ UNCHANGED time

DesignateSanityOracle(oracle) ==
  /\ breaker' = SetSanityOracle(breaker, oracle)
  /\ UNCHANGED time

(* No function writes the key SanityOracle, so this is never enabled; it   *)
(* is not a disjunct of Next.                                              *)
ConfirmPrice(caller, price) ==
  /\ AcceptsConfirmation(breaker, caller)
  /\ breaker' = ConfirmOraclePrice(breaker, price)
  /\ UNCHANGED time

SnapshotTvl(liquidity) ==
  /\ breaker' = UpdateTvlSnapshot(breaker, liquidity)
  /\ UNCHANGED time

ResumeVelocity ==
  /\ breaker' = ResumeAfterVelocityCheck(breaker, time)
  /\ UNCHANGED time

ResumeInitialization ==
  /\ breaker' = ResumeGrantInitialization(breaker, time)
  /\ UNCHANGED time

CheckRent ==
  /\ breaker' = CheckRentBalance(breaker)
  /\ UNCHANGED time

DisableRentPreservation ==
  /\ breaker' = DisableRentPreservationMode(breaker)
  /\ UNCHANGED time

(***************************************************************************)
(* The environment: native transfers in and out, and the clock.            *)
(***************************************************************************)

NativeTransfer(xlm) ==
  /\ breaker' = [breaker EXCEPT !.xlm = xlm]
  /\ UNCHANGED time

Tick ==
  /\ time < MaxTime
  /\ time' = time + 1
  /\ UNCHANGED breaker

Next ==
  \/ \E amount \in Amounts : Withdraw(amount)
  \/ \E active \in ActiveCounts : TriggerGrantDispute(active)
  \/ \E price \in Prices : SubmitOraclePrice(price)
  \/ \E oracle \in SanityOracles : DesignateSanityOracle(oracle)
  \/ \E liquidity \in Liquidities : SnapshotTvl(liquidity)
  \/ ResumeVelocity
  \/ ResumeInitialization
  \/ CheckRent
  \/ DisableRentPreservation
  \/ \E xlm \in 0..MaxXlm : NativeTransfer(xlm)
  \/ Tick

Spec == Init /\ [][Next]_vars

(***************************************************************************)
(* Properties.                                                             *)
(***************************************************************************)

(* While grant initialization is open, the disputes counted since the last *)
(* reset stay below the threshold share of the grants that were active     *)
(* when counting began: no path through window expiry, re-snapshot or      *)
(* resume leaves record_dispute at its threshold with GntHalt clear.       *)
UnhaltedBelowThreshold ==
  ~breaker.GntHalt /\ breaker.ActGntSn > 0
    => ~Reaches(breaker.DispAcc, breaker.ActGntSn, DISPUTE_THRESHOLD_BPS)

(* "The freeze is lifted only after a designated sanity-check oracle       *)
(* confirms the new price": the header of circuit_breakers.rs, about every *)
(* step that ends a freeze.                                                *)
FreezeNeedsConfirmation ==
  [][breaker.OraFrozen /\ ~breaker'.OraFrozen
       => \E caller \in SanityOracles, price \in Prices : ConfirmPrice(caller, price)]_vars

=============================================================================

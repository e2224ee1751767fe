--------------------------- MODULE BreakerHistory ---------------------------
(***************************************************************************)
(* CircuitBreakers with a history of withdrawals, to compare what the      *)
(* velocity breaker counts with what was really withdrawn. log holds the   *)
(* withdrawals since the last resume_after_velocity_check, as records of   *)
(* ledger timestamp, amount and the TVL snapshot in force; no guard reads  *)
(* it.                                                                     *)
(***************************************************************************)
EXTENDS CircuitBreakers, SequencesExt

CONSTANTS
  MaxWithdrawals          \* bound: length of log

VARIABLES
  log

hvars == <<vars, log>>

HInit == Init /\ log = <<>>

LoggedWithdraw(amount) ==
  /\ Len(log) < MaxWithdrawals
  /\ Withdraw(amount)
  /\ log' = Append(log, [ts |-> time, amount |-> amount, tvl |-> breaker.TvlSnap])

LoggedResume == ResumeVelocity /\ log' = <<>>

LoggedSnapshot(liquidity) == SnapshotTvl(liquidity) /\ UNCHANGED log

LoggedTick == Tick /\ UNCHANGED log

(* The other breakers' entry points withdraw nothing.                      *)
LoggedOther ==
  /\ \/ \E active \in ActiveCounts : TriggerGrantDispute(active)
     \/ \E price \in Prices : SubmitOraclePrice(price)
     \/ \E oracle \in SanityOracles : DesignateSanityOracle(oracle)
     \/ ResumeInitialization
     \/ CheckRent
     \/ DisableRentPreservation
     \/ \E xlm \in 0..MaxXlm : NativeTransfer(xlm)
  /\ UNCHANGED log

HNext ==
  \/ \E amount \in Amounts : LoggedWithdraw(amount)
  \/ \E liquidity \in Liquidities : LoggedSnapshot(liquidity)
  \/ LoggedResume
  \/ LoggedTick
  \/ LoggedOther

HSpec == HInit /\ [][HNext]_hvars

(***************************************************************************)
(* Sums over the history.                                                  *)
(***************************************************************************)

Withdrawn(seq, from) ==
  SumFunction([i \in DOMAIN seq |-> IF seq[i].ts >= from THEN seq[i].amount ELSE 0])

WindowStart == WithDefault(breaker.VelWinSt, 0)

RollingStart == IF time < VELOCITY_WINDOW THEN 0 ELSE time - VELOCITY_WINDOW + 1

SnapshotStable == \A i \in DOMAIN log : log[i].tvl = breaker.TvlSnap

(***************************************************************************)
(* Properties.                                                             *)
(***************************************************************************)

(* VelAccum is exactly what was withdrawn since the current window began,  *)
(* and everything since the beginning while no window has been started:    *)
(* record_withdrawal_velocity loses and double-counts nothing.             *)
AccumulatorIsWindowTotal == breaker.VelAccum = Withdrawn(log, WindowStart)

(* With an unchanged TVL snapshot, what a window pays out passes the drain *)
(* limit with at most one withdrawal, the one that engages SoftPause.      *)
LimitPassedByOneWithdrawal ==
  SnapshotStable /\ breaker.TvlSnap > 0 /\ log # <<>>
    => ~Reaches(Withdrawn(Front(log), WindowStart), breaker.TvlSnap, TVL_DRAIN_BPS)

(* "Tracks the total amount withdrawn from the protocol within any rolling *)
(* 6-hour window. If cumulative withdrawals exceed 20% ... the contract    *)
(* enters SoftPause": the header of circuit_breakers.rs, read as what the  *)
(* velocity breaker must catch.                                            *)
RollingDrainPauses ==
  SnapshotStable /\ breaker.TvlSnap > 0
    /\ Reaches(Withdrawn(log, RollingStart), breaker.TvlSnap, TVL_DRAIN_BPS)
    => breaker.SoftPa

=============================================================================

------------------------- MODULE CircuitBreakerOps --------------------------
(***************************************************************************)
(* The circuit breakers of contracts/grant_stream/src/circuit_breakers.rs: *)
(* oracle price guard, withdrawal velocity, mass dispute trigger and rent  *)
(* preservation. Their storage keys are the fields of one record, and each *)
(* function of the file is an operator from the record to the record.      *)
(*                                                                         *)
(* A field that has never been written is None where the code's default    *)
(* depends on the moment of reading (unwrap_or(now)), else its default.    *)
(* check_oracle_heartbeat and set_manual_exchange_rate are not reachable   *)
(* from any entry point, so the no-heartbeat freeze is never set and is    *)
(* left out with the heartbeat timestamp only they read.                   *)
(***************************************************************************)
EXTENDS Integers

CONSTANTS
  Unset,                  \* a storage key that has never been written
  SanityOracles,          \* addresses the admin may designate
  BPS_UNIT,               \* 10000 in the code
  PRICE_DEVIATION_BPS,    \* 5000 in the code
  TVL_DRAIN_BPS,          \* 2000 in the code
  DISPUTE_THRESHOLD_BPS,  \* 1500 in the code
  VELOCITY_WINDOW,        \* 6 hours in the code
  DISPUTE_WINDOW,         \* 24 hours in the code
  RENT_BUFFER             \* 3 XLM in the code

ASSUME BreakerAssumption ==
  /\ {BPS_UNIT, TVL_DRAIN_BPS, VELOCITY_WINDOW, DISPUTE_WINDOW} \subseteq Nat \ {0}
  /\ {PRICE_DEVIATION_BPS, DISPUTE_THRESHOLD_BPS, RENT_BUFFER} \subseteq Nat
  /\ Unset \notin Nat
  /\ Unset \notin SanityOracles

Breaker ==
  [ LastPric             : Nat,
    OraFrozen            : BOOLEAN,
    SanityOra            : SanityOracles \cup {Unset},  \* set_sanity_oracle writes
    SanityOracle         : SanityOracles \cup {Unset},  \* confirm_oracle_price reads
    VelWinSt             : Nat \cup {Unset},
    VelAccum             : Nat,
    TvlSnap              : Nat,
    SoftPa               : BOOLEAN,
    DispWin              : Nat \cup {Unset},
    DispAcc              : Nat,
    ActGntSn             : Nat,
    GntHalt              : BOOLEAN,
    RentPreservationMode : BOOLEAN,
    xlm                  : Nat ]      \* the contract's native balance

FreshBreaker(xlm) ==
  [ LastPric |-> 0, OraFrozen |-> FALSE, SanityOra |-> Unset,
    SanityOracle |-> Unset, VelWinSt |-> Unset, VelAccum |-> 0, TvlSnap |-> 0,
    SoftPa |-> FALSE, DispWin |-> Unset, DispAcc |-> 0, ActGntSn |-> 0,
    GntHalt |-> FALSE, RentPreservationMode |-> FALSE, xlm |-> xlm ]

WithDefault(value, default) == IF value = Unset THEN default ELSE value

Expired(start, window, now) == now - WithDefault(start, now) >= window

(* part / whole in basis points has reached the threshold.                 *)
Reaches(part, whole, threshold) == (part * BPS_UNIT) \div whole >= threshold

(***************************************************************************)
(* Oracle price guard.                                                     *)
(***************************************************************************)

Deviates(b, price) ==
  LET diff == IF price > b.LastPric THEN price - b.LastPric ELSE b.LastPric - price
  IN  b.LastPric > 0 /\ Reaches(diff, b.LastPric, PRICE_DEVIATION_BPS)

RecordOraclePrice(b, price) ==
  IF Deviates(b, price)
  THEN [b EXCEPT !.OraFrozen = TRUE]
  ELSE [b EXCEPT !.LastPric = price, !.OraFrozen = FALSE]

SetSanityOracle(b, oracle) == [b EXCEPT !.SanityOra = oracle]

(* confirm_oracle_price accepts its caller; the freeze it clears is under  *)
(* the key OracleFrozen, which is_oracle_frozen does not read.             *)
AcceptsConfirmation(b, caller) == b.SanityOracle # Unset /\ caller = b.SanityOracle

ConfirmOraclePrice(b, price) == [b EXCEPT !.LastPric = price]

(***************************************************************************)
(* Withdrawal velocity.                                                    *)
(***************************************************************************)

UpdateTvlSnapshot(b, liquidity) == [b EXCEPT !.TvlSnap = liquidity]

(* Mutant: an expired window keeps what it has accumulated.                *)
RecordVelocityWithoutReset(b, amount, now) ==
  LET expired  == Expired(b.VelWinSt, VELOCITY_WINDOW, now)
      accum    == amount + b.VelAccum
      breached == b.TvlSnap > 0 /\ Reaches(accum, b.TvlSnap, TVL_DRAIN_BPS)
  IN  [b EXCEPT !.VelWinSt = IF expired THEN now ELSE @,
                !.VelAccum = accum,
                !.SoftPa   = @ \/ breached]

(* VelWinSt is written only when a window expires or on resume.            *)
RecordWithdrawalVelocity(b, amount, now) ==
  LET expired  == Expired(b.VelWinSt, VELOCITY_WINDOW, now)
      accum    == amount + IF expired THEN 0 ELSE b.VelAccum
      breached == b.TvlSnap > 0 /\ Reaches(accum, b.TvlSnap, TVL_DRAIN_BPS)
  IN  [b EXCEPT !.VelWinSt = IF expired THEN now ELSE @,
                !.VelAccum = accum,
                !.SoftPa   = @ \/ breached]

ResumeAfterVelocityCheck(b, now) ==
  [b EXCEPT !.SoftPa = FALSE, !.VelWinSt = now, !.VelAccum = 0]

(***************************************************************************)
(* Mass dispute trigger.                                                   *)
(***************************************************************************)

(* Mutant: the threshold is tested before the dispute is counted.          *)
RecordDisputeLate(b, active, now) ==
  LET expired  == Expired(b.DispWin, DISPUTE_WINDOW, now)
      first    == expired \/ b.DispAcc = 0
      before   == IF expired THEN 0 ELSE b.DispAcc
      snapshot == IF first THEN active ELSE b.ActGntSn
      breached == snapshot > 0 /\ Reaches(before, snapshot, DISPUTE_THRESHOLD_BPS)
  IN  [b EXCEPT !.DispWin  = IF expired THEN now ELSE @,
                !.DispAcc  = before + 1,
                !.ActGntSn = snapshot,
                !.GntHalt  = @ \/ breached]

RecordDispute(b, active, now) ==
  LET expired  == Expired(b.DispWin, DISPUTE_WINDOW, now)
      first    == expired \/ b.DispAcc = 0
      disputes == IF expired THEN 1 ELSE b.DispAcc + 1
      snapshot == IF first THEN active ELSE b.ActGntSn
      breached == snapshot > 0 /\ Reaches(disputes, snapshot, DISPUTE_THRESHOLD_BPS)
  IN  [b EXCEPT !.DispWin  = IF expired THEN now ELSE @,
                !.DispAcc  = disputes,
                !.ActGntSn = snapshot,
                !.GntHalt  = @ \/ breached]

ResumeGrantInitialization(b, now) ==
  [b EXCEPT !.GntHalt = FALSE, !.DispWin = now, !.DispAcc = 0, !.ActGntSn = 0]

(***************************************************************************)
(* Rent preservation.                                                      *)
(***************************************************************************)

CheckRentBalance(b) == [b EXCEPT !.RentPreservationMode = b.xlm < RENT_BUFFER]

DisableRentPreservationMode(b) == [b EXCEPT !.RentPreservationMode = FALSE]

(* Mutant: SoftPause is forgotten.                                         *)
WithdrawalsAllowedInSoftPause(b) == ~b.OraFrozen /\ ~b.RentPreservationMode

(* The three checks a withdrawal passes before anything else happens.      *)
WithdrawalsAllowed(b) == ~b.SoftPa /\ ~b.OraFrozen /\ ~b.RentPreservationMode

=============================================================================

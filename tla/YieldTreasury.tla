---------------------------- MODULE YieldTreasury ---------------------------
(***************************************************************************)
(* contracts/grant_stream/src/yield_treasury.rs: idle tokens are invested  *)
(* in one position at a time; the position, a reserve and the metrics are  *)
(* books beside the token balance. The mock strategies transfer the tokens *)
(* to the contract itself. The external vault is left out: no rate is      *)
(* listed for it, so that investing in it always fails.                    *)
(***************************************************************************)
EXTENDS LedgerClock

CONSTANTS
  None,                   \* no position
  BPS, YEAR,              \* 10000 and the seconds of a year
  Rates,                  \* the strategies' yearly rates, in basis points
  Configs,                \* the configurations an admin sets
  Amounts,                \* amounts invested, divested, deposited, withdrawn
  MaxBalance              \* bound: the contract's token balance

Config == [min_reserve_ratio : Nat, max_investment_ratio : Nat, auto_invest : BOOLEAN,
           apy : Rates, emergency_withdrawal_enabled : BOOLEAN]

YieldAssumption ==
  /\ BPS \in Nat \ {0} /\ YEAR \in Nat \ {0}
  /\ Rates \subseteq Nat
  /\ Configs \subseteq Config
  /\ Amounts \subseteq Nat \ {0}
  /\ MaxBalance \in Nat /\ MaxTime \in Nat
  /\ None \notin [invested_amount : Int, accrued_yield : Int, current_value : Int,
                  last_yield_update : Nat, apy : Nat]

VARIABLES
  config,                 \* Config, with its strategy's rate; None before initialize
  position,               \* YieldPosition
  reserve,                \* ReserveBalance
  earned,                 \* Metrics.total_yield_earned
  balance,                \* what the contract holds of the yield token
  base,                   \* auxiliary: the balance when last invested
  grown,                  \* auxiliary: yield of the position since then
  produced                \* auxiliary: yield of all positions

yaux  == <<base, grown, produced>>
yvars == <<now, config, position, reserve, earned, balance, yaux>>

Position == [invested_amount : Nat, accrued_yield : Int, current_value : Nat,
             last_yield_update : Nat, apy : Rates]

YTypeOK ==
  /\ now \in Nat
  /\ config \in Config \cup {None}
  /\ position \in Position \cup {None}
  /\ reserve \in Nat /\ earned \in Nat /\ balance \in Nat
  /\ base \in Nat /\ grown \in Nat /\ produced \in Nat

YInit ==
  /\ now = 0 /\ config = None /\ position = None
  /\ reserve = 0 /\ earned = 0 /\ balance = 0
  /\ base = 0 /\ grown = 0 /\ produced = 0

(***************************************************************************)
(* calculate_yield_amount and update_yield_position.                       *)
(***************************************************************************)

YieldAmount(p) ==
  ((p.invested_amount * p.apy * (now - p.last_yield_update)) \div BPS) \div YEAR

Updated(p) ==
  [p EXCEPT !.accrued_yield = @ + YieldAmount(p),
            !.current_value = p.invested_amount + p.accrued_yield + YieldAmount(p),
            !.last_yield_update = now]

(* preview_yield_position_value adds to the stored value instead.          *)
Preview(p) == p.current_value + YieldAmount(p)

(***************************************************************************)
(* The entry points.                                                       *)
(***************************************************************************)

Initialize(c) ==
  /\ config = None
  /\ config' = c
  /\ UNCHANGED <<now, position, reserve, earned, balance, yaux>>

UpdateConfig(c) ==
  /\ config # None
  /\ config' = c
  /\ UNCHANGED <<now, position, reserve, earned, balance, yaux>>

(* ensure_reserve_ratio looks at the balance, in which the invested and    *)
(* the reserved tokens and the untracked deposits are one sum.             *)
KeepsReserve(amount) ==
  balance - amount >= (balance * config.min_reserve_ratio) \div BPS

Invest(amount, apy) ==
  /\ config # None /\ position = None
  /\ amount > 0
  /\ KeepsReserve(amount) /\ amount <= balance
  /\ position' = [invested_amount |-> amount, accrued_yield |-> 0, current_value |-> amount,
                  last_yield_update |-> now, apy |-> apy]
  /\ reserve' = balance - amount
  /\ base' = balance
  /\ grown' = 0
  /\ UNCHANGED <<now, config, earned, balance, produced>>

(* auto_invest ends in invest_idle_funds, which asks for the admin's       *)
(* authorization after all. With nothing idle it succeeds and does nothing.*)
AutoInvest ==
  LET idle == balance - reserve
      most == (balance * config.max_investment_ratio) \div BPS
  IN
  /\ config # None
  /\ config.auto_invest
  /\ Invest(IF idle > most THEN most ELSE idle, config.apy)

Grow(p) ==
  /\ grown' = grown + YieldAmount(p)
  /\ produced' = produced + YieldAmount(p)
  /\ UNCHANGED base

(* The part of what is divested that is returned investment, by a ratio    *)
(* rounded to basis points.                                                *)
InvestmentReturn(p, amount) ==
  LET ratio == IF p.current_value > 0 THEN (p.invested_amount * BPS) \div p.current_value
                                      ELSE BPS
  IN  (amount * ratio) \div BPS

(* Mutant: the share of the investment is taken of the value before it is  *)
(* updated.                                                                *)
DivestStale(amount) ==
  LET p    == Updated(position)
      back == InvestmentReturn(position, amount)
  IN
  /\ position # None
  /\ amount \in 1..p.current_value
  /\ position' = IF amount = p.current_value THEN None
                 ELSE [p EXCEPT !.invested_amount = @ - back,
                                !.accrued_yield = @ - (amount - back),
                                !.current_value = position.current_value - amount]
  /\ reserve' = reserve + amount
  /\ earned' = earned + amount - back
  /\ Grow(position)
  /\ UNCHANGED <<now, config, balance>>

(* Mutant: the reserve gets back only the investment.                      *)
DivestPrincipal(amount) ==
  LET p    == Updated(position)
      back == InvestmentReturn(p, amount)
  IN
  /\ position # None
  /\ amount \in 1..p.current_value
  /\ position' = IF amount = p.current_value THEN None
                 ELSE [p EXCEPT !.invested_amount = @ - back,
                                !.accrued_yield = @ - (amount - back),
                                !.current_value = @ - amount]
  /\ reserve' = reserve + back
  /\ earned' = earned + amount - back
  /\ Grow(position)
  /\ UNCHANGED <<now, config, balance>>

(* Without an amount everything is divested. No token moves.               *)
Divest(amount) ==
  LET p    == Updated(position)
      back == InvestmentReturn(p, amount)
  IN
  /\ position # None
  /\ amount \in 1..p.current_value
  /\ position' = IF amount = p.current_value THEN None
                 ELSE [p EXCEPT !.invested_amount = @ - back,
                                !.accrued_yield = @ - (amount - back),
                                !.current_value = @ - amount]
  /\ reserve' = reserve + amount
  /\ earned' = earned + amount - back
  /\ Grow(position)
  /\ UNCHANGED <<now, config, balance>>

(* The yield harvested is computed after the position was brought up to    *)
(* date, and is always zero.                                               *)
HarvestYield ==
  /\ position # None
  /\ position' = Updated(position)
  /\ Grow(position)
  /\ UNCHANGED <<now, config, reserve, earned, balance>>

(* Bypasses the books: neither the reserve nor the position is reduced.    *)
EmergencyWithdraw(amount) ==
  /\ config # None /\ config.emergency_withdrawal_enabled
  /\ amount <= balance
  /\ balance' = balance - amount
  /\ UNCHANGED <<now, config, position, reserve, earned, yaux>>

(* Tokens arrive by transfers the contract is not told of.                 *)
Deposit(amount) ==
  /\ balance + amount <= MaxBalance
  /\ balance' = balance + amount
  /\ UNCHANGED <<now, config, position, reserve, earned, yaux>>

YTick ==
  /\ ClockTick
  /\ UNCHANGED <<config, position, reserve, earned, balance, yaux>>

YNext ==
  \/ \E c \in Configs : Initialize(c) \/ UpdateConfig(c)
  \/ \E amount \in Amounts, apy \in Rates : Invest(amount, apy)
  \/ AutoInvest
  \/ \E amount \in Amounts : Divest(amount)
  \/ position # None /\ Divest(Updated(position).current_value)
  \/ HarvestYield
  \/ \E amount \in Amounts : EmergencyWithdraw(amount) \/ Deposit(amount)
  \/ YTick

YSpec == YInit /\ [][YNext]_yvars

(***************************************************************************)
(* calculate_pool_health and preview_pool_health: a tenth is taken off the *)
(* assets for risk. They are views, taken of one state.                    *)
(***************************************************************************)

HealthFactor(assets, liabilities) ==
  IF liabilities = 0 THEN BPS
  ELSE (((assets * (BPS - BPS \div 10)) \div BPS) * BPS) \div liabilities

CalculatePoolHealth(liabilities) ==
  HealthFactor(reserve + IF position = None THEN 0 ELSE Updated(position).current_value,
               liabilities)

PreviewPoolHealth(liabilities) ==
  HealthFactor(reserve + IF position = None THEN 0 ELSE Preview(position), liabilities)

(***************************************************************************)
(* Properties.                                                             *)
(***************************************************************************)

(* The two views of the pool's health agree, whatever is owed: one adds to *)
(* the stored value and the other to investment and yield, which partial   *)
(* divestments round apart and only the sum keeps together.                *)
HealthViewsAgree ==
  \A liabilities \in {0} \cup Amounts :
    CalculatePoolHealth(liabilities) = PreviewPoolHealth(liabilities)

(* No value is created or lost in the books: reserve and position hold     *)
(* what the balance was when it was invested and the yield since then,     *)
(* through harvests and divestments, and no yield goes unreported: metrics *)
(* and position show at least what the positions produced.                 *)
TreasuryConserved ==
  LET value == IF position = None THEN 0 ELSE position.current_value
      open  == IF position = None THEN 0 ELSE position.accrued_yield
  IN  /\ reserve + value = base + grown
      /\ earned + open >= produced

=============================================================================

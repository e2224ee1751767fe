-------------------------- MODULE SafeguardProofs --------------------------
(***************************************************************************)
(* Theorems of the contracts beside the grant stream: the books of the     *)
(* yield treasury, the claims of the confidential grants, the escrow of    *)
(* the disputes, the bursts the activity monitor delays, the vetoes of the *)
(* speed bump and the amounts of the sealed bids, each for every value of  *)
(* its constants. AllSpec, which interleaves the contracts, is then shown  *)
(* to implement the specification of each, so that it inherits them all.   *)
(* The dead man's switch makes a promise of liveness, which only a run     *)
(* checks.                                                                 *)
(***************************************************************************)
EXTENDS Safeguards, SumTheorems, SequenceTheorems

USE DEF yvars, yaux, pvars, mvars, bvars, avars, cvars

(***************************************************************************)
(* The yield treasury. A stored position is worth what was invested and    *)
(* what it accrued: partial divestments round the two apart, and never     *)
(* their sum.                                                              *)
(***************************************************************************)

Positions == [invested_amount : Int, accrued_yield : Int, current_value : Int,
              last_yield_update : Nat, apy : Rates]

Summed(p) == p \in Positions /\ p.current_value = p.invested_amount + p.accrued_yield

BooksTyped ==
  /\ now \in Nat
  /\ config \in Config \cup {None}
  /\ reserve \in Int /\ earned \in Int /\ balance \in Int
  /\ base \in Int /\ grown \in Int /\ produced \in Int

YInv == BooksTyped /\ (position # None => Summed(position)) /\ TreasuryConserved

LEMMA YieldTyped ==
  ASSUME YieldAssumption, now \in Nat, NEW p \in Positions
  PROVE  YieldAmount(p) \in Int
<1> DEFINE product == p.invested_amount * p.apy * (now - p.last_yield_update)
<1>0. p.invested_amount \in Int /\ p.apy \in Rates /\ p.last_yield_update \in Int
  BY DEF Positions
<1>1. Rates \subseteq Int
  BY DEF YieldAssumption
<1>2. product \in Int
  <2> DEFINE a == p.invested_amount
             b == p.apy
             c == now - p.last_yield_update
  <2>1. a \in Int
    BY <1>0
  <2>3. b \in Int
    BY <1>0, <1>1
  <2>4. c \in Int
    BY <1>0
  <2> HIDE DEF a, b, c
  <2>2. a * b * c \in Int
    BY <2>1, <2>3, <2>4
  <2> QED
    BY <2>2 DEF a, b, c
<1>3. BPS \in Nat \ {0} /\ YEAR \in Nat \ {0}
  BY DEF YieldAssumption
<1> HIDE DEF product
<1>4. product \div BPS \in Int
  BY <1>2, <1>3
<1>5. (product \div BPS) \div YEAR \in Int
  BY <1>3, <1>4
<1> QED
  BY <1>5 DEF product, YieldAmount

LEMMA UpdatedSummed ==
  ASSUME YieldAssumption, now \in Nat, NEW p, Summed(p)
  PROVE  /\ Summed(Updated(p))
         /\ Updated(p).current_value = p.current_value + YieldAmount(p)
         /\ Updated(p).invested_amount = p.invested_amount
         /\ Updated(p).accrued_yield = p.accrued_yield + YieldAmount(p)
<1> DEFINE yield == YieldAmount(p)
<1>1. yield \in Int
  BY YieldTyped DEF Summed
<1>2. Updated(p) = [p EXCEPT !.accrued_yield = p.accrued_yield + yield,
                             !.current_value = p.invested_amount + p.accrued_yield + yield,
                             !.last_yield_update = now]
  BY DEF Updated
<1> HIDE DEF yield
<1>3. p \in Positions /\ p.current_value = p.invested_amount + p.accrued_yield
  BY DEF Summed
<1>4. /\ Updated(p).current_value = p.current_value + yield
      /\ Updated(p).invested_amount = p.invested_amount
      /\ Updated(p).accrued_yield = p.accrued_yield + yield
  BY <1>1, <1>2, <1>3 DEF Positions
<1>5. Updated(p) \in Positions
  <2> DEFINE p1 == [p EXCEPT !.accrued_yield = p.accrued_yield + yield]
             p2 == [p1 EXCEPT !.current_value = p.invested_amount + p.accrued_yield + yield]
  <2>1. p1 \in Positions
    BY <1>1, <1>3 DEF Positions
  <2>2. p2 \in Positions
    <3> HIDE DEF p1
    <3> QED
      BY <1>1, <1>3, <2>1 DEF Positions
  <2>3. [p2 EXCEPT !.last_yield_update = now] \in Positions
    <3> HIDE DEF p2
    <3> QED
      BY <2>2 DEF Positions
  <2> QED
    BY <1>2, <2>3
<1>6. Updated(p).current_value = Updated(p).invested_amount + Updated(p).accrued_yield
  BY <1>1, <1>3, <1>4 DEF Positions
<1> QED
  BY <1>4, <1>5, <1>6 DEF yield, Summed

(* The two ways of valuing a position agree.                               *)
LEMMA ViewsAgree ==
  ASSUME YieldAssumption, YInv
  PROVE  HealthViewsAgree
<1>1. position # None => Preview(position) = Updated(position).current_value
  BY UpdatedSummed DEF YInv, BooksTyped, Preview
<1> QED
  BY <1>1 DEF HealthViewsAgree, CalculatePoolHealth, PreviewPoolHealth

(* What is divided by BPS after it was multiplied with a ratio to BPS.     *)
LEMMA RatioBelow ==
  ASSUME NEW invested \in Int, NEW value \in Int, value > 0, NEW scale \in Nat \ {0}
  PROVE  (value * ((invested * scale) \div value)) \div scale <= invested
<1> DEFINE ratio == (invested * scale) \div value
           back  == (value * ratio) \div scale
<1>1. invested * scale \in Int
  OBVIOUS
<1>2. ratio \in Int /\ value * ratio <= invested * scale
  BY <1>1
<1> HIDE DEF ratio
<1>3. value * ratio \in Int
  BY <1>2
<1>4. back \in Int /\ scale * back <= value * ratio
  BY <1>3
<1> HIDE DEF back
<1>5. scale * back <= invested * scale
  BY <1>1, <1>2, <1>3, <1>4
<1>6. back <= invested
  BY <1>4, <1>5
<1> QED
  BY <1>6 DEF back, ratio

LEMMA ReturnTyped ==
  ASSUME YieldAssumption, NEW p \in Positions, NEW amount \in Int
  PROVE  InvestmentReturn(p, amount) \in Int
<1> DEFINE ratio == IF p.current_value > 0 THEN (p.invested_amount * BPS) \div p.current_value
                                           ELSE BPS
<1>1. BPS \in Nat \ {0} /\ p.invested_amount \in Int /\ p.current_value \in Int
  BY DEF YieldAssumption, Positions
<1>2. ratio \in Int
  BY <1>1
<1> HIDE DEF ratio
<1>3. amount * ratio \in Int
  BY <1>2
<1>4. (amount * ratio) \div BPS \in Int
  BY <1>1, <1>3
<1> QED
  BY <1>4 DEF ratio, InvestmentReturn

(* Divesting all of a position returns no more than was invested in it, so *)
(* that its yield is reported.                                             *)
LEMMA ReturnBelow ==
  ASSUME YieldAssumption, NEW p \in Positions, p.current_value > 0
  PROVE  InvestmentReturn(p, p.current_value) <= p.invested_amount
<1>1. p.invested_amount \in Int /\ p.current_value \in Int /\ BPS \in Nat \ {0}
  BY DEF Positions, YieldAssumption
<1>2. InvestmentReturn(p, p.current_value)
        = (p.current_value * ((p.invested_amount * BPS) \div p.current_value)) \div BPS
  BY DEF InvestmentReturn
<1> QED
  BY <1>1, <1>2, RatioBelow

Worth(p) == IF p = None THEN 0 ELSE p.current_value
Owed(p)  == IF p = None THEN 0 ELSE p.accrued_yield

LEMMA ConservedAs ==
  TreasuryConserved <=> /\ reserve + Worth(position) = base + grown
                        /\ earned + Owed(position) >= produced
BY DEF TreasuryConserved, Worth, Owed

LEMMA NoneIsNoPosition ==
  ASSUME YieldAssumption, NEW p \in Positions
  PROVE  p # None
<1>1. Rates \subseteq Nat
  BY DEF YieldAssumption
<1>2. p \in [invested_amount : Int, accrued_yield : Int, current_value : Int,
             last_yield_update : Nat, apy : Nat]
  BY <1>1 DEF Positions
<1> QED
  BY <1>2 DEF YieldAssumption

LEMMA InvestKeeps ==
  ASSUME YieldAssumption, YInv, NEW amount \in Int, NEW apy \in Rates, Invest(amount, apy)
  PROVE  YInv'
<1> DEFINE p == [invested_amount |-> amount, accrued_yield |-> 0, current_value |-> amount,
                 last_yield_update |-> now, apy |-> apy]
<1>1. BooksTyped /\ TreasuryConserved /\ position = None
  BY DEF YInv, Invest
<1>2. Summed(p)
  BY <1>1 DEF Summed, Positions, BooksTyped
<1>3. position' = p /\ p # None
  BY <1>2, NoneIsNoPosition DEF Invest, Summed
<1>4. /\ reserve' = balance - amount /\ base' = balance /\ grown' = 0
      /\ UNCHANGED <<now, config, earned, balance, produced>>
  BY DEF Invest
<1>5. BooksTyped'
  BY <1>1, <1>4 DEF BooksTyped
<1>6. Worth(position') = amount /\ Owed(position') = 0 /\ Owed(position) = 0
  BY <1>1, <1>3 DEF Worth, Owed
<1>7. earned >= produced
  BY <1>1, <1>6, ConservedAs DEF BooksTyped
<1>8. TreasuryConserved'
  BY <1>1, <1>3, <1>4, <1>7 DEF TreasuryConserved, BooksTyped
<1> QED
  BY <1>2, <1>3, <1>5, <1>8 DEF YInv

(* A harvest is a divestment of nothing; what both share is the growth of  *)
(* the position.                                                           *)
LEMMA HarvestKeeps ==
  ASSUME YieldAssumption, YInv, HarvestYield
  PROVE  YInv'
<1> DEFINE yield == YieldAmount(position)
<1>1. BooksTyped /\ TreasuryConserved /\ position # None /\ Summed(position)
  BY DEF YInv, HarvestYield
<1>2. yield \in Int
  BY <1>1, YieldTyped DEF Summed, BooksTyped
<1>3. /\ position' = Updated(position)
      /\ grown' = grown + yield /\ produced' = produced + yield
      /\ UNCHANGED <<now, config, reserve, earned, balance, base>>
  BY DEF HarvestYield, Grow
<1>4. /\ Summed(Updated(position))
      /\ Updated(position).current_value = position.current_value + yield
      /\ Updated(position).accrued_yield = position.accrued_yield + yield
  BY <1>1, UpdatedSummed DEF BooksTyped
<1>5. Updated(position) # None
  BY <1>4, NoneIsNoPosition DEF Summed
<1> HIDE DEF yield
<1>6. BooksTyped'
  BY <1>1, <1>2, <1>3 DEF BooksTyped
<1>7. TreasuryConserved'
  <2>1. position.current_value \in Int /\ position.accrued_yield \in Int
    BY <1>1 DEF Summed, Positions
  <2>2. /\ reserve + position.current_value = base + grown
        /\ earned + position.accrued_yield >= produced
    BY <1>1 DEF TreasuryConserved
  <2>3. /\ reserve + (position.current_value + yield) = base + (grown + yield)
        /\ earned + (position.accrued_yield + yield) >= produced + yield
    BY <1>1, <1>2, <2>1, <2>2 DEF BooksTyped
  <2> QED
    BY <1>3, <1>4, <1>5, <2>3 DEF TreasuryConserved
<1> QED
  BY <1>3, <1>4, <1>6, <1>7 DEF YInv

LEMMA DivestKeeps ==
  ASSUME YieldAssumption, YInv, NEW amount, Divest(amount)
  PROVE  YInv'
<1> DEFINE p     == Updated(position)
           yield == YieldAmount(position)
           back  == InvestmentReturn(p, amount)
           left  == [p EXCEPT !.invested_amount = @ - back,
                              !.accrued_yield = @ - (amount - back),
                              !.current_value = @ - amount]
<1>1. BooksTyped /\ TreasuryConserved /\ position # None /\ Summed(position)
  BY DEF YInv, Divest
<1>2. yield \in Int
  BY <1>1, YieldTyped DEF Summed, BooksTyped
<1>3. /\ Summed(p)
      /\ p.current_value = position.current_value + yield
      /\ p.accrued_yield = position.accrued_yield + yield
  BY <1>1, UpdatedSummed DEF BooksTyped
<1>4. /\ amount \in 1..p.current_value
      /\ position' = IF amount = p.current_value THEN None ELSE left
      /\ reserve' = reserve + amount
      /\ earned' = earned + amount - back
      /\ grown' = grown + yield /\ produced' = produced + yield
      /\ UNCHANGED <<now, config, balance, base>>
  BY DEF Divest, Grow
<1>5. /\ amount \in Int /\ amount > 0
      /\ p \in Positions /\ p.invested_amount \in Int
      /\ p.accrued_yield \in Int /\ p.current_value \in Int
      /\ p.current_value = p.invested_amount + p.accrued_yield
      /\ position.current_value \in Int /\ position.accrued_yield \in Int
  BY <1>1, <1>3, <1>4 DEF Summed, Positions
<1>6. back \in Int
  BY <1>5, ReturnTyped
<1>7. /\ reserve + position.current_value = base + grown
      /\ earned + position.accrued_yield >= produced
  BY <1>1 DEF TreasuryConserved
<1>8. ASSUME amount = p.current_value
      PROVE  back <= p.invested_amount
  BY <1>5, <1>8, ReturnBelow
<1>9. Summed(left) /\ left.current_value = p.current_value - amount
        /\ left.accrued_yield = p.accrued_yield - (amount - back)
  <2> HIDE DEF p, back
  <2>1. left.current_value = p.current_value - amount
        /\ left.accrued_yield = p.accrued_yield - (amount - back)
        /\ left.invested_amount = p.invested_amount - back
    BY <1>5 DEF Positions
  <2>2. left \in Positions
    <3> DEFINE invested == p.invested_amount - back
               open     == p.accrued_yield - (amount - back)
               value    == p.current_value - amount
               p1       == [p EXCEPT !.invested_amount = invested]
               p2       == [p1 EXCEPT !.accrued_yield = open]
    <3>0. invested \in Int /\ open \in Int /\ value \in Int
      BY <1>5, <1>6
    <3>4. left = [p EXCEPT !.invested_amount = invested, !.accrued_yield = open,
                           !.current_value = value]
      OBVIOUS
    <3> HIDE DEF invested, open, value, left
    <3>1. p1 \in Positions
      BY <1>5, <3>0 DEF Positions
    <3>2. p2 \in Positions
      <4> HIDE DEF p1
      <4> QED
        BY <3>0, <3>1 DEF Positions
    <3>3. [p2 EXCEPT !.current_value = value] \in Positions
      <4> HIDE DEF p2
      <4> QED
        BY <3>0, <3>2 DEF Positions
    <3> QED
      BY <3>3, <3>4
  <2> QED
    BY <1>5, <1>6, <2>1, <2>2 DEF Summed
<1>10. left # None
  BY <1>9, NoneIsNoPosition DEF Summed
<1> HIDE DEF p, yield, back, left
<1>11. BooksTyped'
  BY <1>1, <1>2, <1>4, <1>5, <1>6 DEF BooksTyped
<1>12. CASE amount = p.current_value
  <2>1. /\ reserve + amount = base + (grown + yield)
        /\ earned + amount - back >= produced + yield
    BY <1>1, <1>2, <1>3, <1>5, <1>6, <1>7, <1>8, <1>12 DEF BooksTyped
  <2>2. position' = None
    BY <1>4, <1>12
  <2>3. TreasuryConserved'
    BY <1>1, <1>4, <1>5, <1>6, <1>11, <2>1, <2>2 DEF TreasuryConserved, BooksTyped
  <2> QED
    BY <1>11, <2>2, <2>3 DEF YInv
<1>13. CASE amount # p.current_value
  <2>1. /\ reserve + amount + left.current_value = base + (grown + yield)
        /\ (earned + amount - back) + left.accrued_yield >= produced + yield
    BY <1>1, <1>2, <1>3, <1>5, <1>6, <1>7, <1>9 DEF BooksTyped
  <2>2. position' = left
    BY <1>4, <1>13
  <2>3. TreasuryConserved'
    BY <1>4, <1>10, <2>1, <2>2 DEF TreasuryConserved
  <2> QED
    BY <1>9, <1>11, <2>2, <2>3 DEF YInv
<1> QED
  BY <1>12, <1>13

LEMMA AutoInvestKeeps ==
  ASSUME YieldAssumption, YInv, AutoInvest
  PROVE  YInv'
<1> DEFINE spare == balance - reserve
           most == (balance * config.max_investment_ratio) \div BPS
           amount == IF spare > most THEN most ELSE spare
<1>1. config # None /\ Invest(amount, config.apy)
  BY DEF AutoInvest
<1>2. config \in Config /\ balance \in Int /\ reserve \in Int
  BY <1>1 DEF YInv, BooksTyped
<1>3. config.apy \in Rates /\ config.max_investment_ratio \in Int
  BY <1>2 DEF Config
<1>4. BPS \in Nat \ {0}
  BY DEF YieldAssumption
<1>5. balance * config.max_investment_ratio \in Int
  <2> DEFINE b == config.max_investment_ratio
  <2>1. b \in Int
    BY <1>3
  <2> HIDE DEF b
  <2>2. balance * b \in Int
    BY <1>2, <2>1
  <2> QED
    BY <2>2 DEF b
<1>6. most \in Int
  <2> DEFINE product == balance * config.max_investment_ratio
  <2>1. product \in Int
    BY <1>5
  <2> HIDE DEF product
  <2>2. product \div BPS \in Int
    BY <1>4, <2>1
  <2> QED
    BY <2>2 DEF product
<1> HIDE DEF most
<1>7. amount \in Int
  BY <1>2, <1>6
<1> HIDE DEF amount
<1> QED
  BY <1>1, <1>3, <1>7, InvestKeeps

(* The inductive invariant of the treasury's books.                        *)
LEMMA TreasuryInductive ==
  ASSUME YieldAssumption
  PROVE  /\ YInit => YInv
         /\ YInv /\ [YNext]_yvars => YInv'
<1>0. Amounts \subseteq Int /\ Configs \subseteq Config
  BY DEF YieldAssumption
<1>1. YInit => YInv
  BY DEF YInit, YInv, BooksTyped, TreasuryConserved
<1>2. ASSUME YInv, [YNext]_yvars
      PROVE  YInv'
  <2>1. BooksTyped /\ TreasuryConserved /\ (position # None => Summed(position))
    BY <1>2 DEF YInv
  <2>2. ASSUME BooksTyped', UNCHANGED <<position, reserve, earned, yaux>>
        PROVE  YInv'
    BY <2>1, <2>2 DEF YInv, TreasuryConserved, Summed
  <2>3. ASSUME NEW c \in Configs, Initialize(c) \/ UpdateConfig(c)
        PROVE  YInv'
    <3>1. BooksTyped' /\ UNCHANGED <<position, reserve, earned, yaux>>
      BY <1>0, <2>1, <2>3 DEF Initialize, UpdateConfig, BooksTyped
    <3> QED
      BY <2>2, <3>1
  <2>4. ASSUME NEW amount \in Amounts, EmergencyWithdraw(amount) \/ Deposit(amount)
        PROVE  YInv'
    <3>1. BooksTyped' /\ UNCHANGED <<position, reserve, earned, yaux>>
      BY <1>0, <2>1, <2>4 DEF EmergencyWithdraw, Deposit, BooksTyped
    <3> QED
      BY <2>2, <3>1
  <2>5. ASSUME YTick
        PROVE  YInv'
    <3>1. BooksTyped' /\ UNCHANGED <<position, reserve, earned, yaux>>
      BY <2>1, <2>5 DEF YTick, ClockTick, BooksTyped
    <3> QED
      BY <2>2, <3>1
  <2>6. ASSUME UNCHANGED yvars
        PROVE  YInv'
    <3>1. BooksTyped' /\ UNCHANGED <<position, reserve, earned, yaux>>
      BY <2>1, <2>6 DEF BooksTyped
    <3> QED
      BY <2>2, <3>1
  <2>7. ASSUME NEW amount \in Amounts, NEW apy \in Rates, Invest(amount, apy)
        PROVE  YInv'
    BY <1>0, <1>2, <2>7, InvestKeeps
  <2> QED
    BY <1>2, <2>3, <2>4, <2>5, <2>6, <2>7, AutoInvestKeeps, DivestKeeps, HarvestKeeps
       DEF YNext
<1> QED
  BY <1>1, <1>2

(* No value is created or lost in the treasury's books, whatever the       *)
(* rates, ratios and amounts, and every yield produced is reported         *)
(* (divest_position, harvest_yield, invest_idle_funds).                    *)
THEOREM BooksConserved ==
  ASSUME YieldAssumption
  PROVE  YSpec => []TreasuryConserved
<1>1. YInit => YInv
  BY TreasuryInductive
<1>2. YInv /\ [YNext]_yvars => YInv'
  BY TreasuryInductive
<1>3. YInv => TreasuryConserved
  BY DEF YInv
<1> QED
  BY <1>1, <1>2, <1>3, PTL DEF YSpec

(* calculate_pool_health and preview_pool_health agree in every state,     *)
(* for every amount owed.                                                  *)
THEOREM HealthViewsConsistent ==
  ASSUME YieldAssumption
  PROVE  YSpec => []HealthViewsAgree
<1>1. YInit => YInv
  BY TreasuryInductive
<1>2. YInv /\ [YNext]_yvars => YInv'
  BY TreasuryInductive
<1>3. YInv => HealthViewsAgree
  BY ViewsAgree
<1> QED
  BY <1>1, <1>2, <1>3, PTL DEF YSpec

(***************************************************************************)
(* The confidential grants.                                                *)
(***************************************************************************)

(* Of the amounts a claim can have, the remainder changes only the         *)
(* modulus, which costs the commitment nothing.                            *)
LEMMA OnlyModulusWraps ==
  ASSUME NEW m \in Nat \ {0, 1}, NEW amount \in 1..m
  PROVE  /\ amount % m \in Nat
         /\ amount = m => amount % m = 0
         /\ amount # m => amount % m = amount
OBVIOUS

PTyped ==
  /\ commitment \in [ConfidentialIds -> Nat \cup {Absent}]
  /\ agreed \in [ConfidentialIds -> Nat]
  /\ claims \in [ConfidentialIds -> [paid : Nat, wraps : Nat]]

(* Nothing was claimed of a grant that was not created.                    *)
UnclaimedBefore ==
  \A id \in ConfidentialIds : commitment[id] = Absent => claims[id] = [paid |-> 0, wraps |-> 0]

PInv == PTyped /\ UnclaimedBefore /\ ClaimsWithinCommitment

LEMMA CreateKeeps ==
  ASSUME ConfidentialAssumption, PInv, NEW id \in ConfidentialIds, NEW amount \in Commitments,
         CreateConfidentialGrant(id, amount)
  PROVE  PInv'
<1>1. amount \in Nat /\ amount # Absent /\ ZK_COMMITMENT_MODULUS \in Nat
  BY DEF ConfidentialAssumption
<1>2. PTyped /\ UnclaimedBefore /\ ClaimsWithinCommitment
  BY DEF PInv
<1>3. PTyped'
  BY <1>1, <1>2 DEF PTyped, CreateConfidentialGrant
<1>4. UnclaimedBefore'
  BY <1>1, <1>2 DEF PTyped, UnclaimedBefore, CreateConfidentialGrant
<1>5. claims[id] = [paid |-> 0, wraps |-> 0]
  BY <1>2 DEF UnclaimedBefore, CreateConfidentialGrant
<1>6. ASSUME NEW other \in ConfidentialIds, commitment'[other] # Absent
      PROVE  /\ commitment'[other] >= 0
             /\ claims'[other].paid + commitment'[other]
                  = agreed'[other] + ZK_COMMITMENT_MODULUS * claims'[other].wraps
  <2>1. CASE other = id
    <3>1. commitment'[other] = amount /\ agreed'[other] = amount
          /\ claims'[other] = [paid |-> 0, wraps |-> 0]
      BY <1>2, <1>5, <2>1 DEF PTyped, CreateConfidentialGrant
    <3>2. ZK_COMMITMENT_MODULUS * 0 = 0
      BY <1>1
    <3> QED
      BY <1>1, <3>1, <3>2
  <2>2. CASE other # id
    <3>1. commitment'[other] = commitment[other] /\ agreed'[other] = agreed[other]
          /\ claims'[other] = claims[other]
      BY <1>2, <2>2 DEF PTyped, CreateConfidentialGrant
    <3> QED
      BY <1>2, <1>6, <3>1 DEF ClaimsWithinCommitment
  <2> QED
    BY <2>1, <2>2
<1> QED
  BY <1>3, <1>4, <1>6 DEF PInv, ClaimsWithinCommitment

LEMMA ClaimKeeps ==
  ASSUME ConfidentialAssumption, PInv, NEW id \in ConfidentialIds, NEW amount \in Claims,
         NEW nullifier, ConfidentialClaim(id, amount, nullifier)
  PROVE  PInv'
<1> DEFINE m     == ZK_COMMITMENT_MODULUS
           taken == ClaimCommitment(amount)
           wrap  == IF amount = m THEN 1 ELSE 0
<1>1. m \in Nat \ {0, 1} /\ amount \in 1..m /\ Absent \notin Nat
  BY DEF ConfidentialAssumption
<1>2. PTyped /\ UnclaimedBefore /\ ClaimsWithinCommitment
  BY DEF PInv
<1>3. /\ taken \in Nat
      /\ amount = m => taken = 0
      /\ amount # m => taken = amount
  <2> HIDE DEF m
  <2> QED
    BY <1>1, OnlyModulusWraps DEF ClaimCommitment, m
<1>4. /\ commitment[id] # Absent /\ commitment[id] \in Nat
      /\ taken <= commitment[id]
      /\ claims[id].paid \in Nat /\ claims[id].wraps \in Nat /\ agreed[id] \in Nat
  BY <1>2 DEF PTyped, ConfidentialClaim, ClaimVerified
<1>5. /\ commitment' = [commitment EXCEPT ![id] = commitment[id] - taken]
      /\ claims' = [claims EXCEPT ![id] = [paid |-> claims[id].paid + amount,
                                          wraps |-> claims[id].wraps + wrap]]
      /\ agreed' = agreed
  BY DEF ConfidentialClaim
<1>6. commitment[id] - taken \in Nat /\ wrap \in Nat /\ amount \in Nat
  BY <1>1, <1>3, <1>4
<1>7. amount - taken = m * wrap
  BY <1>1, <1>3
<1>8. claims[id].paid + commitment[id] = agreed[id] + m * claims[id].wraps
  BY <1>2, <1>4 DEF ClaimsWithinCommitment
<1> HIDE DEF taken, wrap
<1>9. PTyped'
  BY <1>2, <1>4, <1>5, <1>6 DEF PTyped
<1>10. UnclaimedBefore'
  BY <1>1, <1>2, <1>4, <1>5, <1>6 DEF PTyped, UnclaimedBefore
<1>11. (claims[id].paid + amount) + (commitment[id] - taken)
         = agreed[id] + m * (claims[id].wraps + wrap)
  <2> HIDE DEF m
  <2>1. m * (claims[id].wraps + wrap) = m * claims[id].wraps + m * wrap
    BY <1>1, <1>4, <1>6
  <2>2. m * claims[id].wraps \in Nat /\ m * wrap \in Nat
    BY <1>1, <1>4, <1>6
  <2>3. (claims[id].paid + amount) + (commitment[id] - taken)
          = (claims[id].paid + commitment[id]) + (amount - taken)
    BY <1>3, <1>4, <1>6
  <2> QED
    BY <1>4, <1>7, <1>8, <2>1, <2>2, <2>3
<1>12. ASSUME NEW other \in ConfidentialIds, commitment'[other] # Absent
       PROVE  /\ commitment'[other] >= 0
              /\ claims'[other].paid + commitment'[other]
                   = agreed'[other] + m * claims'[other].wraps
  <2>1. CASE other = id
    <3>1. /\ commitment'[other] = commitment[id] - taken
          /\ claims'[other].paid = claims[id].paid + amount
          /\ claims'[other].wraps = claims[id].wraps + wrap
          /\ agreed'[other] = agreed[id]
      BY <1>2, <1>5, <2>1 DEF PTyped
    <3> QED
      BY <1>6, <1>11, <3>1
  <2>2. CASE other # id
    <3>1. commitment'[other] = commitment[other] /\ agreed'[other] = agreed[other]
          /\ claims'[other] = claims[other]
      BY <1>2, <1>5, <2>2 DEF PTyped
    <3> QED
      BY <1>2, <1>12, <3>1 DEF ClaimsWithinCommitment
  <2> QED
    BY <2>1, <2>2
<1> QED
  BY <1>9, <1>10, <1>12 DEF PInv, ClaimsWithinCommitment

(* Claims of a confidential grant stay within its commitment, over any     *)
(* number of claims, forgotten nullifiers and grants, up to the claims of  *)
(* exactly the modulus (create_confidential_grant, confidential_claim).    *)
THEOREM ClaimsBoundByCommitment ==
  ASSUME ConfidentialAssumption
  PROVE  PSpec => []ClaimsWithinCommitment
<1>1. PInit => PInv
  <2> SUFFICES ASSUME PInit PROVE PInv
    OBVIOUS
  <2>1. PTyped
    BY DEF PInit, PTyped
  <2>2. UnclaimedBefore
    BY DEF PInit, UnclaimedBefore
  <2>3. ClaimsWithinCommitment
    BY DEF PInit, ClaimsWithinCommitment
  <2> QED
    BY <2>1, <2>2, <2>3 DEF PInv
<1>2. PInv /\ [PNext]_pvars => PInv'
  <2> SUFFICES ASSUME PInv, [PNext]_pvars PROVE PInv'
    OBVIOUS
  <2>1. ASSUME UNCHANGED <<commitment, agreed, claims>>
        PROVE  PInv'
    BY <2>1 DEF PInv, PTyped, UnclaimedBefore, ClaimsWithinCommitment
  <2>2. ASSUME NEW n \in Nullifiers, Expire(n)
        PROVE  PInv'
    BY <2>1, <2>2 DEF Expire
  <2>3. CASE UNCHANGED pvars
    BY <2>1, <2>3
  <2> QED
    BY <2>2, <2>3, CreateKeeps, ClaimKeeps DEF PNext
<1>3. PInv => ClaimsWithinCommitment
  BY DEF PInv
<1> QED
  BY <1>1, <1>2, <1>3, PTL DEF PSpec


(***************************************************************************)
(* The arbitration.                                                        *)
(***************************************************************************)

Dispute == [amount : Nat, resolved : BOOLEAN]

(* What is still in dispute, by id.                                        *)
Unresolved(ds) ==
  [id \in DOMAIN ds |-> IF ds[id].resolved THEN 0 ELSE ds[id].amount]

AInv ==
  /\ disputes \in Seq(Dispute)
  /\ escrow \in Int /\ below \in Int
  /\ EscrowCovered

LEMMA EscrowSum ==
  EscrowCovered <=>
    escrow + below >= SumFunctionOnSet(Unresolved(disputes), DOMAIN disputes)
BY DEF EscrowCovered, Unresolved, SumFunction

LEMMA UnresolvedTyped ==
  ASSUME NEW ds \in Seq(Dispute)
  PROVE  /\ IsFiniteSet(DOMAIN ds) /\ DOMAIN ds = 1..Len(ds) /\ Len(ds) \in Nat
         /\ \A id \in DOMAIN ds :
              /\ ds[id] \in Dispute /\ ds[id].amount \in Nat
              /\ Unresolved(ds)[id] = IF ds[id].resolved THEN 0 ELSE ds[id].amount
              /\ Unresolved(ds)[id] \in Int
<1>1. DOMAIN ds = 1..Len(ds) /\ Len(ds) \in Nat
  BY LenProperties
<1>2. \A id \in DOMAIN ds : ds[id] \in Dispute
  BY <1>1, ElementOfSeq
<1>3. \A id \in DOMAIN ds : ds[id].amount \in Nat
  BY <1>2 DEF Dispute
<1>4. \A id \in DOMAIN ds : Unresolved(ds)[id] = IF ds[id].resolved THEN 0 ELSE ds[id].amount
  BY DEF Unresolved
<1>5. \A id \in DOMAIN ds : Unresolved(ds)[id] \in Int
  BY <1>3, <1>4
<1>6. IsFiniteSet(DOMAIN ds)
  BY <1>1, FS_Interval
<1> QED
  BY <1>1, <1>2, <1>3, <1>4, <1>5, <1>6

(* What is raised is put in escrow.                                        *)
LEMMA RaiseKeeps ==
  ASSUME ArbitrationAssumption, AInv, NEW amount \in DisputedAmounts, RaiseDispute(amount)
  PROVE  AInv'
<1> DEFINE n    == Len(disputes)
           new  == [amount |-> amount, resolved |-> FALSE]
           f    == Unresolved(disputes)
           g    == Unresolved(disputes')
<1>1. new \in Dispute /\ amount \in Nat
  BY DEF ArbitrationAssumption, Dispute
<1>2. disputes \in Seq(Dispute)
  BY DEF AInv
<1>3. disputes' = Append(disputes, new) /\ escrow' = escrow + amount /\ below' = below
  BY DEF RaiseDispute
<1>4. /\ disputes' \in Seq(Dispute) /\ Len(disputes') = n + 1
      /\ disputes'[n + 1] = new
      /\ \A i \in 1..n : disputes'[i] = disputes[i]
  <2> HIDE DEF new
  <2> QED
    BY <1>1, <1>2, <1>3, AppendProperties
<1>5. DOMAIN disputes = 1..n /\ DOMAIN disputes' = 1..(n + 1) /\ n \in Nat
  BY <1>2, <1>4, UnresolvedTyped
<1>6. \A i \in 1..n : f[i] \in Int /\ g[i] = f[i]
  <2> SUFFICES ASSUME NEW i \in 1..n PROVE f[i] \in Int /\ g[i] = f[i]
    OBVIOUS
  <2>1. i \in DOMAIN disputes /\ i \in DOMAIN disputes' /\ disputes'[i] = disputes[i]
    BY <1>4, <1>5
  <2> QED
    BY <1>2, <1>4, <2>1, UnresolvedTyped
<1>7. g[n + 1] = amount
  <2>1. n + 1 \in DOMAIN disputes'
    BY <1>5
  <2> QED
    BY <1>4, <2>1, UnresolvedTyped
<1> HIDE DEF f, g, n, new
<1>8. SumFunctionOnSet(f, 1..n) \in Int
  <2>1. IsFiniteSet(1..n)
    BY <1>5, FS_Interval
  <2> QED
    BY <1>6, <2>1, SumType
<1>9. SumFunctionOnSet(g, 1..(n + 1)) = SumFunctionOnSet(f, 1..n) + amount
  <2>1. g[n + 1] \in Int
    BY <1>1, <1>7
  <2> QED
    BY <1>5, <1>6, <1>7, <2>1, SumAppend
<1>10. escrow + below >= SumFunctionOnSet(f, 1..n)
  BY <1>5, EscrowSum DEF AInv, f
<1>11. escrow' + below' >= SumFunctionOnSet(g, 1..(n + 1))
  BY <1>1, <1>3, <1>8, <1>9, <1>10 DEF AInv
<1>12. EscrowCovered'
  BY <1>5, <1>11 DEF EscrowCovered, Unresolved, SumFunction, g
<1> QED
  BY <1>1, <1>3, <1>4, <1>12 DEF AInv

(* An award takes no more from the escrow than its dispute had put there,  *)
(* but for what awards below zero stand for.                               *)
LEMMA ResolveKeeps ==
  ASSUME ArbitrationAssumption, AInv, NEW id \in DOMAIN disputes,
         NEW funder_award \in Awards, NEW grantee_award \in Awards,
         ResolveDispute(id, funder_award, grantee_award)
  PROVE  AInv'
<1> DEFINE S    == DOMAIN disputes
           f    == Unresolved(disputes)
           g    == Unresolved(disputes')
           paid == Positive(funder_award) + Positive(grantee_award)
           less == Positive(-funder_award) + Positive(-grantee_award)
           done == [disputes[id] EXCEPT !.resolved = TRUE]
<1>1. funder_award \in Int /\ grantee_award \in Int
  BY DEF ArbitrationAssumption
<1>2. disputes \in Seq(Dispute) /\ disputes[id] \in Dispute /\ disputes[id].amount \in Nat
  BY UnresolvedTyped DEF AInv
<1>3. /\ ~disputes[id].resolved
      /\ escrow' = escrow - paid /\ below' = below + less
      /\ disputes' = [disputes EXCEPT ![id] = done]
  BY <1>1 DEF ResolveDispute, AInv, Positive
<1>4. funder_award + grantee_award <= disputes[id].amount
  BY <1>1, <1>2 DEF ResolveDispute
<1>5. paid \in Int /\ less \in Int /\ paid - less = funder_award + grantee_award
  BY <1>1 DEF Positive
<1>6. done \in Dispute /\ done.resolved
  BY <1>2 DEF Dispute
<1> HIDE DEF paid, less, done
<1>7. /\ disputes' \in Seq(Dispute) /\ DOMAIN disputes' = S /\ disputes'[id] = done
      /\ \A x \in S \ {id} : disputes'[x] = disputes[x]
  BY <1>2, <1>3, <1>6, ExceptSeq
<1>8. \A x \in S : f[x] \in Int /\ g[x] \in Int
  BY <1>2, <1>7, UnresolvedTyped
<1>9. \A x \in S \ {id} : g[x] = f[x]
  BY <1>2, <1>7, UnresolvedTyped
<1>10. f[id] = disputes[id].amount /\ g[id] = 0
  BY <1>2, <1>3, <1>6, <1>7, UnresolvedTyped
<1>11. IsFiniteSet(S)
  BY <1>2, UnresolvedTyped
<1> HIDE DEF f, g, S
<1>12. SumFunctionOnSet(g, S) = SumFunctionOnSet(f, S) + g[id] - f[id]
  BY <1>8, <1>9, <1>11, SumChange DEF S
<1>13. SumFunctionOnSet(f, S) \in Int
  BY <1>8, <1>11, SumType
<1>14. escrow + below >= SumFunctionOnSet(f, S)
  BY EscrowSum DEF AInv, f, S
<1>15. escrow' + below' >= SumFunctionOnSet(g, S)
  BY <1>1, <1>2, <1>3, <1>4, <1>5, <1>10, <1>12, <1>13, <1>14 DEF AInv
<1>16. EscrowCovered'
  BY <1>7, <1>15 DEF EscrowCovered, Unresolved, SumFunction, g, S
<1> QED
  BY <1>3, <1>5, <1>7, <1>16 DEF AInv

(* The escrow covers every dispute not resolved, for any number of         *)
(* disputes, amounts and awards (raise_dispute, resolve_dispute).          *)
THEOREM DisputesStayFunded ==
  ASSUME ArbitrationAssumption
  PROVE  ASpec => []EscrowCovered
<1>1. AInit => AInv
  <2> SUFFICES ASSUME AInit PROVE AInv
    OBVIOUS
  <2>1. DOMAIN disputes = {} /\ disputes \in Seq(Dispute)
    BY DEF AInit
  <2>2. SumFunctionOnSet(Unresolved(disputes), DOMAIN disputes) = 0
    BY <2>1, SumEmpty
  <2> QED
    BY <2>1, <2>2, EscrowSum DEF AInit, AInv
<1>2. AInv /\ [ANext]_avars => AInv'
  <2> SUFFICES ASSUME AInv, [ANext]_avars PROVE AInv'
    OBVIOUS
  <2>1. ASSUME UNCHANGED <<disputes, escrow, below>>
        PROVE  AInv'
    BY <2>1 DEF AInv, EscrowCovered
  <2>2. CASE InitArbitration \/ UNCHANGED avars
    BY <2>1, <2>2 DEF InitArbitration
  <2> QED
    BY <2>2, RaiseKeeps, ResolveKeeps DEF ANext
<1>3. AInv => EscrowCovered
  BY DEF AInv
<1> QED
  BY <1>1, <1>2, <1>3, PTL DEF ASpec


(***************************************************************************)
(* The activity monitor. The count that decides on the timelock is the     *)
(* number of changes that were proposed in the current ledger.             *)
(***************************************************************************)

ChangeRecord ==
  [proposed_at : Nat, executable_at : Nat,
   status : {"Pending", "MandatoryTimelock", "Executed", "Cancelled"}]

MTyped ==
  /\ now \in Nat
  /\ settings \in AnyConfig \cup {NotSet}
  /\ enabled => settings # NotSet
  /\ changes \in Seq(ChangeRecord)
  /\ activity \in Activity \cup {NotSet}

Proposed(t) == {id \in DOMAIN changes : changes[id].proposed_at = t}

Counted ==
  /\ \A id \in DOMAIN changes :
       activity # NotSet /\ changes[id].proposed_at <= activity.ledger_number
  /\ activity # NotSet =>
       /\ activity.ledger_number <= now
       /\ activity.change_count = Cardinality(Proposed(activity.ledger_number))

FewFast == \A t \in Nat : \E c \in AnyConfig : Cardinality(Fast(t)) <= c.max_changes

MInv == MTyped /\ Counted /\ FewFast

LEMMA ConfigTyped ==
  ASSUME MonitorAssumption
  PROVE  /\ \A c \in AnyConfig : c.max_changes \in Nat /\ c.mandatory_timelock \in Nat
         /\ AnyConfig \subseteq MonitorConfig /\ NotSet \notin AnyConfig
BY DEF MonitorAssumption, AnyConfig, MonitorConfig

LEMMA ProposedFinite ==
  ASSUME MTyped
  PROVE  /\ DOMAIN changes = 1..Len(changes) /\ Len(changes) \in Nat
         /\ \A id \in DOMAIN changes :
              /\ changes[id] \in ChangeRecord
              /\ changes[id].proposed_at \in Nat /\ changes[id].executable_at \in Nat
         /\ \A t : IsFiniteSet(Proposed(t)) /\ Cardinality(Proposed(t)) \in Nat
<1>1. DOMAIN changes = 1..Len(changes) /\ Len(changes) \in Nat
  BY LenProperties DEF MTyped
<1>2. \A id \in DOMAIN changes : changes[id] \in ChangeRecord
  BY <1>1, ElementOfSeq DEF MTyped
<1>3. IsFiniteSet(DOMAIN changes)
  BY <1>1, FS_Interval
<1>4. \A t : Proposed(t) \in SUBSET DOMAIN changes
  BY DEF Proposed
<1>5. \A t : IsFiniteSet(Proposed(t)) /\ Cardinality(Proposed(t)) \in Nat
  BY <1>3, <1>4, FS_Subset, FS_CardinalityType
<1> QED
  BY <1>1, <1>2, <1>5 DEF ChangeRecord

(* The count read is that of the current ledger.                           *)
LEMMA LedgerCount ==
  ASSUME MTyped, Counted
  PROVE  LedgerActivity = [ledger_number |-> now, change_count |-> Cardinality(Proposed(now))]
<1>1. CASE activity # NotSet /\ activity.ledger_number = now
  <2>1. activity = [ledger_number |-> activity.ledger_number,
                    change_count |-> activity.change_count]
    BY <1>1 DEF MTyped, Activity
  <2> QED
    BY <1>1, <2>1 DEF LedgerActivity, Counted
<1>2. CASE ~(activity # NotSet /\ activity.ledger_number = now)
  <2>1. Proposed(now) = {}
    <3> SUFFICES ASSUME NEW id \in DOMAIN changes, changes[id].proposed_at = now
                 PROVE  FALSE
      BY DEF Proposed
    <3>1. activity # NotSet /\ now <= activity.ledger_number /\ activity.ledger_number <= now
      BY DEF Counted
    <3>2. activity.ledger_number \in Nat /\ now \in Nat
      BY <3>1 DEF MTyped, Activity
    <3> QED
      BY <1>2, <3>1, <3>2
  <2> QED
    BY <1>2, <2>1, FS_EmptySet DEF LedgerActivity
<1> QED
  BY <1>1, <1>2

(* A change recorded is one more of the current ledger: over the limit it  *)
(* waits for the mandatory timelock.                                       *)
LEMMA RecordChangeKeeps ==
  ASSUME MonitorAssumption, MInv, RecordParameterChange
  PROVE  MInv'
<1> DEFINE n     == Len(changes)
           count == Cardinality(Proposed(now))
           over  == count + 1 > settings.max_changes
           new   == Change(over)
<1>1. MTyped /\ Counted /\ now \in Nat /\ settings \in AnyConfig
  BY DEF MInv, MTyped, RecordParameterChange
<1>2. /\ settings.max_changes \in Nat /\ settings.mandatory_timelock \in Nat
      /\ STANDARD_TIMELOCK_SECS \in Nat
  BY <1>1, ConfigTyped DEF MonitorAssumption
<1>3. count \in Nat /\ IsFiniteSet(Proposed(now)) /\ n \in Nat /\ DOMAIN changes = 1..n
  BY <1>1, ProposedFinite
<1>4. activity' = [ledger_number |-> now, change_count |-> count + 1]
  BY <1>1, LedgerCount DEF RecordParameterChange
<1>5. /\ changes' = Append(changes, new)
      /\ UNCHANGED <<now, settings, enabled>>
  BY <1>4 DEF RecordParameterChange
<1>6. /\ new \in ChangeRecord /\ new.proposed_at = now
      /\ over => new.executable_at = now + settings.mandatory_timelock
  BY <1>1, <1>2 DEF Change, ChangeRecord
<1> HIDE DEF new
<1>7. /\ changes' \in Seq(ChangeRecord) /\ Len(changes') = n + 1
      /\ changes'[n + 1] = new
      /\ \A i \in 1..n : changes'[i] = changes[i]
  BY <1>1, <1>5, <1>6, AppendProperties DEF MTyped
<1>8. activity' \in Activity /\ activity' # NotSet
  BY <1>1, <1>3, <1>4 DEF Activity, MonitorAssumption
<1>9. MTyped'
  BY <1>1, <1>5, <1>7, <1>8 DEF MTyped, AnyConfig
<1>10. DOMAIN changes' = 1..(n + 1) /\ DOMAIN changes' = DOMAIN changes \cup {n + 1}
  <2>1. DOMAIN changes' = 1..(n + 1)
    BY <1>7, <1>9, LenProperties DEF MTyped
  <2> QED
    BY <1>3, <2>1
<1>11. Proposed(now)' = Proposed(now) \cup {n + 1} /\ n + 1 \notin Proposed(now)
  BY <1>3, <1>5, <1>6, <1>7, <1>10 DEF Proposed
<1>12. Cardinality(Proposed(now)') = count + 1 /\ IsFiniteSet(Proposed(now)')
  <2> DEFINE P == Proposed(now)
             e == n + 1
  <2>1. IsFiniteSet(P) /\ e \notin P
    BY <1>3, <1>11
  <2>2. Cardinality(P \cup {e}) = Cardinality(P) + 1 /\ IsFiniteSet(P \cup {e})
    <3> HIDE DEF P, e
    <3> QED
      BY <2>1, FS_AddElement
  <2> QED
    BY <1>11, <2>2
<1>13. Counted'
  <2>1. activity'.ledger_number = now' /\ activity'.change_count = count + 1
    BY <1>4, <1>5
  <2>2. ASSUME NEW id \in DOMAIN changes'
        PROVE  changes'[id].proposed_at <= activity'.ledger_number
    <3>1. CASE id = n + 1
      BY <1>1, <1>5, <1>6, <1>7, <2>1, <3>1
    <3>2. CASE id \in DOMAIN changes
      <4>1. changes[id].proposed_at <= now
        <5>1. /\ activity # NotSet /\ changes[id].proposed_at <= activity.ledger_number
              /\ activity.ledger_number <= now
          BY <1>1, <3>2 DEF Counted
        <5>2. changes[id].proposed_at \in Nat /\ activity.ledger_number \in Nat
          BY <1>1, <3>2, <5>1, ProposedFinite DEF MTyped, Activity
        <5> QED
          BY <1>1, <5>1, <5>2
      <4> QED
        BY <1>3, <1>5, <1>7, <2>1, <3>2, <4>1
    <3> QED
      BY <1>10, <3>1, <3>2
  <2>3. Proposed(activity.ledger_number)' = Proposed(now)'
    BY <1>5, <2>1 DEF Proposed
  <2> QED
    BY <1>1, <1>5, <1>8, <1>12, <2>1, <2>2, <2>3 DEF Counted
<1>14. FewFast'
  <2> SUFFICES ASSUME NEW t \in Nat
               PROVE  \E c \in AnyConfig : Cardinality(Fast(t)') <= c.max_changes
    BY DEF FewFast, AnyConfig, Fast
  <2>1. CASE t # now \/ over
    <3>1. n + 1 \notin Fast(t)'
      BY <1>1, <1>2, <1>6, <1>7, <2>1 DEF Fast, AnyConfig
    <3>2. Fast(t)' = Fast(t)
      BY <1>3, <1>7, <1>10, <3>1 DEF Fast, AnyConfig
    <3> QED
      BY <3>2 DEF MInv, FewFast
  <2>2. CASE t = now /\ ~over
    <3>1. Fast(t)' \in SUBSET Proposed(now)'
      BY <1>5, <2>2 DEF Fast, Proposed
    <3>2. Cardinality(Fast(t)') \in Nat /\ Cardinality(Fast(t)') <= count + 1
      BY <1>12, <3>1, FS_Subset, FS_CardinalityType
    <3> QED
      BY <1>1, <1>2, <1>3, <2>2, <3>2
  <2> QED
    BY <2>1, <2>2
<1> QED
  BY <1>9, <1>13, <1>14 DEF MInv

(* Executing and cancelling change no time.                                *)
LEMMA StatusKeeps ==
  ASSUME MonitorAssumption, MInv, NEW id \in DOMAIN changes,
         NEW status \in {"Executed", "Cancelled"},
         changes' = [changes EXCEPT ![id].status = status],
         UNCHANGED <<now, settings, enabled, activity>>
  PROVE  MInv'
<1> DEFINE done == [changes[id] EXCEPT !.status = status]
<1>1. changes \in Seq(ChangeRecord) /\ changes[id] \in ChangeRecord
  BY ProposedFinite DEF MInv, MTyped
<1>2. /\ done \in ChangeRecord
      /\ done.proposed_at = changes[id].proposed_at
      /\ done.executable_at = changes[id].executable_at
  BY <1>1 DEF ChangeRecord
<1>3. changes' = [changes EXCEPT ![id] = done]
  OBVIOUS
<1> HIDE DEF done
<1>4. /\ changes' \in Seq(ChangeRecord) /\ DOMAIN changes' = DOMAIN changes
      /\ \A x \in DOMAIN changes :
           /\ changes'[x].proposed_at = changes[x].proposed_at
           /\ changes'[x].executable_at = changes[x].executable_at
  BY <1>1, <1>2, <1>3, ExceptSeq
<1>5. \A t : Proposed(t)' = Proposed(t) /\ Fast(t)' = Fast(t)
  BY <1>4 DEF Proposed, Fast, AnyConfig
<1>6. MTyped'
  BY <1>4 DEF MInv, MTyped, AnyConfig
<1>7. Counted'
  BY <1>4, <1>5 DEF MInv, Counted
<1>8. FewFast'
  BY <1>5 DEF MInv, FewFast, AnyConfig
<1> QED
  BY <1>6, <1>7, <1>8 DEF MInv

(* In no ledger are more changes proposed that wait for no mandatory       *)
(* timelock than some configuration's limit, whatever the limits are and   *)
(* however recording interleaves with executing, cancelling, disabling and *)
(* new limits (record_parameter_change).                                   *)
THEOREM BurstsAreDelayed ==
  ASSUME MonitorAssumption
  PROVE  MSpec => []BurstsDelayed
<1>1. MInit => MInv
  <2> SUFFICES ASSUME MInit PROVE MInv
    OBVIOUS
  <2>1. DOMAIN changes = {} /\ changes \in Seq(ChangeRecord)
    BY DEF MInit
  <2>2. \A t : Fast(t) = {}
    BY <2>1 DEF Fast
  <2>3. INITIAL_CONFIG \in AnyConfig /\ INITIAL_CONFIG.max_changes \in Nat
    BY ConfigTyped DEF AnyConfig
  <2>4. FewFast
    BY <2>2, <2>3, FS_EmptySet DEF FewFast
  <2> QED
    BY <2>1, <2>4 DEF MInit, MInv, MTyped, Counted
<1>2. MInv /\ [MNext]_mvars => MInv'
  <2> SUFFICES ASSUME MInv, [MNext]_mvars PROVE MInv'
    OBVIOUS
  <2>1. ASSUME now' \in Nat, now <= now', UNCHANGED <<changes, activity>>,
               settings' \in AnyConfig \cup {NotSet}, enabled' => settings' # NotSet
        PROVE  MInv'
    <3>1. \A t : Proposed(t)' = Proposed(t) /\ Fast(t)' = Fast(t)
      BY <2>1 DEF Proposed, Fast, AnyConfig
    <3>2. MTyped'
      BY <2>1 DEF MInv, MTyped, AnyConfig
    <3>3. activity # NotSet => activity.ledger_number \in Nat
      BY DEF MInv, MTyped, Activity
    <3>4. Counted'
      BY <2>1, <3>1, <3>3 DEF MInv, MTyped, Counted
    <3>5. FewFast'
      BY <3>1 DEF MInv, FewFast, AnyConfig
    <3> QED
      BY <3>2, <3>4, <3>5 DEF MInv
  <2>2. now \in Nat /\ settings \in AnyConfig \cup {NotSet} /\ (enabled => settings # NotSet)
    BY DEF MInv, MTyped
  <2>3. INITIAL_CONFIG \in AnyConfig /\ MonitorConfigs \subseteq AnyConfig /\ NotSet \notin AnyConfig
    BY ConfigTyped DEF AnyConfig
  <2>4. CASE InitializeMonitor
    BY <2>1, <2>2, <2>3, <2>4 DEF InitializeMonitor
  <2>5. ASSUME NEW id \in DOMAIN changes,
               ExecuteParameterChange(id) \/ CancelParameterChange(id)
        PROVE  MInv'
    BY <2>5, StatusKeeps DEF ExecuteParameterChange, CancelParameterChange
  <2>6. ASSUME NEW b \in BOOLEAN, SetEnabled(b)
        PROVE  MInv'
    BY <2>1, <2>2, <2>6 DEF SetEnabled
  <2>7. ASSUME NEW c \in MonitorConfigs, UpdateMonitorConfig(c)
        PROVE  MInv'
    BY <2>1, <2>2, <2>3, <2>7 DEF UpdateMonitorConfig
  <2>8. CASE MonitorTick
    BY <2>1, <2>2, <2>8 DEF MonitorTick, ClockTick
  <2>9. CASE UNCHANGED mvars
    BY <2>1, <2>2, <2>9
  <2> QED
    BY <2>4, <2>5, <2>6, <2>7, <2>8, <2>9, RecordChangeKeeps DEF MNext
<1>3. MInv => BurstsDelayed
  BY DEF MInv, MTyped, FewFast, BurstsDelayed
<1> QED
  BY <1>1, <1>2, <1>3, PTL DEF MSpec


(***************************************************************************)
(* The speed bump. A veto is kept by the first entry of its id, and that   *)
(* entry is never executed.                                                *)
(***************************************************************************)

BumpIds == {Xor[<<t, a * ID_SHIFT>>] : t \in Nat, a \in Transfers}

Queued == [id : BumpIds, amount : Nat, executable_after : Nat, vetoed : BOOLEAN]

FirstOf(seq, id, i) == /\ i \in 1..Len(seq) /\ seq[i].id = id
                       /\ \A k \in 1..(i - 1) : seq[k].id # id

VetoesStand == \A id \in vetoes : \E i \in Nat : FirstOf(transfers, id, i) /\ transfers[i].vetoed

BInv == now \in Nat /\ transfers \in Seq(Queued) /\ VetoesStand /\ VetoBlocksId

(* The loops over the queue stop at the first entry with the id.           *)
LEMMA EntryIsFirst ==
  ASSUME transfers \in Seq(Queued), NEW id
  PROVE  /\ Entry(id) # 0 => FirstOf(transfers, id, Entry(id))
         /\ \A i \in Nat : FirstOf(transfers, id, i) => Entry(id) = i
<1> DEFINE I == {i \in 1..Len(transfers) : transfers[i].id = id}
<1>1. Entry(id) = IF I # {} THEN Min(I) ELSE 0
  BY DEF Entry, SelectInSeq
<1>2. Len(transfers) \in Nat
  BY LenProperties
<1>3. I \in SUBSET Nat
  BY <1>2
<1>4. I # {} => Min(I) \in I /\ \A y \in I : Min(I) <= y
  <2> HIDE DEF I
  <2> QED
    BY <1>3, LeastElement DEF Min
<1>5. ASSUME Entry(id) # 0
      PROVE  FirstOf(transfers, id, Entry(id))
  <2> DEFINE e == Entry(id)
  <2>1. e \in I /\ \A y \in I : e <= y
    BY <1>1, <1>4, <1>5
  <2>2. /\ e \in 1..Len(transfers) /\ transfers[e].id = id
        /\ \A k \in 1..Len(transfers) : transfers[k].id = id => e <= k
    <3> HIDE DEF e
    <3> QED
      BY <2>1
  <2> HIDE DEF e
  <2>3. FirstOf(transfers, id, e)
    BY <1>2, <2>2 DEF FirstOf
  <2> QED
    BY <2>3 DEF e
<1>6. ASSUME NEW i \in Nat, FirstOf(transfers, id, i)
      PROVE  Entry(id) = i
  <2>1. i \in I /\ \A y \in I : i <= y
    BY <1>2, <1>6 DEF FirstOf
  <2>2. Min(I) \in Nat /\ Min(I) <= i /\ i <= Min(I)
    <3> HIDE DEF I
    <3> QED
      BY <1>3, <1>4, <2>1
  <2> QED
    BY <1>1, <2>1, <2>2
<1> QED
  BY <1>5, <1>6

LEMMA Removed ==
  ASSUME NEW S, NEW s \in Seq(S), NEW i \in 1..Len(s)
  PROVE  /\ RemoveAt(s, i) \in Seq(S) /\ Len(RemoveAt(s, i)) = Len(s) - 1
         /\ \A k \in 1..(Len(s) - 1) : RemoveAt(s, i)[k] = s[IF k < i THEN k ELSE k + 1]
<1> DEFINE a == SubSeq(s, 1, i - 1)
           b == SubSeq(s, i + 1, Len(s))
<1>1. Len(s) \in Nat
  BY LenProperties
<1>2. /\ a \in Seq(S) /\ Len(a) = i - 1
      /\ \A k \in 1..(i - 1) : a[k] = s[k]
  BY <1>1, SubSeqProperties
<1>3. /\ b \in Seq(S) /\ Len(b) = Len(s) - i
      /\ \A k \in 1..(Len(s) - i) : b[k] = s[i + k]
  BY <1>1, SubSeqProperties
<1>4. RemoveAt(s, i) = a \o b
  BY DEF RemoveAt
<1> HIDE DEF a, b
<1>5. /\ a \o b \in Seq(S) /\ Len(a \o b) = Len(s) - 1
      /\ \A k \in 1..(Len(s) - 1) : (a \o b)[k] = IF k < i THEN a[k] ELSE b[k - (i - 1)]
  <2>1. Len(a) + Len(b) = Len(s) - 1
    BY <1>1, <1>2, <1>3
  <2>2. /\ a \o b \in Seq(S) /\ Len(a \o b) = Len(a) + Len(b)
        /\ \A k \in 1..(Len(a) + Len(b)) :
             (a \o b)[k] = IF k <= Len(a) THEN a[k] ELSE b[k - Len(a)]
    BY <1>2, <1>3, ConcatProperties
  <2>3. ASSUME NEW k \in 1..(Len(s) - 1)
        PROVE  (a \o b)[k] = IF k < i THEN a[k] ELSE b[k - (i - 1)]
    <3>1. (a \o b)[k] = IF k <= Len(a) THEN a[k] ELSE b[k - Len(a)]
      BY <2>1, <2>2
    <3>2. k <= Len(a) <=> k < i
      BY <1>1, <1>2
    <3> QED
      BY <1>2, <3>1, <3>2
  <2> QED
    BY <2>1, <2>2, <2>3
<1>6. ASSUME NEW k \in 1..(Len(s) - 1)
      PROVE  (a \o b)[k] = s[IF k < i THEN k ELSE k + 1]
  <2>1. CASE k < i
    <3>1. k \in 1..(i - 1)
      BY <1>1, <2>1
    <3> QED
      BY <1>2, <1>5, <2>1, <3>1
  <2>2. CASE ~(k < i)
    <3>1. k - (i - 1) \in 1..(Len(s) - i) /\ i + (k - (i - 1)) = k + 1
      BY <1>1, <2>2
    <3>2. b[k - (i - 1)] = s[i + (k - (i - 1))]
      BY <1>3, <3>1
    <3> QED
      BY <1>5, <2>2, <3>1, <3>2
  <2> QED
    BY <2>1, <2>2
<1> QED
  BY <1>4, <1>5, <1>6

(* A request goes to the end of the queue.                                 *)
LEMMA ApproveKeeps ==
  ASSUME SpeedBumpAssumption, BInv, NEW amount \in Transfers, ApproveTransfer(amount)
  PROVE  BInv'
<1>1. CASE UNCHANGED transfers
  BY <1>1 DEF BInv, VetoesStand, VetoBlocksId, ApproveTransfer
<1>2. CASE QueueTransfer(amount)
  <2> DEFINE n   == Len(transfers)
             new == [id |-> TransferId(amount), amount |-> amount,
                     executable_after |-> now + DELAY_SECONDS, vetoed |-> FALSE]
  <2>1. now \in Nat /\ transfers \in Seq(Queued) /\ n \in Nat
    BY LenProperties DEF BInv
  <2>2. new \in Queued
    <3>1. \E t \in Nat, a \in Transfers : TransferId(amount) = Xor[<<t, a * ID_SHIFT>>]
      BY <2>1 DEF TransferId
    <3>2. TransferId(amount) \in BumpIds
      BY <3>1 DEF BumpIds
    <3>3. amount \in Nat /\ now + DELAY_SECONDS \in Nat
      BY <2>1 DEF SpeedBumpAssumption
    <3> QED
      BY <3>2, <3>3 DEF Queued
  <2>3. transfers' = Append(transfers, new)
    BY <1>2 DEF QueueTransfer
  <2> HIDE DEF new
  <2>4. /\ transfers' \in Seq(Queued) /\ Len(transfers') = n + 1
        /\ \A i \in 1..n : transfers'[i] = transfers[i]
    BY <2>1, <2>2, <2>3, AppendProperties
  <2>5. UNCHANGED <<now, vetoes>> /\ released' = {}
    BY DEF ApproveTransfer
  <2>6. VetoesStand'
    <3> SUFFICES ASSUME NEW id \in vetoes
                 PROVE  \E i \in Nat : FirstOf(transfers', id, i) /\ transfers'[i].vetoed
      BY <2>5 DEF VetoesStand
    <3>1. PICK i \in Nat : FirstOf(transfers, id, i) /\ transfers[i].vetoed
      BY DEF BInv, VetoesStand
    <3>2. FirstOf(transfers', id, i) /\ transfers'[i].vetoed
      BY <2>1, <2>4, <3>1 DEF FirstOf
    <3> QED
      BY <3>2
  <2> QED
    BY <2>1, <2>4, <2>5, <2>6 DEF BInv, VetoBlocksId
<1> QED
  BY <1>1, <1>2 DEF ApproveTransfer

(* The first entry of an id is executed, so that no veto was kept by it;   *)
(* the entries behind it move up.                                          *)
LEMMA ExecuteKeeps ==
  ASSUME BInv, NEW id, ExecuteTransfer(id)
  PROVE  BInv'
<1> DEFINE n == Len(transfers)
           e == Entry(id)
<1>1. transfers \in Seq(Queued) /\ n \in Nat
  BY LenProperties DEF BInv
<1>2. /\ e # 0 /\ ~transfers[e].vetoed
      /\ transfers' = RemoveAt(transfers, e)
      /\ released' = {id} /\ UNCHANGED <<now, vetoes>>
  BY DEF ExecuteTransfer
<1>3. FirstOf(transfers, id, e) /\ e \in 1..n
  BY <1>1, <1>2, EntryIsFirst DEF FirstOf
<1> HIDE DEF e
<1>4. /\ transfers' \in Seq(Queued) /\ Len(transfers') = n - 1
      /\ \A k \in 1..(n - 1) : transfers'[k] = transfers[IF k < e THEN k ELSE k + 1]
  BY <1>1, <1>2, <1>3, Removed
<1>5. id \notin vetoes
  BY <1>1, <1>2, EntryIsFirst DEF BInv, VetoesStand, e
<1>6. VetoesStand'
  <2> SUFFICES ASSUME NEW other \in vetoes
               PROVE  \E i \in Nat : FirstOf(transfers', other, i) /\ transfers'[i].vetoed
    BY <1>2 DEF VetoesStand
  <2>1. PICK i \in Nat : FirstOf(transfers, other, i) /\ transfers[i].vetoed
    BY DEF BInv, VetoesStand
  <2>2. i \in 1..n /\ transfers[i].id = other /\ \A k \in 1..(i - 1) : transfers[k].id # other
    BY <2>1 DEF FirstOf
  <2>3. i # e
    BY <1>2, <2>1
  <2>4. CASE i < e
    <3>1. i \in 1..(n - 1) /\ \A k \in 1..i : transfers'[k] = transfers[k]
      BY <1>1, <1>3, <1>4, <2>2, <2>4
    <3>2. FirstOf(transfers', other, i) /\ transfers'[i].vetoed
      BY <1>1, <1>4, <2>1, <2>2, <3>1 DEF FirstOf
    <3> QED
      BY <3>2
  <2>5. CASE e < i
    <3>1. i - 1 \in 1..(n - 1) /\ transfers'[i - 1] = transfers[i]
      BY <1>1, <1>3, <1>4, <2>2, <2>5
    <3>2. \A k \in 1..(i - 2) : transfers'[k].id # other
      BY <1>1, <1>3, <1>4, <2>2, <2>5
    <3>3. FirstOf(transfers', other, i - 1) /\ transfers'[i - 1].vetoed
      BY <1>1, <1>4, <2>1, <2>2, <3>1, <3>2 DEF FirstOf
    <3> QED
      BY <3>1, <3>3
  <2> QED
    BY <1>3, <2>2, <2>3, <2>4, <2>5
<1> QED
  BY <1>2, <1>4, <1>5, <1>6 DEF BInv, VetoBlocksId

LEMMA VetoKeeps ==
  ASSUME BInv, NEW id, VetoTransfer(id)
  PROVE  BInv'
<1> DEFINE e    == Entry(id)
           done == [transfers[e] EXCEPT !.vetoed = TRUE]
<1>1. transfers \in Seq(Queued) /\ Len(transfers) \in Nat
  BY LenProperties DEF BInv
<1>2. /\ e # 0 /\ transfers' = [transfers EXCEPT ![e] = done]
      /\ vetoes' = vetoes \cup {id} /\ released' = {} /\ UNCHANGED now
  BY DEF VetoTransfer
<1>3. FirstOf(transfers, id, e) /\ e \in 1..Len(transfers)
  BY <1>1, <1>2, EntryIsFirst DEF FirstOf
<1>4. transfers[e] \in Queued
  BY <1>1, <1>3, ElementOfSeq
<1>5. done \in Queued /\ done.id = transfers[e].id /\ done.vetoed
  BY <1>4 DEF Queued
<1> HIDE DEF e, done
<1>6. /\ transfers' \in Seq(Queued) /\ Len(transfers') = Len(transfers)
      /\ transfers'[e] = done
      /\ \A k \in 1..Len(transfers) : k # e => transfers'[k] = transfers[k]
  <2>1. DOMAIN transfers = 1..Len(transfers)
    BY <1>1, LenProperties
  <2> QED
    BY <1>1, <1>2, <1>3, <1>5, <2>1, ExceptSeq
<1>7. \A k \in 1..Len(transfers) :
        /\ transfers'[k].id = transfers[k].id
        /\ transfers[k].vetoed => transfers'[k].vetoed
  BY <1>3, <1>5, <1>6
<1>8. VetoesStand'
  <2> SUFFICES ASSUME NEW other \in vetoes \cup {id}
               PROVE  \E i \in Nat : FirstOf(transfers', other, i) /\ transfers'[i].vetoed
    BY <1>2 DEF VetoesStand
  <2>1. ASSUME NEW i \in Nat, FirstOf(transfers, other, i)
        PROVE  FirstOf(transfers', other, i)
    BY <1>1, <1>6, <1>7, <2>1 DEF FirstOf
  <2>2. CASE other = id
    <3>1. FirstOf(transfers', other, e) /\ transfers'[e].vetoed
      BY <1>1, <1>3, <1>5, <1>6, <2>1, <2>2
    <3> QED
      BY <1>1, <1>3, <3>1
  <2>3. CASE other \in vetoes
    <3>1. PICK i \in Nat : FirstOf(transfers, other, i) /\ transfers[i].vetoed
      BY <2>3 DEF BInv, VetoesStand
    <3>2. FirstOf(transfers', other, i) /\ transfers'[i].vetoed
      BY <1>7, <2>1, <3>1 DEF FirstOf
    <3> QED
      BY <3>2
  <2> QED
    BY <2>2, <2>3
<1> QED
  BY <1>2, <1>6, <1>8 DEF BInv, VetoBlocksId

(* A veto holds for its id until the contract is initialized anew, for     *)
(* queues of any length, whatever ids coincide (approve_transfer,          *)
(* execute_transfer, veto_transfer).                                       *)
THEOREM VetoesHold ==
  ASSUME SpeedBumpAssumption
  PROVE  BSpec => []VetoBlocksId
<1>1. BInit => BInv
  BY DEF BInit, BInv, VetoesStand, VetoBlocksId
<1>2. BInv /\ [BNext]_bvars => BInv'
  <2> SUFFICES ASSUME BInv, [BNext]_bvars PROVE BInv'
    OBVIOUS
  <2>1. ASSUME NEW amount \in Treasuries, InitializeBump(amount)
        PROVE  BInv'
    BY <2>1 DEF InitializeBump, BInv, VetoesStand, VetoBlocksId
  <2>2. ASSUME NEW amount \in Treasuries, UpdateTreasuryBalance(amount)
        PROVE  BInv'
    BY <2>2 DEF UpdateTreasuryBalance, BInv, VetoesStand, VetoBlocksId
  <2>3. CASE BTick
    BY <2>3 DEF BTick, ClockTick, BInv, VetoesStand, VetoBlocksId
  <2>4. CASE UNCHANGED bvars
    BY <2>4 DEF BInv, VetoesStand, VetoBlocksId
  <2> QED
    BY <2>1, <2>2, <2>3, <2>4, ApproveKeeps, ExecuteKeeps, VetoKeeps DEF BNext
<1>3. BInv => VetoBlocksId
  BY DEF BInv
<1> QED
  BY <1>1, <1>2, <1>3, PTL DEF BSpec

(***************************************************************************)
(* Sealed bids.                                                            *)
(***************************************************************************)

(* The first cell of an encoded bid is its amount.                         *)
LEMMA HashStartsWithAmount ==
  ASSUME BiddingAssumption, NEW bid \in Bids
  PROVE  HashBid(bid)[1] = bid.amount
<1> DEFINE costs == EncodedCosts(bid)
           cells == {bid.amount} \cup {costs[i] : i \in DOMAIN costs} \cup Int
<1>1. IsFiniteSet(DOMAIN bid.milestone_costs) /\ bid.salt \in Seq(cells)
  <2>1. IsFiniteSet(DOMAIN bid.milestone_costs) /\ bid.salt \in Seq(Int)
    BY DEF BiddingAssumption
  <2> HIDE DEF costs
  <2> QED
    BY <2>1
<1>2. costs \in Seq(cells)
  <2>1. 2 * Cardinality(DOMAIN bid.milestone_costs) \in Nat
    BY <1>1, FS_CardinalityType
  <2>2. PICK n \in Nat : DOMAIN costs = 1..n /\ costs = [i \in 1..n |-> costs[i]]
    BY <2>1 DEF EncodedCosts
  <2> HIDE DEF costs
  <2> QED
    BY <2>2
<1>3. HashBid(bid) = <<bid.amount>> \o costs \o bid.salt
  BY DEF HashBid
<1> HIDE DEF costs
<1>4. <<bid.amount>> \in Seq(cells)
  OBVIOUS
<1> HIDE DEF cells
<1>5. /\ <<bid.amount>> \o costs \in Seq(cells)
      /\ (<<bid.amount>> \o costs)[1] = bid.amount
      /\ Len(<<bid.amount>> \o costs) >= 1
  BY <1>2, <1>4
<1> QED
  BY <1>1, <1>3, <1>5

(* A revealed bid is one of the bids its commitment encodes.               *)
RevealedAsCommitted ==
  /\ commitments \in [Grantees -> {NoBid} \cup {HashBid(bid) : bid \in Bids}]
  /\ reveals \in [Grantees -> {NoBid} \cup Bids]
  /\ \A g \in Grantees : reveals[g] # NoBid => HashBid(reveals[g]) = commitments[g]

(* What a grantee has revealed keeps its amount, over repeated reveals and *)
(* reopened biddings: no two bids of one encoding differ in the amount.    *)
THEOREM AmountsBound ==
  ASSUME BiddingAssumption
  PROVE  CSpec => AmountBinding
<1>1. CInit => RevealedAsCommitted
  BY DEF CInit, RevealedAsCommitted
<1>2. RevealedAsCommitted /\ [CNext]_cvars => RevealedAsCommitted'
  <2> SUFFICES ASSUME RevealedAsCommitted, [CNext]_cvars
               PROVE  RevealedAsCommitted'
    OBVIOUS
  <2>1. ASSUME NEW g \in Grantees, NEW bid \in Bids, Commit(g, bid)
        PROVE  RevealedAsCommitted'
    <3>1. reveals[g] = NoBid
      BY <2>1 DEF Commit, RevealedAsCommitted, BiddingAssumption
    <3>2. \A x \in Grantees : commitments'[x] = IF x = g THEN HashBid(bid) ELSE commitments[x]
      BY <2>1 DEF Commit, RevealedAsCommitted
    <3>3. commitments' \in [Grantees -> {NoBid} \cup {HashBid(b) : b \in Bids}]
      BY <2>1 DEF Commit, RevealedAsCommitted
    <3>4. UNCHANGED reveals
      BY <2>1 DEF Commit
    <3> QED
      BY <3>1, <3>2, <3>3, <3>4 DEF RevealedAsCommitted
  <2>2. ASSUME NEW g \in Grantees, NEW bid \in Bids, Reveal(g, bid)
        PROVE  RevealedAsCommitted'
    <3>1. \A x \in Grantees : reveals'[x] = IF x = g THEN bid ELSE reveals[x]
      BY <2>2 DEF Reveal, RevealedAsCommitted
    <3>2. reveals' \in [Grantees -> {NoBid} \cup Bids]
      BY <2>2 DEF Reveal, RevealedAsCommitted
    <3>3. UNCHANGED commitments /\ HashBid(bid) = commitments[g]
      BY <2>2 DEF Reveal
    <3> QED
      BY <3>1, <3>2, <3>3 DEF RevealedAsCommitted
  <2>3. ASSUME UNCHANGED <<commitments, reveals>>
        PROVE  RevealedAsCommitted'
    BY <2>3 DEF RevealedAsCommitted
  <2> QED
    BY <2>1, <2>2, <2>3 DEF CNext, OpenBidding, CloseBidding, CTick
<1>3. RevealedAsCommitted /\ [CNext]_cvars
        => [\A g \in Grantees :
              reveals[g] # NoBid => reveals'[g].amount = reveals[g].amount]_cvars
  <2> SUFFICES ASSUME RevealedAsCommitted, CNext, NEW g \in Grantees, reveals[g] # NoBid
               PROVE  reveals'[g].amount = reveals[g].amount
    OBVIOUS
  <2>1. reveals[g] \in Bids /\ HashBid(reveals[g]) = commitments[g]
    BY DEF RevealedAsCommitted
  <2>2. ASSUME NEW x \in Grantees, NEW bid \in Bids, Reveal(x, bid)
        PROVE  reveals'[g].amount = reveals[g].amount
    <3>1. reveals'[g] = IF x = g THEN bid ELSE reveals[g]
      BY <2>2 DEF Reveal, RevealedAsCommitted
    <3>2. CASE x = g
      <4>1. HashBid(bid) = HashBid(reveals[g])
        BY <2>1, <2>2, <3>2 DEF Reveal
      <4>2. HashBid(bid)[1] = bid.amount /\ HashBid(reveals[g])[1] = reveals[g].amount
        BY <2>1, HashStartsWithAmount
      <4> QED
        BY <3>1, <3>2, <4>1, <4>2
    <3> QED
      BY <3>1, <3>2
  <2>3. CASE UNCHANGED reveals
    BY <2>3
  <2> QED
    BY <2>2, <2>3 DEF CNext, OpenBidding, CloseBidding, Commit, CTick
<1> QED
  BY <1>1, <1>2, <1>3, PTL DEF CSpec, AmountBinding

(***************************************************************************)
(* The contracts side by side.                                             *)
(***************************************************************************)

ClockKeptOrTicked == UNCHANGED now \/ ClockTick

LEMMA StepsOnTheClock ==
  /\ YNext => ClockKeptOrTicked
  /\ BNext => ClockKeptOrTicked
  /\ MNext => ClockKeptOrTicked
  /\ CNext => ClockKeptOrTicked
<1>1. YNext => ClockKeptOrTicked
  BY DEF YNext, Initialize, UpdateConfig, Invest, AutoInvest, Divest, HarvestYield,
         EmergencyWithdraw, Deposit, YTick, ClockKeptOrTicked
<1>2. BNext => ClockKeptOrTicked
  BY DEF BNext, InitializeBump, UpdateTreasuryBalance, ApproveTransfer, ExecuteTransfer,
         VetoTransfer, BTick, ClockKeptOrTicked
<1>3. MNext => ClockKeptOrTicked
  BY DEF MNext, InitializeMonitor, RecordParameterChange, ExecuteParameterChange,
         CancelParameterChange, SetEnabled, UpdateMonitorConfig, MonitorTick,
         ClockKeptOrTicked
<1>4. CNext => ClockKeptOrTicked
  BY DEF CNext, OpenBidding, CloseBidding, Commit, Reveal, CTick, ClockKeptOrTicked
<1> QED
  BY <1>1, <1>2, <1>3, <1>4

(* A speed bump that is not run has released nothing.                      *)
BumpIdle == contract # "bump" => released = {}

(* To a contract that is not run, a step of another is a stutter or a      *)
(* tick of the clock.                                                      *)
LEMMA StepsApart ==
  ASSUME BumpIdle, [AllNext]_allvars
  PROVE  /\ [YNext]_yvars /\ [BNext]_bvars /\ [MNext]_mvars /\ [CNext]_cvars
         /\ [ANext]_avars /\ [PNext]_pvars
         /\ BumpIdle'
<1>1. ClockKeptOrTicked
  BY StepsOnTheClock DEF AllNext, YieldStep, BumpStep, SwitchPart, MonitorStep, BidsStep,
       ArbitrationStep, ConfidentialStep, allvars, ClockKeptOrTicked
<1>2. [YNext]_yvars
  <2>1. YNext \/ UNCHANGED yonly
    BY DEF AllNext, YieldStep, BumpStep, SwitchPart, MonitorStep, BidsStep,
           ArbitrationStep, ConfidentialStep, allvars
  <2> QED
    BY <1>1, <2>1 DEF ClockKeptOrTicked, yonly, YNext, YTick
<1>3. [MNext]_mvars
  <2>1. MNext \/ UNCHANGED monly
    BY DEF AllNext, YieldStep, BumpStep, SwitchPart, MonitorStep, BidsStep,
           ArbitrationStep, ConfidentialStep, allvars
  <2> QED
    BY <1>1, <2>1 DEF ClockKeptOrTicked, monly, MNext, MonitorTick
<1>4. [CNext]_cvars
  <2>1. CNext \/ UNCHANGED conly
    BY DEF AllNext, YieldStep, BumpStep, SwitchPart, MonitorStep, BidsStep,
           ArbitrationStep, ConfidentialStep, allvars
  <2> QED
    BY <1>1, <2>1 DEF ClockKeptOrTicked, conly, CNext, CTick
<1>5. [BNext]_bvars /\ BumpIdle'
  <2>1. \/ BNext /\ contract = "bump" /\ UNCHANGED contract
        \/ UNCHANGED <<bonly, contract>> /\ contract # "bump"
        \/ UNCHANGED <<bonly, contract, now>>
    BY DEF AllNext, YieldStep, BumpStep, SwitchPart, MonitorStep, BidsStep,
           ArbitrationStep, ConfidentialStep, allvars
  <2> QED
    BY <1>1, <2>1 DEF ClockKeptOrTicked, bonly, BNext, BTick, BumpIdle
<1>6. [ANext]_avars
  BY DEF AllNext, YieldStep, BumpStep, SwitchPart, MonitorStep, BidsStep,
         ArbitrationStep, ConfidentialStep, allvars
<1>7. [PNext]_pvars
  BY DEF AllNext, YieldStep, BumpStep, SwitchPart, MonitorStep, BidsStep,
         ArbitrationStep, ConfidentialStep, allvars
<1> QED
  BY <1>2, <1>3, <1>4, <1>5, <1>6, <1>7

(* Interleaved as AllSpec does, each contract still runs by its own        *)
(* specification: what is proved of one alone holds beside the others.     *)
THEOREM ContractsRunAlone ==
  AllSpec => YSpec /\ BSpec /\ MSpec /\ CSpec /\ ASpec /\ PSpec
<1>1. AllInit => BumpIdle
  BY DEF AllInit, BInit, BumpIdle
<1>2. AllInit => YInit /\ BInit /\ MInit /\ CInit /\ AInit /\ PInit
  BY DEF AllInit
<1> QED
  BY <1>1, <1>2, StepsApart, PTL
  DEF AllSpec, YSpec, BSpec, MSpec, CSpec, ASpec, PSpec

(* So the contracts keep their promises side by side, under nothing but    *)
(* the assumptions on the constants.                                       *)
THEOREM SafeguardsHold ==
  AllSpec => /\ []TreasuryConserved /\ []HealthViewsAgree
             /\ []VetoBlocksId /\ []BurstsDelayed /\ AmountBinding
             /\ []EscrowCovered /\ []ClaimsWithinCommitment
<1>1. /\ YieldAssumption /\ SpeedBumpAssumption /\ MonitorAssumption
      /\ ConfidentialAssumption /\ ArbitrationAssumption /\ BiddingAssumption
  BY SafeguardsAssumed
<1>2. /\ YSpec => []TreasuryConserved /\ []HealthViewsAgree
      /\ BSpec => []VetoBlocksId
      /\ MSpec => []BurstsDelayed
      /\ CSpec => AmountBinding
      /\ ASpec => []EscrowCovered
      /\ PSpec => []ClaimsWithinCommitment
  BY <1>1, BooksConserved, HealthViewsConsistent, VetoesHold, BurstsAreDelayed,
     AmountsBound, DisputesStayFunded, ClaimsBoundByCommitment
<1> QED
  BY <1>2, ContractsRunAlone, PTL

=============================================================================

-------------------------- MODULE GrantStreamProofs -------------------------
(***************************************************************************)
(* Theorems of GrantStream, for every finite set of grants, every address, *)
(* amount and rate. Lemmas about the functions of GrantOps come first:     *)
(* what settle_grant preserves of a grant record and what it can change. A *)
(* step of the contract is then shown to be a step of the circuit breakers *)
(* (BreakerStepped) and to move each grant in one of the ways of Moved     *)
(* (GrantsMoved); the theorems on single grants follow from these, and     *)
(* from them those on the shared balance: rescues and payments.            *)
(***************************************************************************)
EXTENDS GrantStream, SumTheorems

(* The history of withdrawals that CircuitBreakersProofs also speaks of    *)
(* stays empty.                                                            *)
CBP == INSTANCE CircuitBreakersProofs
         WITH ActiveCounts <- 0..Cardinality(Ids), MaxWithdrawals <- 0, log <- <<>>

(***************************************************************************)
(* Arithmetic.                                                             *)
(***************************************************************************)

(* Products and quotients of naturals are naturals.                        *)
LEMMA ProductNat ==
  ASSUME NEW a \in Nat, NEW b \in Nat
  PROVE  a * b \in Nat
OBVIOUS

LEMMA QuotientNat ==
  ASSUME NEW a \in Nat, NEW d \in Nat \ {0}
  PROVE  a \div d \in Nat
OBVIOUS

(* The validator's share of an accrual is a part of it: what is left for   *)
(* the grantee is never negative.                                          *)
LEMMA ShareIsPart ==
  ASSUME NEW accrued \in Nat
  PROVE  ValidatorShare(accrued) \in 0..accrued
<1> DEFINE part  == accrued * VALIDATOR_BPS
           whole == accrued * BPS
           share == part \div BPS
<1> USE GrantOpsAssumption
<1>1. part \in Nat /\ whole \in Nat /\ share \in Nat
  BY ProductNat, QuotientNat
<1>2. part <= whole
  OBVIOUS
<1>3. share * BPS <= part
  OBVIOUS
<1>4. share <= accrued
  BY <1>1, <1>2, <1>3
<1> QED
  BY <1>1, <1>4 DEF ValidatorShare

(***************************************************************************)
(* Accrual.                                                                *)
(***************************************************************************)

LEMMA MultiplierNat ==
  ASSUME NEW g \in Grant, NEW now \in Nat
  PROVE  WarmupMultiplier(g, now) \in Nat
<1> USE GrantOpsAssumption
<1> DEFINE done     == g.warmup_duration = 0 \/ now >= g.start_time + g.warmup_duration
           elapsed  == now - g.start_time
           progress == (elapsed * BPS) \div g.warmup_duration
           rise     == ((BPS - WARMUP_FLOOR_BPS) * progress) \div BPS
<1>1. g.warmup_duration \in Nat /\ g.start_time \in Nat
  BY DEF Grant
<1>2. CASE done \/ now <= g.start_time
  BY <1>2 DEF WarmupMultiplier
<1>3. CASE ~done /\ ~(now <= g.start_time)
  <2>1. elapsed \in Nat /\ g.warmup_duration \in Nat \ {0}
    BY <1>1, <1>3
  <2>2. progress \in Nat
    BY <2>1, ProductNat, QuotientNat
  <2>3. rise \in Nat
    <3>1. (BPS - WARMUP_FLOOR_BPS) * progress \in Nat
      BY <2>2, ProductNat
    <3> QED
      BY <3>1, QuotientNat
  <2>4. WarmupMultiplier(g, now) = WARMUP_FLOOR_BPS + rise
    BY <1>1, <1>3 DEF WarmupMultiplier
  <2> QED
    BY <2>3, <2>4
<1> QED
  BY <1>2, <1>3

LEMMA AccruedNat ==
  ASSUME NEW g \in Grant, NEW elapsed \in Nat, NEW now \in Nat
  PROVE  Accrued(g, elapsed, now) \in Nat
<1>1. g.flow_rate * elapsed \in Nat
  BY ProductNat DEF Grant
<1>2. g.flow_rate * elapsed * WarmupMultiplier(g, now) \in Nat
  BY <1>1, MultiplierNat, ProductNat
<1> QED
  BY <1>2, QuotientNat, GrantOpsAssumption DEF Accrued

(***************************************************************************)
(* What accrual and the cap may touch.                                     *)
(***************************************************************************)

(* The terms of a grant and the amounts paid out: settle_grant writes none *)
(* of these fields.                                                        *)
SameTerms(g, h) ==
  /\ h.recipient = g.recipient
  /\ h.donor = g.donor
  /\ h.validator = g.validator
  /\ h.total_amount = g.total_amount
  /\ h.withdrawn = g.withdrawn
  /\ h.validator_withdrawn = g.validator_withdrawn
  /\ h.requires_legal_signature = g.requires_legal_signature
  /\ h.is_legal_signed = g.is_legal_signed

LEMMA SplitSound ==
  ASSUME NEW g \in Grant, NEW accrued \in Nat
  PROVE  /\ AccruedSplit(g, accrued) \in Grant
         /\ SameTerms(g, AccruedSplit(g, accrued))
         /\ AccruedSplit(g, accrued).status = g.status
         /\ g.validator = None =>
              AccruedSplit(g, accrued).validator_claimable = g.validator_claimable
<1> DEFINE share == IF g.validator = None THEN 0 ELSE ValidatorShare(accrued)
<1>1. share \in Nat /\ accrued - share \in Nat
  BY ShareIsPart
<1>2. AccruedSplit(g, accrued)
        = [g EXCEPT !.claimable = @ + (accrued - share),
                    !.validator_claimable = @ + share]
  BY DEF AccruedSplit
<1>3. /\ g.claimable + (accrued - share) \in Nat
      /\ g.validator_claimable + share \in Nat
      /\ g.validator = None => g.validator_claimable + share = g.validator_claimable
  BY <1>1 DEF Grant
<1> HIDE DEF share
<1>4. AccruedSplit(g, accrued) \in Grant
  BY <1>2, <1>3 DEF Grant
<1>5. /\ SameTerms(g, AccruedSplit(g, accrued))
      /\ AccruedSplit(g, accrued).status = g.status
  BY <1>2 DEF Grant, SameTerms
<1>6. g.validator = None =>
        AccruedSplit(g, accrued).validator_claimable = g.validator_claimable
  BY <1>2, <1>3 DEF Grant
<1> QED
  BY <1>4, <1>5, <1>6

LEMMA AccrueSound ==
  ASSUME NEW g \in Grant, NEW now \in Nat, g.last_update_ts <= now,
         SwitchDue(g, now) => g.last_update_ts <= g.effective_timestamp
  PROVE  /\ Accrue(g, now) \in Grant
         /\ SameTerms(g, Accrue(g, now))
         /\ Accrue(g, now).status = g.status
         /\ g.validator = None =>
              Accrue(g, now).validator_claimable = g.validator_claimable
<1> DEFINE switch   == g.effective_timestamp
           before   == Accrued(g, switch - g.last_update_ts, switch)
           split    == AccruedSplit(g, before)
           switched == [split EXCEPT !.flow_rate = split.pending_rate,
                          !.pending_rate = 0, !.effective_timestamp = 0,
                          !.last_update_ts = split.effective_timestamp]
<1>1. CASE SwitchDue(g, now)
  <2>1. switch \in Nat /\ switch - g.last_update_ts \in Nat /\ now - switch \in Nat
    BY <1>1 DEF SwitchDue, Grant
  <2>2. /\ split \in Grant /\ SameTerms(g, split) /\ split.status = g.status
        /\ g.validator = None => split.validator_claimable = g.validator_claimable
    BY <2>1, AccruedNat, SplitSound
  <2>3. /\ switched \in Grant /\ SameTerms(g, switched)
        /\ switched.status = g.status
        /\ g.validator = None => switched.validator_claimable = g.validator_claimable
    <3> HIDE DEF split
    <3> QED
      BY <2>2 DEF Grant, SameTerms
  <2>4. Accrued(switched, now - switch, now) \in Nat
    BY <2>1, <2>3, AccruedNat
  <2>5. Accrue(g, now) = AccruedSplit(switched, Accrued(switched, now - switch, now))
    BY <1>1 DEF Accrue, WithPendingRate
  <2> HIDE DEF switched
  <2> QED
    BY <2>3, <2>4, <2>5, SplitSound DEF SameTerms
<1>2. CASE ~SwitchDue(g, now)
  <2>1. now - g.last_update_ts \in Nat
    BY DEF Grant
  <2> QED
    BY <1>2, <2>1, AccruedNat, SplitSound DEF Accrue
<1> QED
  BY <1>1, <1>2

(***************************************************************************)
(* What settle_grant guarantees of the record it leaves.                   *)
(***************************************************************************)

Within(g) == g.withdrawn + g.claimable <= g.total_amount

Backed(g) == g.claimable > 0 => Accounted(g) <= g.total_amount

ShareHasOwner(g) ==
  g.validator = None => g.validator_claimable = 0 /\ g.validator_withdrawn = 0

FullyAccounted(g) ==
  g.status = "Completed" =>
    /\ Accounted(g) >= g.total_amount
    /\ g.validator = None => Accounted(g) <= g.total_amount

Sound(g) == Within(g) /\ Backed(g) /\ ShareHasOwner(g) /\ FullyAccounted(g)

(* The cap leaves a sound record, whatever had accrued before it, as long  *)
(* as the grantee has not withdrawn more than the grant.                   *)
LEMMA CapSound ==
  ASSUME NEW g \in Grant, g.withdrawn <= g.total_amount, ShareHasOwner(g)
  PROVE  /\ Capped(g) \in Grant
         /\ SameTerms(g, Capped(g))
         /\ Within(Capped(g)) /\ Backed(Capped(g)) /\ ShareHasOwner(Capped(g))
         /\ Capped(g).status # g.status => FullyAccounted(Capped(g))
         /\ FullyAccounted(g) => FullyAccounted(Capped(g))
         /\ Capped(g).status \in {g.status, "Completed"}
         /\ Accounted(Capped(g)) <= Accounted(g)
<1> DEFINE room == g.total_amount - (PaidOut(g) + g.validator_claimable)
           rest == IF room > 0 THEN room ELSE 0
           capped == [g EXCEPT !.claimable = rest, !.status = "Completed"]
<1>1. /\ g.withdrawn \in Nat /\ g.claimable \in Nat /\ g.total_amount \in Nat
      /\ g.validator_withdrawn \in Nat /\ g.validator_claimable \in Nat
  BY DEF Grant
<1>2. CASE Accounted(g) >= g.total_amount
  <2>1. Capped(g) = capped
    BY <1>2 DEF Capped
  <2>2. rest \in Nat /\ rest <= g.claimable
    BY <1>1, <1>2 DEF Accounted, PaidOut
  <2>3. /\ capped \in Grant
        /\ SameTerms(g, capped)
        /\ capped.claimable = rest
        /\ capped.status = "Completed"
        /\ capped.validator_claimable = g.validator_claimable
    <3> HIDE DEF rest
    <3> QED
      BY <2>2 DEF Grant, GrantStatus, SameTerms
  <2> HIDE DEF capped
  <2>4. Accounted(capped) = PaidOut(g) + rest + g.validator_claimable
    BY <2>3 DEF SameTerms, Accounted, PaidOut
  <2>5. Within(capped) /\ Backed(capped)
    BY <1>1, <2>3, <2>4 DEF Within, Backed, SameTerms, PaidOut
  <2>6. ShareHasOwner(capped)
    BY <2>3 DEF ShareHasOwner, SameTerms
  <2>7. FullyAccounted(capped)
    BY <1>1, <2>3, <2>4 DEF FullyAccounted, ShareHasOwner, SameTerms, PaidOut
  <2>8. Accounted(capped) <= Accounted(g)
    BY <1>1, <2>2, <2>4 DEF Accounted, PaidOut
  <2> QED
    BY <2>1, <2>3, <2>5, <2>6, <2>7, <2>8
<1>3. CASE ~(Accounted(g) >= g.total_amount)
  <2>1. Capped(g) = g
    BY <1>3 DEF Capped
  <2>2. Within(g) /\ Backed(g)
    BY <1>1, <1>3 DEF Within, Backed, Accounted, PaidOut
  <2> QED
    BY <1>1, <2>1, <2>2 DEF SameTerms, Accounted, PaidOut
<1> QED
  BY <1>2, <1>3

(* settle_grant, wherever it does not fail, keeps a grant well typed, its  *)
(* terms and its payments as they were, and its accounting sound; it       *)
(* changes the status only to Completed.                                   *)
LEMMA SettleSound ==
  ASSUME NEW g \in Grant, NEW now \in Nat, CanSettle(g, now), Sound(g)
  PROVE  /\ Settle(g, now) \in Grant
         /\ SameTerms(g, Settle(g, now))
         /\ Sound(Settle(g, now))
         /\ Settle(g, now).status \in {g.status, "Completed"}
         /\ Accounted(Settle(g, now)) > Accounted(g)
              => g.status = "Active" /\ ~AwaitsSignature(g)
<1> DEFINE accrued == IF g.status = "Active" THEN Accrue(g, now) ELSE g
           stamped(h) == [h EXCEPT !.last_update_ts = now]
<1>1. ASSUME NEW h \in Grant, SameTerms(g, h), Sound(h)
      PROVE  /\ stamped(h) \in Grant /\ SameTerms(g, stamped(h)) /\ Sound(stamped(h))
             /\ stamped(h).status = h.status
             /\ Accounted(stamped(h)) = Accounted(h)
  <2>1. /\ stamped(h) \in Grant /\ SameTerms(h, stamped(h))
        /\ stamped(h).status = h.status
        /\ stamped(h).claimable = h.claimable
        /\ stamped(h).validator_claimable = h.validator_claimable
    BY DEF Grant, SameTerms
  <2> HIDE DEF stamped
  <2>2. Accounted(stamped(h)) = Accounted(h)
    BY <2>1 DEF SameTerms, Accounted, PaidOut
  <2>3. Sound(stamped(h))
    BY <1>1, <2>1, <2>2 DEF SameTerms, Sound, Within, Backed, ShareHasOwner,
                           FullyAccounted
  <2> QED
    BY <1>1, <2>1, <2>2, <2>3 DEF SameTerms
<1> HIDE DEF stamped
<1>2. CASE now = g.last_update_ts
  <2>1. Accounted(g) \in Int
    BY DEF Grant, Accounted, PaidOut
  <2> QED
    BY <1>2, <2>1 DEF Settle, SameTerms
<1>3. CASE now # g.last_update_ts /\ g.status = "Active" /\ AwaitsSignature(g)
  <2>1. Settle(g, now) = stamped(g)
    BY <1>3 DEF Settle, stamped
  <2>2. SameTerms(g, g) /\ Accounted(g) \in Int
    BY DEF SameTerms, Grant, Accounted, PaidOut
  <2> QED
    BY <1>1, <1>3, <2>1, <2>2
<1>4. CASE now # g.last_update_ts /\ ~(g.status = "Active" /\ AwaitsSignature(g))
  <2>1. /\ accrued \in Grant /\ SameTerms(g, accrued)
        /\ accrued.status = g.status
        /\ g.validator = None => accrued.validator_claimable = g.validator_claimable
    <3>1. CASE g.status = "Active"
      <4>1. g.last_update_ts <= now /\ now > g.last_update_ts
        BY <1>4 DEF CanSettle, Grant
      <4>2. SwitchDue(g, now) => g.last_update_ts <= g.effective_timestamp
        BY <1>4, <3>1, <4>1 DEF CanSettle, Accruing
      <4> QED
        BY <3>1, <4>1, <4>2, AccrueSound
    <3>2. CASE g.status # "Active"
      BY <3>2 DEF SameTerms
    <3> QED
      BY <3>1, <3>2
  <2>2. accrued.withdrawn <= accrued.total_amount /\ ShareHasOwner(accrued)
    BY <2>1 DEF Sound, Within, ShareHasOwner, SameTerms, Grant
  <2>3. FullyAccounted(accrued)
    BY <2>1 DEF Sound, FullyAccounted
  <2> HIDE DEF accrued
  <2>4. /\ Capped(accrued) \in Grant /\ SameTerms(g, Capped(accrued))
        /\ Sound(Capped(accrued))
        /\ Capped(accrued).status \in {g.status, "Completed"}
        /\ Accounted(Capped(accrued)) <= Accounted(accrued)
    BY <2>1, <2>2, <2>3, CapSound DEF Sound, SameTerms
  <2>5. Settle(g, now) = stamped(Capped(accrued))
    BY <1>4 DEF Settle, accrued, stamped
  <2>6. g.status # "Active" => Accounted(Settle(g, now)) <= Accounted(g)
    BY <1>1, <2>4, <2>5 DEF accrued
  <2>7. Accounted(Settle(g, now)) \in Int /\ Accounted(g) \in Int
    BY <1>1, <2>4, <2>5 DEF Grant, Accounted, PaidOut
  <2> QED
    BY <1>1, <1>4, <2>4, <2>5, <2>6, <2>7
<1> QED
  BY <1>2, <1>3, <1>4

(***************************************************************************)
(* The circuit breakers within the contract.                               *)
(***************************************************************************)

(* CircuitBreakers, which GrantStream instantiates, and                    *)
(* CircuitBreakersProofs, whose theorems are used here, have the same      *)
(* initial states, steps, types and properties.                            *)
LEMMA SameBreakers ==
  /\ CBP!BreakerAssumption /\ CBP!CircuitBreakersAssumption
  /\ CB!Init <=> CBP!Init
  /\ CB!TypeOK <=> CBP!TypeOK
  /\ CB!vars = CBP!vars
  /\ CB!Next <=> CBP!Next
  /\ CB!UnhaltedBelowThreshold <=> CBP!UnhaltedBelowThreshold
<1>1. CBP!BreakerAssumption /\ CBP!CircuitBreakersAssumption
  BY BreakersAssumption
  DEF CB!BreakerAssumption, CBP!BreakerAssumption,
      CB!CircuitBreakersAssumption, CBP!CircuitBreakersAssumption
<1>2. /\ CB!Init <=> CBP!Init
      /\ CB!TypeOK <=> CBP!TypeOK
      /\ CB!vars = CBP!vars
      /\ CB!UnhaltedBelowThreshold <=> CBP!UnhaltedBelowThreshold
  BY DEF CB!Init, CBP!Init, CB!FreshBreaker, CBP!FreshBreaker,
         CB!TypeOK, CBP!TypeOK, CB!Breaker, CBP!Breaker, CB!vars, CBP!vars,
         CB!UnhaltedBelowThreshold, CBP!UnhaltedBelowThreshold,
         CB!Reaches, CBP!Reaches
<1>3. CB!Next <=> CBP!Next
  <2> USE DEF CB!Expired, CBP!Expired, CB!WithDefault, CBP!WithDefault,
              CB!Reaches, CBP!Reaches, CB!Deviates, CBP!Deviates
  <2>1. \A amount \in Amounts : CB!Withdraw(amount) <=> CBP!Withdraw(amount)
    BY DEF CB!Withdraw, CBP!Withdraw, CB!WithdrawalsAllowed, CBP!WithdrawalsAllowed,
           CB!CheckRentBalance, CBP!CheckRentBalance,
           CB!RecordWithdrawalVelocity, CBP!RecordWithdrawalVelocity
  <2>2. \A active \in 0..Cardinality(Ids) :
          CB!TriggerGrantDispute(active) <=> CBP!TriggerGrantDispute(active)
    BY DEF CB!TriggerGrantDispute, CBP!TriggerGrantDispute,
           CB!RecordDispute, CBP!RecordDispute
  <2>3. \A price \in Prices : CB!SubmitOraclePrice(price) <=> CBP!SubmitOraclePrice(price)
    BY DEF CB!SubmitOraclePrice, CBP!SubmitOraclePrice,
           CB!RecordOraclePrice, CBP!RecordOraclePrice
  <2>4. \A oracle \in SanityOracles :
          CB!DesignateSanityOracle(oracle) <=> CBP!DesignateSanityOracle(oracle)
    BY DEF CB!DesignateSanityOracle, CBP!DesignateSanityOracle,
           CB!SetSanityOracle, CBP!SetSanityOracle
  <2>5. \A liquidity \in Liquidities :
          CB!SnapshotTvl(liquidity) <=> CBP!SnapshotTvl(liquidity)
    BY DEF CB!SnapshotTvl, CBP!SnapshotTvl, CB!UpdateTvlSnapshot, CBP!UpdateTvlSnapshot
  <2>6. /\ CB!ResumeVelocity <=> CBP!ResumeVelocity
        /\ CB!ResumeInitialization <=> CBP!ResumeInitialization
    BY DEF CB!ResumeVelocity, CBP!ResumeVelocity,
           CB!ResumeAfterVelocityCheck, CBP!ResumeAfterVelocityCheck,
           CB!ResumeInitialization, CBP!ResumeInitialization,
           CB!ResumeGrantInitialization, CBP!ResumeGrantInitialization
  <2>7. /\ CB!CheckRent <=> CBP!CheckRent
        /\ CB!DisableRentPreservation <=> CBP!DisableRentPreservation
        /\ \A xlm \in 0..MaxXlm : CB!NativeTransfer(xlm) <=> CBP!NativeTransfer(xlm)
        /\ CB!Tick <=> CBP!Tick
    BY DEF CB!CheckRent, CBP!CheckRent, CB!CheckRentBalance, CBP!CheckRentBalance,
           CB!DisableRentPreservation, CBP!DisableRentPreservation,
           CB!DisableRentPreservationMode, CBP!DisableRentPreservationMode,
           CB!NativeTransfer, CBP!NativeTransfer, CB!Tick, CBP!Tick
  <2> QED
    BY <2>1, <2>2, <2>3, <2>4, <2>5, <2>6, <2>7 DEF CB!Next, CBP!Next
<1> QED
  BY <1>1, <1>2, <1>3

LEMMA ActiveCountBounded == Cardinality(ActiveIds) \in 0..Cardinality(Ids)
<1>1. IsFiniteSet(Ids) /\ ActiveIds \subseteq Ids
  BY GrantStreamAssumption DEF ActiveIds
<1>2. /\ Cardinality(ActiveIds) \in Nat /\ Cardinality(Ids) \in Nat
      /\ Cardinality(ActiveIds) <= Cardinality(Ids)
  BY <1>1, FS_Subset, FS_CardinalityType
<1> QED
  BY <1>2

(* Every step of the contract is a step of the breakers, or leaves them    *)
(* and the clock alone.                                                    *)
LEMMA BreakerStepped ==
  CB!TypeOK /\ [Next]_vars => [CB!Next]_CB!vars
<1> SUFFICES ASSUME CB!TypeOK, Next
             PROVE  CB!Next \/ UNCHANGED clock
  BY DEF vars, clock, CB!vars
<1> USE DEF clock
<1>1. breaker.xlm \in 0..MaxXlm /\ breaker.xlm \in Nat /\ MaxXlm \in Nat
  BY BreakersAssumption DEF CB!TypeOK, CB!Breaker, CB!CircuitBreakersAssumption
<1>2. ASSUME NEW g \in Ids, Create(g) \/ Manage(g)
      PROVE  UNCHANGED clock
  BY <1>2 DEF Create, Manage, CreateGrant, PauseStream, ResumeStream,
              ProposeRateChange, ApplyKpiMultiplier, SetLegalMetadata,
              SignLegalMetadata, ChangeGrantee
<1>3. ASSUME NEW g \in Ids, Disburse(g)
      PROVE  CB!Next \/ UNCHANGED clock
  <2>1. ASSUME NEW amount \in Amounts, Withdraw(g, amount)
        PROVE  CB!Next
    BY <2>1 DEF Withdraw, CB!Next
  <2>2. CASE ~(\E amount \in Amounts : Withdraw(g, amount))
    BY <1>3, <2>2 DEF Disburse, WithdrawValidator, RageQuit, CancelGrant,
                      TriggerGrantClawback, ReleaseEscrowToDonor, ReturnEscrowToGrant
  <2> QED
    BY <2>1, <2>2
<1>4. ASSUME NEW g \in Ids, FinalizeAndPurge(g) \/ PruneFinalizedGrant(g)
      PROVE  CB!Next
  <2>1. PICK bounty \in {PURGE_BOUNTY, PRUNE_BOUNTY} : PayBounty(bounty)
    BY <1>4 DEF FinalizeAndPurge, PruneFinalizedGrant
  <2> DEFINE rest == IF breaker.xlm >= bounty THEN breaker.xlm - bounty
                                              ELSE breaker.xlm
  <2>2. rest \in 0..MaxXlm
    BY <1>1, GrantStreamAssumption
  <2> QED
    BY <2>1, <2>2 DEF PayBounty, CB!Next
<1>5. ASSUME NEW g \in Ids, TriggerGrantDispute(g)
      PROVE  CB!Next
  BY <1>5, ActiveCountBounded DEF TriggerGrantDispute, CB!Next
<1>6. ASSUME NEW amount \in Amounts, RescueNativeTokens(amount)
      PROVE  CB!Next
  <2>1. breaker.xlm - amount \in 0..MaxXlm
    BY <1>1, <1>6, GrantStreamAssumption DEF RescueNativeTokens
  <2> QED
    BY <1>6, <2>1 DEF RescueNativeTokens, CB!Next
<1>7. CASE BreakerStep
  BY <1>7 DEF BreakerStep, CB!Next
<1>8. CASE LedgerTick
  BY <1>8 DEF LedgerTick, CB!Next
<1>9. ASSUME NEW amount \in Amounts, RescueGrantTokens(amount)
      PROVE  UNCHANGED clock
  BY <1>9 DEF RescueGrantTokens
<1> QED
  BY <1>2, <1>3, <1>4, <1>5, <1>6, <1>7, <1>8, <1>9 DEF Next, GrantNext

LEMMA BreakerTypeStep == CB!TypeOK /\ [Next]_vars => CB!TypeOK'
<1>1. CB!TypeOK' <=> CBP!TypeOK'
  BY DEF CB!TypeOK, CBP!TypeOK, CB!Breaker, CBP!Breaker
<1>2. CBP!TypeOK /\ [CBP!Next]_CBP!vars => CBP!TypeOK'
  BY SameBreakers, CBP!TypeStep
<1>3. [CB!Next]_CB!vars <=> [CBP!Next]_CBP!vars
  BY SameBreakers DEF CB!vars, CBP!vars
<1> QED
  BY <1>1, <1>2, <1>3, BreakerStepped, SameBreakers

(* Whatever grant operations run, the breakers' storage moves by the steps *)
(* of CircuitBreakers only.                                                *)
THEOREM BreakersRefined == Spec => BreakersImplemented
<1>1. Init => CB!Init /\ CB!TypeOK
  BY CBP!InitTyped, SameBreakers DEF Init
<1> QED
  BY <1>1, BreakerStepped, BreakerTypeStep, PTL DEF Spec, BreakersImplemented, CB!Spec

(* What CircuitBreakers promises holds within the contract: while grant    *)
(* initialization is open, the disputes counted are below the threshold.   *)
THEOREM ContractBelowThreshold == Spec => []CB!UnhaltedBelowThreshold
<1>1. CBP!Spec => []CBP!UnhaltedBelowThreshold
  BY CBP!OpenMeansBelowThreshold, SameBreakers
<1>2. [CB!Next]_CB!vars => [CBP!Next]_CBP!vars
  BY SameBreakers DEF CB!vars, CBP!vars
<1> QED
  BY <1>1, <1>2, BreakersRefined, SameBreakers, PTL
  DEF BreakersImplemented, CB!Spec, CBP!Spec

(***************************************************************************)
(* What one step may do to one grant.                                      *)
(***************************************************************************)

GrantsTyped == grant \in [Ids -> Grant]

GrantsSound == \A g \in Ids : Sound(grant[g])

Terminal == {"Completed", "Cancelled", "RageQuitted"}

(* Record r becomes h: still sound, not revived, richer only if it was     *)
(* Active and not waiting for a signature, and, unless "open" holds, paid  *)
(* to its grantee only by a rage quit.                                     *)
Moved(r, h, open) ==
  /\ h \in Grant /\ Sound(h)
  /\ r.status \in Terminal => h.status \in {r.status, "Absent"}
  /\ r.status # "Absent" /\ Accounted(h) > Accounted(r)
       => r.status = "Active" /\ ~AwaitsSignature(r)
  /\ r.status # "Absent" /\ h.withdrawn > r.withdrawn
       => open \/ h.status = "RageQuitted"

(* A settled record differs from the stored one as SettleSound says.       *)
SettledFrom(r, s) ==
  /\ r \in Grant /\ s \in Grant
  /\ SameTerms(r, s) /\ Sound(s)
  /\ s.status \in {r.status, "Completed"}
  /\ Accounted(s) > Accounted(r) => r.status = "Active" /\ ~AwaitsSignature(r)

LEMMA SettledSound ==
  ASSUME GrantsTyped, GrantsSound, time \in Nat, NEW g \in Ids, Settles(g)
  PROVE  SettledFrom(grant[g], Settled(g))
BY SettleSound DEF GrantsTyped, GrantsSound, Settles, Settled, SettledFrom

(* Changing what the accounting does not read, and leaving the amounts.    *)
SameAmounts(s, h) ==
  /\ h.total_amount = s.total_amount
  /\ h.withdrawn = s.withdrawn /\ h.claimable = s.claimable
  /\ h.validator_withdrawn = s.validator_withdrawn
  /\ h.validator_claimable = s.validator_claimable
  /\ h.validator = s.validator

LEMMA SameAmountsMove ==
  ASSUME NEW r \in Grant, NEW s \in Grant, NEW h \in Grant, NEW open,
         SettledFrom(r, s), SameAmounts(s, h),
         h.status \in {s.status, "Active", "Paused", "Clawbacked", "Cancelled"},
         r.status \in Terminal =>
           h.status = r.status \/ (h.status = s.status /\ r.status = "Completed")
  PROVE  Moved(r, h, open)
<1>1. Accounted(h) = Accounted(s) /\ h.withdrawn = r.withdrawn
  BY DEF SettledFrom, SameTerms, SameAmounts, Accounted, PaidOut
<1>2. Sound(h)
  BY <1>1 DEF SettledFrom, SameAmounts, Sound, Within, Backed, ShareHasOwner,
              FullyAccounted
<1>3. h.withdrawn \in Nat /\ r.withdrawn \in Nat
  BY DEF Grant
<1> QED
  BY <1>1, <1>2, <1>3 DEF SettledFrom, Moved

(* A stored record that is not settled counts as settled from itself.      *)
LEMMA UnsettledFrom ==
  ASSUME NEW r \in Grant, Sound(r)
  PROVE  SettledFrom(r, r)
<1>1. Accounted(r) \in Int
  BY DEF Grant, Accounted, PaidOut
<1> QED
  BY <1>1 DEF SettledFrom, SameTerms

LEMMA AbsentSound == Absent \in Grant /\ Sound(Absent)
<1>1. Absent \in Grant
  BY DEF Absent, NewGrant, Grant
<1>2. Sound(Absent)
  BY DEF Absent, NewGrant, Sound, Within, Backed, ShareHasOwner, FullyAccounted,
         Accounted, PaidOut
<1> QED
  BY <1>1, <1>2

LEMMA AbsentMoves ==
  ASSUME NEW r \in Grant, NEW open
  PROVE  Moved(r, Absent, open)
<1>1. Accounted(Absent) = 0 /\ Absent.withdrawn = 0 /\ Absent.status = "Absent"
  BY DEF Absent, NewGrant, Accounted, PaidOut
<1>2. Accounted(r) \in Nat /\ r.withdrawn \in Nat
  BY DEF Grant, Accounted, PaidOut
<1> QED
  BY <1>1, <1>2, AbsentSound DEF Moved

Open == CB!WithdrawalsAllowed(breaker)

GrantsMove ==
  /\ GrantsTyped'
  /\ \A g \in Ids : Moved(grant[g], grant'[g], Open)

LEMMA UnchangedMoves ==
  ASSUME GrantsTyped, GrantsSound, UNCHANGED grant
  PROVE  GrantsMove
<1>1. \A g \in Ids : grant[g] \in Grant /\ Sound(grant[g])
  BY DEF GrantsTyped, GrantsSound
<1>2. \A g \in Ids : Accounted(grant[g]) \in Int /\ grant[g].withdrawn \in Int
  BY <1>1 DEF Grant, Accounted, PaidOut
<1> QED
  BY <1>1, <1>2 DEF GrantsTyped, GrantsMove, Moved

LEMMA WriteMoves ==
  ASSUME GrantsTyped, GrantsSound, NEW g \in Ids, NEW h, Write(g, h),
         Moved(grant[g], h, Open)
  PROVE  GrantsMove
<1>1. \A x \in Ids : grant[x] \in Grant /\ Sound(grant[x])
  BY DEF GrantsTyped, GrantsSound
<1>2. \A x \in Ids : Accounted(grant[x]) \in Int /\ grant[x].withdrawn \in Int
  BY <1>1 DEF Grant, Accounted, PaidOut
<1>3. \A x \in Ids : grant'[x] = IF x = g THEN h ELSE grant[x]
  BY DEF Write, GrantsTyped
<1>4. GrantsTyped'
  BY DEF Write, GrantsTyped, Moved
<1>5. ASSUME NEW x \in Ids
      PROVE  Moved(grant[x], grant'[x], Open)
  <2>1. CASE x = g
    BY <1>3, <2>1
  <2>2. CASE x # g
    BY <1>1, <1>2, <1>3, <2>2 DEF Moved
  <2> QED
    BY <2>1, <2>2
<1> QED
  BY <1>4, <1>5 DEF GrantsMove

(* A stored record r becomes h: settled first, or not, and changed in what *)
(* the accounting does not read. Only Active and Paused grants change      *)
(* status.                                                                 *)
Managed(r, h) ==
  \E s \in Grant :
    /\ h \in Grant /\ SettledFrom(r, s) /\ SameAmounts(s, h)
    /\ \/ r.status \in {"Active", "Paused"} /\ h.status \in {s.status, "Active", "Paused"}
       \/ s = r /\ h.status = r.status

LEMMA ManageWrites ==
  ASSUME GrantsTyped, GrantsSound, time \in Nat, NEW g \in Ids, Manage(g)
  PROVE  \E h \in Grant : Write(g, h) /\ Managed(grant[g], h)
<1> DEFINE r == grant[g]
           s == Settled(g)
<1>1. r \in Grant /\ Sound(r) /\ SettledFrom(r, r)
  BY UnsettledFrom DEF GrantsTyped, GrantsSound
<1>2. Settles(g) => SettledFrom(r, s) /\ s \in Grant
  BY SettledSound DEF SettledFrom
<1>3. CASE PauseStream(g)
  <2> DEFINE h == [s EXCEPT !.status = "Paused"]
  <2>1. Write(g, h) /\ r.status = "Active" /\ SettledFrom(r, s) /\ s \in Grant
    BY <1>2, <1>3 DEF PauseStream, InStatus
  <2> HIDE DEF r, s
  <2>2. h \in Grant /\ SameAmounts(s, h) /\ h.status = "Paused"
    BY <2>1 DEF Grant, GrantStatus, SameAmounts
  <2> HIDE DEF h
  <2>3. Managed(r, h)
    BY <2>1, <2>2 DEF Managed, SettledFrom
  <2> QED
    BY <2>1, <2>3 DEF r, Managed
<1>4. CASE ResumeStream(g)
  <2> DEFINE h == [r EXCEPT !.status = "Active", !.last_update_ts = time]
  <2>1. Write(g, h) /\ r.status = "Paused"
    BY <1>4 DEF ResumeStream, InStatus
  <2> HIDE DEF r
  <2>2. h \in Grant /\ SameAmounts(r, h) /\ h.status = "Active"
    BY <1>1 DEF Grant, GrantStatus, SameAmounts
  <2> HIDE DEF h
  <2>3. Managed(r, h)
    BY <1>1, <2>1, <2>2 DEF Managed, SettledFrom
  <2> QED
    BY <2>1, <2>3 DEF r, Managed
<1>5. ASSUME NEW rate \in Rates, ProposeRateChange(g, rate)
      PROVE  \E h \in Grant : Write(g, h) /\ Managed(grant[g], h)
  <2> DEFINE raised  == [s EXCEPT !.pending_rate = rate,
                            !.effective_timestamp = time + RATE_INCREASE_TIMELOCK]
             lowered == [s EXCEPT !.flow_rate = rate, !.pending_rate = 0,
                                  !.effective_timestamp = 0]
  <2>1. PICK h \in {raised, lowered} : Write(g, h)
    BY <1>5 DEF ProposeRateChange
  <2>2. r.status = "Active" /\ SettledFrom(r, s) /\ s \in Grant
    BY <1>2, <1>5 DEF ProposeRateChange, InStatus
  <2> HIDE DEF r, s
  <2>3. rate \in Nat /\ time + RATE_INCREASE_TIMELOCK \in Nat
    BY GrantStreamAssumption
  <2>4. h \in Grant /\ SameAmounts(s, h) /\ h.status = s.status
    <3>1. CASE h = raised
      BY <2>2, <2>3, <3>1 DEF Grant, SameAmounts
    <3>2. CASE h = lowered
      BY <2>2, <2>3, <3>2 DEF Grant, SameAmounts
    <3> QED
      BY <2>1, <3>1, <3>2
  <2>5. Managed(r, h)
    BY <2>1, <2>2, <2>4 DEF Managed, SettledFrom
  <2> QED
    BY <2>1, <2>5 DEF r, Managed
<1>6. ASSUME NEW multiplier \in Multipliers, ApplyKpiMultiplier(g, multiplier)
      PROVE  \E h \in Grant : Write(g, h) /\ Managed(grant[g], h)
  <2> DEFINE scaled(rate) == (rate * multiplier) \div BPS
             flow    == scaled(s.flow_rate)
             pending == scaled(s.pending_rate)
             h == [s EXCEPT !.flow_rate = flow, !.pending_rate = pending]
  <2>1. Write(g, h) /\ r.status = "Active" /\ SettledFrom(r, s) /\ s \in Grant
    BY <1>2, <1>6 DEF ApplyKpiMultiplier, InStatus
  <2> HIDE DEF r, s
  <2>2. flow \in Nat /\ pending \in Nat
    <3>1. s.flow_rate * multiplier \in Nat /\ s.pending_rate * multiplier \in Nat
      BY <2>1, GrantStreamAssumption, ProductNat DEF Grant
    <3> QED
      BY <3>1, GrantOpsAssumption, QuotientNat
  <2> HIDE DEF flow, pending
  <2>3. h \in Grant /\ SameAmounts(s, h) /\ h.status = s.status
    BY <2>1, <2>2 DEF Grant, SameAmounts
  <2> HIDE DEF h
  <2>4. Managed(r, h)
    BY <2>1, <2>3 DEF Managed, SettledFrom
  <2> QED
    BY <2>1, <2>4 DEF r, Managed
<1>7. ASSUME NEW requires \in LegalRequirements, SetLegalMetadata(g, requires)
      PROVE  \E h \in Grant : Write(g, h) /\ Managed(grant[g], h)
  <2> DEFINE h == [r EXCEPT !.legal_hash = TRUE, !.requires_legal_signature = requires]
  <2>1. Write(g, h)
    BY <1>7 DEF SetLegalMetadata
  <2>2. requires \in BOOLEAN
    BY GrantStreamAssumption
  <2> HIDE DEF r
  <2>3. h \in Grant /\ SameAmounts(r, h) /\ h.status = r.status
    BY <1>1, <2>2 DEF Grant, SameAmounts
  <2> HIDE DEF h
  <2>4. Managed(r, h)
    BY <1>1, <2>3 DEF Managed, SettledFrom
  <2> QED
    BY <2>1, <2>4 DEF r, Managed
<1>8. CASE SignLegalMetadata(g)
  <2> DEFINE h == [r EXCEPT !.is_legal_signed = TRUE, !.last_update_ts = time]
  <2>1. Write(g, h)
    BY <1>8 DEF SignLegalMetadata
  <2> HIDE DEF r
  <2>2. h \in Grant /\ SameAmounts(r, h) /\ h.status = r.status
    BY <1>1 DEF Grant, SameAmounts
  <2> HIDE DEF h
  <2>3. Managed(r, h)
    BY <1>1, <2>2 DEF Managed, SettledFrom
  <2> QED
    BY <2>1, <2>3 DEF r, Managed
<1>9. ASSUME NEW recipient \in Recipients, ChangeGrantee(g, recipient)
       PROVE  \E h \in Grant : Write(g, h) /\ Managed(grant[g], h)
  <2> DEFINE h == [r EXCEPT !.recipient = recipient]
  <2>1. Write(g, h)
    BY <1>9 DEF ChangeGrantee
  <2> HIDE DEF r
  <2>2. h \in Grant /\ SameAmounts(r, h) /\ h.status = r.status
    BY <1>1 DEF Grant, SameAmounts
  <2> HIDE DEF h
  <2>3. Managed(r, h)
    BY <1>1, <2>2 DEF Managed, SettledFrom
  <2> QED
    BY <2>1, <2>3 DEF r, Managed
<1> QED
  BY <1>3, <1>4, <1>5, <1>6, <1>7, <1>8, <1>9 DEF Manage

(* The actions of Create and Manage.                                       *)
LEMMA ManageMoves ==
  ASSUME GrantsTyped, GrantsSound, time \in Nat, NEW g \in Ids,
         Create(g) \/ Manage(g)
  PROVE  GrantsMove
<1> DEFINE r == grant[g]
<1>1. CASE Manage(g)
  <2>1. PICK h \in Grant : Write(g, h) /\ Managed(r, h)
    BY <1>1, ManageWrites
  <2>2. r \in Grant
    BY DEF GrantsTyped
  <2> HIDE DEF r
  <2>3. Moved(r, h, Open)
    BY <2>1, <2>2, SameAmountsMove DEF Managed, Terminal
  <2> QED
    BY <2>1, <2>3, WriteMoves DEF r
<1>2. ASSUME NEW recipient \in Recipients, NEW total \in Totals, NEW rate \in Rates,
             NEW warmup \in Warmups, NEW validator \in Validators \cup {None},
             NEW donor \in Donors \cup {None},
             CreateGrant(g, recipient, total, rate, warmup, validator, donor)
      PROVE  GrantsMove
  <2> DEFINE h == NewGrant(recipient, total, rate, warmup, validator, donor, time)
  <2>1. total \in Nat /\ rate \in Nat /\ warmup \in Nat
    BY GrantStreamAssumption
  <2>2. h \in Grant
    BY <2>1 DEF NewGrant, Grant, GrantStatus
  <2>3. Sound(h)
    BY <2>1 DEF NewGrant, Sound, Within, Backed, ShareHasOwner, FullyAccounted,
                Accounted, PaidOut
  <2>4. Write(g, h) /\ r.status = "Absent"
    BY <1>2 DEF CreateGrant, Stored
  <2>5. Moved(r, h, Open)
    BY <2>2, <2>3, <2>4 DEF Moved, Terminal
  <2> QED
    BY <2>4, <2>5, WriteMoves
<1> QED
  BY <1>1, <1>2 DEF Create

(* The actions of Disburse.                                                *)
LEMMA DisburseMoves ==
  ASSUME GrantsTyped, GrantsSound, escrow \in [Ids -> Nat], time \in Nat,
         NEW g \in Ids, Disburse(g)
  PROVE  GrantsMove
<1> DEFINE r == grant[g]
           s == Settled(g)
<1>1. r \in Grant /\ Sound(r) /\ SettledFrom(r, r)
  BY UnsettledFrom DEF GrantsTyped, GrantsSound
<1>2. Settles(g) => SettledFrom(r, s) /\ s \in Grant
  BY SettledSound DEF SettledFrom
<1>3. ASSUME NEW amount \in Amounts, Withdraw(g, amount)
      PROVE  GrantsMove
  <2> DEFINE during   == s.cancellation_initiated_at # 0
             eligible == s.clawback_eligible + IF during THEN amount ELSE 0
             rest     == s.claimable - amount
             total    == s.withdrawn + amount
             h == [s EXCEPT !.claimable = rest, !.withdrawn = total,
                            !.clawback_eligible = eligible]
  <2>1. /\ Write(g, h) /\ Open /\ amount <= s.claimable
        /\ r.status \notin {"Absent", "Cancelled", "RageQuitted"}
        /\ SettledFrom(r, s) /\ s \in Grant
    BY <1>2, <1>3 DEF Withdraw, CB!Withdraw, Stored, InStatus, Open
  <2> HIDE DEF r, s
  <2>2. amount \in Nat \ {0} /\ rest \in Nat /\ total \in Nat /\ eligible \in Nat
    BY <2>1, GrantStreamAssumption DEF Grant
  <2>3. rest + total = s.claimable + s.withdrawn /\ (rest > 0 => s.claimable > 0)
    BY <2>1, <2>2 DEF Grant
  <2> HIDE DEF rest, total, eligible
  <2>4. /\ h \in Grant /\ SameTerms(s, [h EXCEPT !.withdrawn = s.withdrawn])
        /\ h.claimable = rest /\ h.withdrawn = total
        /\ h.validator_claimable = s.validator_claimable
        /\ h.validator_withdrawn = s.validator_withdrawn
        /\ h.total_amount = s.total_amount /\ h.validator = s.validator
        /\ h.status = s.status
    BY <2>1, <2>2 DEF Grant, SameTerms
  <2> HIDE DEF h
  <2>5. Accounted(h) = Accounted(s)
    BY <2>1, <2>2, <2>3, <2>4 DEF Grant, Accounted, PaidOut
  <2>6. Sound(h)
    BY <2>1, <2>2, <2>3, <2>4, <2>5 DEF Grant, SettledFrom, Sound, Within, Backed,
                                   ShareHasOwner, FullyAccounted
  <2>7. Moved(r, h, Open)
    BY <2>1, <2>4, <2>5, <2>6 DEF Moved, SettledFrom, Terminal
  <2> QED
    BY <2>1, <2>7, WriteMoves DEF r
<1>4. ASSUME NEW amount \in Amounts, WithdrawValidator(g, amount)
      PROVE  GrantsMove
  <2> DEFINE rest  == s.validator_claimable - amount
             total == s.validator_withdrawn + amount
             h == [s EXCEPT !.validator_claimable = rest, !.validator_withdrawn = total]
  <2>1. /\ Write(g, h) /\ amount <= s.validator_claimable /\ r.validator # None
        /\ r.status \notin {"Absent", "Cancelled", "RageQuitted"}
        /\ SettledFrom(r, s) /\ s \in Grant
    BY <1>2, <1>4 DEF WithdrawValidator, Stored, InStatus
  <2> HIDE DEF r, s
  <2>2. /\ amount \in Nat /\ rest \in Nat /\ total \in Nat
        /\ rest + total = s.validator_claimable + s.validator_withdrawn
    BY <2>1, GrantStreamAssumption DEF Grant
  <2> HIDE DEF rest, total
  <2>3. /\ h \in Grant
        /\ h.validator_claimable = rest /\ h.validator_withdrawn = total
        /\ h.claimable = s.claimable /\ h.withdrawn = s.withdrawn
        /\ h.total_amount = s.total_amount /\ h.validator = s.validator
        /\ h.status = s.status
    BY <2>1, <2>2 DEF Grant
  <2> HIDE DEF h
  <2>4. Accounted(h) = Accounted(s) /\ h.withdrawn = r.withdrawn
    BY <2>1, <2>2, <2>3 DEF Grant, SettledFrom, SameTerms, Accounted, PaidOut
  <2>5. Sound(h)
    BY <2>1, <2>2, <2>3, <2>4 DEF SettledFrom, SameTerms, Sound, Within, Backed,
                                  ShareHasOwner, FullyAccounted
  <2>6. h.withdrawn \in Int /\ r.withdrawn \in Int
    BY <1>1, <2>3 DEF Grant
  <2>7. Moved(r, h, Open)
    BY <2>1, <2>3, <2>4, <2>5, <2>6 DEF Moved, SettledFrom, Terminal
  <2> QED
    BY <2>1, <2>7, WriteMoves DEF r
<1>5. CASE RageQuit(g)
  <2> DEFINE total == s.withdrawn + s.claimable
             share == s.validator_withdrawn + s.validator_claimable
             h == [s EXCEPT !.claimable = 0, !.validator_claimable = 0,
                            !.withdrawn = total, !.validator_withdrawn = share,
                            !.status = "RageQuitted"]
  <2>1. /\ Write(g, h) /\ r.status = "Paused" /\ SettledFrom(r, s) /\ s \in Grant
    BY <1>2, <1>5 DEF RageQuit, InStatus
  <2> HIDE DEF r, s
  <2>2. total \in Nat /\ share \in Nat
    BY <2>1 DEF Grant
  <2>3. total + share = Accounted(s) /\ total <= s.total_amount
    BY <2>1 DEF Grant, SettledFrom, Sound, Within, Accounted, PaidOut
  <2>4. s.validator = None => share = 0
    BY <2>1 DEF Grant, SettledFrom, Sound, ShareHasOwner
  <2> HIDE DEF total, share
  <2>5. /\ h \in Grant
        /\ h.claimable = 0 /\ h.validator_claimable = 0
        /\ h.withdrawn = total /\ h.validator_withdrawn = share
        /\ h.total_amount = s.total_amount /\ h.validator = s.validator
        /\ h.status = "RageQuitted"
    BY <2>1, <2>2 DEF Grant, GrantStatus
  <2> HIDE DEF h
  <2>6. Accounted(h) = Accounted(s)
    BY <2>2, <2>3, <2>5 DEF Accounted, PaidOut
  <2>7. Sound(h)
    BY <2>2, <2>3, <2>4, <2>5 DEF Sound, Within, Backed, ShareHasOwner, FullyAccounted
  <2>8. Moved(r, h, Open)
    BY <2>1, <2>5, <2>6, <2>7 DEF Moved, SettledFrom, Terminal
  <2> QED
    BY <2>1, <2>8, WriteMoves DEF r
<1>6. CASE CancelGrant(g)
  <2> DEFINE h == [s EXCEPT !.cancellation_initiated_at = time,
                            !.clawback_eligible = 0, !.status = "Cancelled"]
  <2>1. /\ Write(g, h) /\ r.status \notin {"Completed", "RageQuitted"}
        /\ SettledFrom(r, s) /\ s \in Grant
    BY <1>2, <1>6 DEF CancelGrant, InStatus
  <2> HIDE DEF r, s
  <2>2. h \in Grant /\ SameAmounts(s, h) /\ h.status = "Cancelled"
    BY <2>1 DEF Grant, GrantStatus, SameAmounts
  <2> HIDE DEF h
  <2>3. Moved(r, h, Open)
    BY <1>1, <2>1, <2>2, SameAmountsMove DEF Terminal
  <2> QED
    BY <2>1, <2>3, WriteMoves DEF r
<1>7. ASSUME NEW contested \in BOOLEAN, TriggerGrantClawback(g, contested)
      PROVE  GrantsMove
  <2> DEFINE h == [s EXCEPT !.status = "Clawbacked"]
  <2>1. /\ Write(g, h) /\ r.status \in {"Active", "Paused"}
        /\ SettledFrom(r, s) /\ s \in Grant
    BY <1>2, <1>7 DEF TriggerGrantClawback, InStatus
  <2> HIDE DEF r, s
  <2>2. h \in Grant /\ SameAmounts(s, h) /\ h.status = "Clawbacked"
    BY <2>1 DEF Grant, GrantStatus, SameAmounts
  <2> HIDE DEF h
  <2>3. Moved(r, h, Open)
    BY <1>1, <2>1, <2>2, SameAmountsMove DEF Terminal
  <2> QED
    BY <2>1, <2>3, WriteMoves DEF r
<1>8. CASE ReleaseEscrowToDonor(g)
  BY <1>8, UnchangedMoves DEF ReleaseEscrowToDonor
<1>9. CASE ReturnEscrowToGrant(g)
  <2> DEFINE total == r.total_amount + escrow[g]
             h == [r EXCEPT !.status = "Active", !.last_update_ts = time,
                            !.total_amount = total]
  <2>1. Write(g, h) /\ r.status = "Clawbacked"
    BY <1>9 DEF ReturnEscrowToGrant, InStatus
  <2> HIDE DEF r
  <2>2. total \in Nat /\ total >= r.total_amount
    BY <1>1 DEF Grant
  <2> HIDE DEF total
  <2>3. /\ h \in Grant /\ h.status = "Active" /\ h.total_amount = total
        /\ h.claimable = r.claimable /\ h.withdrawn = r.withdrawn
        /\ h.validator_claimable = r.validator_claimable
        /\ h.validator_withdrawn = r.validator_withdrawn
        /\ h.validator = r.validator
    BY <1>1, <2>2 DEF Grant, GrantStatus
  <2> HIDE DEF h
  <2>4. Accounted(h) = Accounted(r) /\ Accounted(r) \in Int
    BY <1>1, <2>3 DEF Grant, Accounted, PaidOut
  <2>5. Sound(h)
    BY <1>1, <2>2, <2>3, <2>4 DEF Grant, Sound, Within, Backed, ShareHasOwner,
                                  FullyAccounted
  <2>6. h.withdrawn = r.withdrawn /\ r.withdrawn \in Int
    BY <1>1, <2>3 DEF Grant
  <2>7. Moved(r, h, Open)
    BY <2>1, <2>3, <2>4, <2>5, <2>6 DEF Moved, Terminal
  <2> QED
    BY <2>1, <2>7, WriteMoves DEF r
<1> QED
  BY <1>3, <1>4, <1>5, <1>6, <1>7, <1>8, <1>9 DEF Disburse

(* Every step of the contract moves every grant as Moved allows.           *)
LEMMA GrantsMoved ==
  ASSUME CB!TypeOK, GrantsTyped, GrantsSound, escrow \in [Ids -> Nat], Next
  PROVE  GrantsMove
<1>1. time \in Nat
  BY DEF CB!TypeOK
<1>2. ASSUME NEW g \in Ids, Create(g) \/ Manage(g) \/ Disburse(g)
      PROVE  GrantsMove
  BY <1>1, <1>2, ManageMoves, DisburseMoves
<1>3. ASSUME NEW g \in Ids, FinalizeAndPurge(g) \/ PruneFinalizedGrant(g)
      PROVE  GrantsMove
  <2>1. Write(g, Absent) /\ grant[g] \in Grant
    BY <1>3 DEF FinalizeAndPurge, PruneFinalizedGrant, GrantsTyped
  <2> QED
    BY <2>1, AbsentMoves, WriteMoves
<1>4. CASE \/ \E amount \in Amounts : RescueGrantTokens(amount) \/ RescueNativeTokens(amount)
           \/ \E g \in Ids : TriggerGrantDispute(g)
           \/ BreakerStep
           \/ LedgerTick
  <2>1. UNCHANGED grant
    BY <1>4 DEF RescueGrantTokens, RescueNativeTokens, TriggerGrantDispute,
                BreakerStep, LedgerTick
  <2> QED
    BY <2>1, UnchangedMoves
<1> QED
  BY <1>2, <1>3, <1>4 DEF Next, GrantNext

(***************************************************************************)
(* Type correctness.                                                       *)
(***************************************************************************)

FundsTyped == escrow \in [Ids -> Nat] /\ balance \in Nat /\ paid \in [Ids -> Nat]

RegistryTyped ==
  /\ ids \in [Ids -> Nat]
  /\ recipientGrants \in [Recipients -> [Ids -> Nat]]

LEMMA PayTyped ==
  ASSUME FundsTyped, NEW g \in Ids, NEW amount, Pay(g, amount)
  PROVE  balance' \in Nat /\ paid' \in [Ids -> Nat]
<1>1. amount \in Nat /\ balance - amount \in Nat
  BY DEF Pay, FundsTyped
<1> QED
  BY <1>1 DEF Pay, FundsTyped

LEMMA FundsStep ==
  ASSUME CB!TypeOK, GrantsTyped, GrantsSound, FundsTyped, [Next]_vars
  PROVE  FundsTyped'
<1>1. ASSUME UNCHANGED escrow, NEW g \in Ids, NEW amount, Pay(g, amount)
      PROVE  FundsTyped'
  BY <1>1, PayTyped DEF FundsTyped
<1>2. CASE UNCHANGED funds
  BY <1>2 DEF funds, FundsTyped
<1>3. ASSUME NEW g \in Ids, Create(g)
      PROVE  FundsTyped'
  BY <1>3 DEF Create, CreateGrant, FundsTyped
<1>4. ASSUME NEW g \in Ids, Disburse(g)
      PROVE  FundsTyped'
  <2>1. ASSUME NEW contested \in BOOLEAN, TriggerGrantClawback(g, contested)
        PROVE  FundsTyped'
    <3>1. Unearned(Settled(g)) \in Int
      <4>1. Settled(g) \in Grant
        BY <2>1, SettledSound DEF TriggerGrantClawback, SettledFrom, CB!TypeOK
      <4> QED
        BY <4>1 DEF Grant, Unearned, Accounted, PaidOut
    <3>2. CASE UNCHANGED funds
      BY <1>2, <3>2
    <3>3. CASE Pay(g, Unearned(Settled(g))) /\ UNCHANGED escrow
      BY <1>1, <3>3
    <3>4. CASE /\ Unearned(Settled(g)) > 0 /\ UNCHANGED <<balance, paid>>
               /\ escrow' = [escrow EXCEPT ![g] = Unearned(Settled(g))]
      BY <3>1, <3>4 DEF FundsTyped
    <3> QED
      BY <2>1, <3>2, <3>3, <3>4 DEF TriggerGrantClawback
  <2>2. CASE \/ \E amount \in Amounts : Withdraw(g, amount) \/ WithdrawValidator(g, amount)
             \/ RageQuit(g) \/ CancelGrant(g)
    <3>1. UNCHANGED escrow /\ \E amount : Pay(g, amount)
      BY <2>2 DEF Withdraw, WithdrawValidator, RageQuit, CancelGrant
    <3> QED
      BY <1>1, <3>1
  <2>3. CASE ReleaseEscrowToDonor(g) \/ ReturnEscrowToGrant(g)
    <3>1. Pay(g, escrow[g]) /\ escrow' = [escrow EXCEPT ![g] = 0]
      BY <2>3 DEF ReleaseEscrowToDonor, ReturnEscrowToGrant
    <3> QED
      BY <3>1, PayTyped DEF FundsTyped
  <2> QED
    BY <1>4, <2>1, <2>2, <2>3 DEF Disburse
<1>5. ASSUME NEW amount \in Amounts, RescueGrantTokens(amount)
      PROVE  FundsTyped'
  BY <1>5, GrantStreamAssumption DEF RescueGrantTokens, FundsTyped
<1>6. ASSUME NEW g \in Ids,
             Manage(g) \/ FinalizeAndPurge(g) \/ PruneFinalizedGrant(g)
      PROVE  UNCHANGED funds
  BY <1>6 DEF Manage, PauseStream, ResumeStream, ProposeRateChange,
              ApplyKpiMultiplier, SetLegalMetadata, SignLegalMetadata, ChangeGrantee,
              FinalizeAndPurge, PruneFinalizedGrant
<1>7. CASE \/ \E g \in Ids : TriggerGrantDispute(g)
           \/ \E amount \in Amounts : RescueNativeTokens(amount)
           \/ BreakerStep \/ LedgerTick \/ UNCHANGED vars
  <2>1. UNCHANGED funds
    BY <1>7 DEF TriggerGrantDispute, RescueNativeTokens, BreakerStep, LedgerTick, vars
  <2> QED
    BY <1>2, <2>1
<1> QED
  BY <1>2, <1>3, <1>4, <1>5, <1>6, <1>7 DEF Next, GrantNext

(* Writing one entry of a function or of a table, at a key it may lack.    *)
LEMMA EntryTyped ==
  ASSUME NEW S, NEW f \in [S -> Nat], NEW x, NEW v \in Nat
  PROVE  [f EXCEPT ![x] = v] \in [S -> Nat]
OBVIOUS

LEMMA CellTyped ==
  ASSUME NEW f \in [Recipients -> [Ids -> Nat]], NEW x, NEW g \in Ids, NEW v,
         x \in Recipients => v \in Nat
  PROVE  [f EXCEPT ![x][g] = v] \in [Recipients -> [Ids -> Nat]]
<1>1. CASE x \in Recipients
  <2>1. [f[x] EXCEPT ![g] = v] \in [Ids -> Nat]
    BY <1>1, EntryTyped
  <2> QED
    BY <1>1, <2>1
<1>2. CASE x \notin Recipients
  BY <1>2
<1> QED
  BY <1>1, <1>2

(* The actions that write the registry or the book, one by one.            *)
LEMMA RegistryStep ==
  ASSUME RegistryTyped, [Next]_vars
  PROVE  RegistryTyped'
<1>1. CASE UNCHANGED registry
  BY <1>1 DEF registry, RegistryTyped
<1>2. ASSUME NEW g \in Ids, Create(g)
      PROVE  RegistryTyped'
  BY <1>2 DEF Create, CreateGrant, RegistryTyped
<1>3. ASSUME NEW g \in Ids, NEW recipient \in Recipients, ChangeGrantee(g, recipient)
      PROVE  RegistryTyped'
  <2> DEFINE old == grant[g].recipient
             without == [recipientGrants EXCEPT ![old][g] = AtLeastZero(@ - 1)]
  <2>1. without \in [Recipients -> [Ids -> Nat]]
    <3>1. old \in Recipients => AtLeastZero(recipientGrants[old][g] - 1) \in Nat
      BY DEF RegistryTyped, AtLeastZero
    <3> QED
      BY <3>1, CellTyped DEF RegistryTyped
  <2>2. /\ recipientGrants' = [without EXCEPT ![recipient][g] = @ + 1]
        /\ UNCHANGED ids
    BY <1>3 DEF ChangeGrantee
  <2> HIDE DEF without
  <2> QED
    BY <2>1, <2>2 DEF RegistryTyped
<1>4. ASSUME NEW g \in Ids, FinalizeAndPurge(g) \/ PruneFinalizedGrant(g)
      PROVE  RegistryTyped'
  <2>1. CASE FinalizeAndPurge(g)
    BY <2>1 DEF FinalizeAndPurge, RegistryTyped
  <2>2. CASE PruneFinalizedGrant(g)
    <3>1. /\ ids' = [ids EXCEPT ![g] = AtLeastZero(@ - 1)]
          /\ recipientGrants' =
               [recipientGrants EXCEPT ![grant[g].recipient][g] = AtLeastZero(@ - 1)]
      BY <2>2 DEF PruneFinalizedGrant
    <3>2. /\ AtLeastZero(ids[g] - 1) \in Nat
          /\ grant[g].recipient \in Recipients =>
               AtLeastZero(recipientGrants[grant[g].recipient][g] - 1) \in Nat
      BY DEF RegistryTyped, AtLeastZero
    <3> QED
      BY <3>1, <3>2, CellTyped DEF RegistryTyped
  <2> QED
    BY <1>4, <2>1, <2>2
<1>5. ASSUME NEW g \in Ids, Manage(g) \/ Disburse(g),
             ~(\E recipient \in Recipients : ChangeGrantee(g, recipient))
      PROVE  UNCHANGED registry
  BY <1>5 DEF Manage, PauseStream, ResumeStream, ProposeRateChange,
              ApplyKpiMultiplier, SetLegalMetadata, SignLegalMetadata,
              Disburse, Withdraw, WithdrawValidator, RageQuit, CancelGrant,
              TriggerGrantClawback, ReleaseEscrowToDonor, ReturnEscrowToGrant
<1>6. CASE \/ \E g \in Ids : TriggerGrantDispute(g)
           \/ \E amount \in Amounts : RescueGrantTokens(amount) \/ RescueNativeTokens(amount)
           \/ BreakerStep \/ LedgerTick \/ UNCHANGED vars
  <2>1. UNCHANGED registry
    BY <1>6 DEF TriggerGrantDispute, RescueGrantTokens, RescueNativeTokens,
                BreakerStep, LedgerTick, vars
  <2> QED
    BY <1>1, <2>1
<1> QED
  BY <1>1, <1>2, <1>3, <1>4, <1>5, <1>6 DEF Next, GrantNext

LEMMA BookStep ==
  ASSUME CB!TypeOK, GrantsTyped, GrantsSound, book \in Book, [Next]_vars
  PROVE  book' \in Book
<1>1. ASSUME NEW g \in Ids, NEW amount \in Amounts, Withdraw(g, amount)
      PROVE  book' \in Book
  <2> DEFINE total == Settled(g).withdrawn + amount
  <2>1. total \in Nat
    <3>1. Settled(g) \in Grant
      BY <1>1, SettledSound DEF Withdraw, SettledFrom, CB!TypeOK
    <3> QED
      BY <3>1, GrantStreamAssumption DEF Grant
  <2>2. RecordWithdrawal(g, Settled(g).recipient, amount, total)
    BY <1>1 DEF Withdraw
  <2> HIDE DEF total
  <2> DEFINE claims == [book.claims EXCEPT ![g] = @ + 1]
             leaf   == [book.leaf EXCEPT ![g] = total]
             flow   == [book.flow EXCEPT ![Settled(g).recipient] = total]
  <2>3. claims \in [Ids -> Nat] /\ leaf \in [Ids -> Nat] /\ flow \in [Recipients -> Nat]
    <3>1. /\ book.claims \in [Ids -> Nat] /\ book.leaf \in [Ids -> Nat]
          /\ book.flow \in [Recipients -> Nat] /\ book.claims[g] + 1 \in Nat
      BY DEF Book
    <3> QED
      BY <2>1, <3>1, EntryTyped
  <2>4. book' = [book EXCEPT !.claims = claims, !.leaf = leaf, !.flow = flow]
    BY <2>2 DEF RecordWithdrawal, Book
  <2> HIDE DEF claims, leaf, flow
  <2> QED
    BY <2>3, <2>4 DEF Book
<1>2. ASSUME NEW g \in Ids, PruneFinalizedGrant(g)
      PROVE  book' \in Book
  BY <1>2 DEF PruneFinalizedGrant, Book
<1>3. ASSUME NEW g \in Ids, Create(g) \/ Manage(g) \/ Disburse(g) \/ FinalizeAndPurge(g),
             ~(\E amount \in Amounts : Withdraw(g, amount))
      PROVE  UNCHANGED book
  BY <1>3 DEF Create, CreateGrant, Manage, PauseStream, ResumeStream,
              ProposeRateChange, ApplyKpiMultiplier, SetLegalMetadata,
              SignLegalMetadata, ChangeGrantee, Disburse, WithdrawValidator,
              RageQuit, CancelGrant, TriggerGrantClawback, ReleaseEscrowToDonor,
              ReturnEscrowToGrant, FinalizeAndPurge
<1>4. CASE \/ \E g \in Ids : TriggerGrantDispute(g)
           \/ \E amount \in Amounts : RescueGrantTokens(amount) \/ RescueNativeTokens(amount)
           \/ BreakerStep \/ LedgerTick \/ UNCHANGED vars
  BY <1>4 DEF TriggerGrantDispute, RescueGrantTokens, RescueNativeTokens,
              BreakerStep, LedgerTick, vars
<1> QED
  BY <1>1, <1>2, <1>3, <1>4 DEF Next, GrantNext

(* The inductive invariant: the types, and what settle_grant's cap         *)
(* guarantees of every grant record, stored or absent.                     *)
IInv == TypeOK /\ GrantsSound

LEMMA IInvHolds == Spec => []IInv
<1>1. Init => IInv
  <2> SUFFICES ASSUME Init
               PROVE  IInv
    OBVIOUS
  <2>1. CB!TypeOK
    BY CBP!InitTyped, SameBreakers DEF Init
  <2>2. balance \in Nat
    BY GrantStreamAssumption DEF Init
  <2> QED
    BY <2>1, <2>2, AbsentSound DEF Init, IInv, TypeOK, Book, GrantsSound
<1>2. IInv /\ [Next]_vars => IInv'
  <2> SUFFICES ASSUME IInv, [Next]_vars
               PROVE  IInv'
    OBVIOUS
  <2>1. CB!TypeOK /\ GrantsTyped /\ GrantsSound /\ FundsTyped /\ RegistryTyped /\ book \in Book
    BY DEF IInv, TypeOK, GrantsTyped, FundsTyped, RegistryTyped
  <2>2. CB!TypeOK'
    BY <2>1, BreakerTypeStep
  <2>3. GrantsMove
    <3>1. CASE Next
      BY <2>1, <3>1, GrantsMoved DEF FundsTyped
    <3>2. CASE UNCHANGED vars
      BY <2>1, <3>2, UnchangedMoves DEF vars
    <3> QED
      BY <3>1, <3>2
  <2>4. GrantsTyped' /\ GrantsSound'
    BY <2>3 DEF GrantsMove, GrantsSound, Moved
  <2>5. FundsTyped' /\ RegistryTyped' /\ book' \in Book
    BY <2>1, FundsStep, RegistryStep, BookStep
  <2> QED
    BY <2>2, <2>4, <2>5 DEF IInv, TypeOK, GrantsTyped, FundsTyped, RegistryTyped
<1> QED
  BY <1>1, <1>2, PTL DEF Spec

(***************************************************************************)
(* Theorems.                                                               *)
(***************************************************************************)

(* Every key of the contract always holds a value of its type. No amount   *)
(* goes below zero: not claimable in the cap of settle_grant, not the      *)
(* escrow in a clawback, not the balance in any payment.                   *)
THEOREM TypeCorrect == Spec => []TypeOK
BY IInvHolds, PTL DEF IInv

(* A grantee's withdrawn and claimable amounts never exceed total_amount.  *)
THEOREM GranteeNeverOverpromised == Spec => []GranteeCapped
<1>1. IInv => GranteeCapped
  BY DEF IInv, GrantsSound, Sound, Within, GranteeCapped
<1> QED
  BY <1>1, IInvHolds, PTL

(* While anything is claimable by the grantee, everything paid and         *)
(* promised for the grant fits in total_amount.                            *)
THEOREM PromisesBacked == Spec => []PromiseBacked
<1>1. IInv => PromiseBacked
  <2>1. ASSUME IInv, NEW g \in Ids, grant[g].claimable > 0
        PROVE  ~Overshot(g)
    <3>1. grant[g] \in Grant /\ Accounted(grant[g]) <= grant[g].total_amount
      BY <2>1 DEF IInv, TypeOK, GrantsSound, Sound, Backed
    <3> QED
      BY <3>1 DEF Overshot, Grant, Accounted, PaidOut
  <2> QED
    BY <2>1 DEF PromiseBacked
<1> QED
  BY <1>1, IInvHolds, PTL

(* A Completed grant has accounted for all of total_amount, and for no     *)
(* more when it has no validator.                                          *)
THEOREM CompletionExact == Spec => []CompletedFullyAccounted
<1>1. IInv => CompletedFullyAccounted
  <2>1. ASSUME IInv, NEW g \in Ids, InStatus(g, {"Completed"})
        PROVE  /\ Accounted(grant[g]) >= grant[g].total_amount
               /\ grant[g].validator = None => ~Overshot(g)
    <3>1. /\ grant[g] \in Grant
          /\ Accounted(grant[g]) >= grant[g].total_amount
          /\ grant[g].validator = None => Accounted(grant[g]) <= grant[g].total_amount
      BY <2>1 DEF IInv, TypeOK, GrantsSound, Sound, FullyAccounted, InStatus
    <3> QED
      BY <3>1 DEF Overshot, Grant, Accounted, PaidOut
  <2> QED
    BY <2>1 DEF CompletedFullyAccounted
<1> QED
  BY <1>1, IInvHolds, PTL

LEMMA IInvMoves == IInv /\ [Next]_vars => [GrantsMove]_vars
BY GrantsMoved DEF IInv, TypeOK, GrantsTyped

(* Completed, Cancelled and RageQuitted grants are never revived.          *)
THEOREM TerminalIsFinal == Spec => TerminalStatus
<1>1. IInv /\ [Next]_vars
        => [\A g \in Ids : InStatus(g, {"Completed", "Cancelled", "RageQuitted"})
              => grant'[g].status \in {grant[g].status, "Absent"}]_vars
  BY IInvMoves DEF GrantsMove, Moved, Terminal, InStatus
<1> QED
  BY <1>1, IInvHolds, PTL DEF Spec, TerminalStatus

(* Nothing accrues on a grant that is not Active or awaits a signature.    *)
THEOREM UnsignedNeverAccrues == Spec => LegalGate
<1>1. IInv /\ [Next]_vars
        => [\A g \in Ids : Stored(g) /\ Accounted(grant'[g]) > Accounted(grant[g])
              => InStatus(g, {"Active"}) /\ ~AwaitsSignature(grant[g])]_vars
  BY IInvMoves DEF GrantsMove, Moved, Stored, InStatus
<1> QED
  BY <1>1, IInvHolds, PTL DEF Spec, LegalGate

(* While a breaker is engaged, a grantee is paid only by a rage quit.      *)
THEOREM BreakersGateGrantees == Spec => BreakersStopGrantees
<1>1. IInv /\ [Next]_vars
        => [~CB!WithdrawalsAllowed(breaker)
              => \A g \in Ids :
                   Stored(g) /\ grant'[g].withdrawn > grant[g].withdrawn
                     => grant'[g].status = "RageQuitted"]_vars
  BY IInvMoves DEF GrantsMove, Moved, Stored, Open
<1> QED
  BY <1>1, IInvHolds, PTL DEF Spec, BreakersStopGrantees

(***************************************************************************)
(* The indices.                                                            *)
(***************************************************************************)

KeepsPlace ==
  /\ \A g \in Ids : /\ grant'[g].status = "Absent" <=> grant[g].status = "Absent"
                    /\ grant'[g].recipient = grant[g].recipient
  /\ UNCHANGED registry

LEMMA WriteKeepsPlace ==
  ASSUME GrantsTyped, NEW g \in Ids, NEW h, Write(g, h), UNCHANGED registry,
         grant[g].status # "Absent", h.status # "Absent",
         h.recipient = grant[g].recipient
  PROVE  KeepsPlace
BY DEF GrantsTyped, Write, KeepsPlace

(* Creation, a change of grantee and removal aside, a step leaves every    *)
(* grant stored under its recipient as it was.                             *)
LEMMA OthersKeepPlace ==
  ASSUME GrantsTyped, GrantsSound, time \in Nat, NEW g \in Ids,
         Manage(g) \/ Disburse(g),
         ~(\E recipient \in Recipients : ChangeGrantee(g, recipient))
  PROVE  KeepsPlace
<1> DEFINE r == grant[g]
           s == Settled(g)
<1>1. r \in Grant
  BY DEF GrantsTyped
<1>2. Settles(g) /\ r.status # "Absent"
        => s \in Grant /\ s.status # "Absent" /\ s.recipient = r.recipient
  BY SettledSound DEF SettledFrom, SameTerms
<1>3. CASE \/ PauseStream(g)
           \/ \E rate \in Rates : ProposeRateChange(g, rate)
           \/ \E multiplier \in Multipliers : ApplyKpiMultiplier(g, multiplier)
  <2>1. Settles(g) /\ r.status # "Absent" /\ UNCHANGED registry
    BY <1>3 DEF PauseStream, ProposeRateChange, ApplyKpiMultiplier, InStatus
  <2> SUFFICES ASSUME NEW h, Write(g, h), h.status # "Absent", h.recipient = s.recipient
               PROVE  KeepsPlace
    <3> HIDE DEF s
    <3> QED
      BY <1>2, <1>3, <2>1 DEF PauseStream, ProposeRateChange, ApplyKpiMultiplier, s, Grant
  <2> QED
    BY <1>2, <2>1, WriteKeepsPlace
<1>4. CASE \/ \E amount \in Amounts : Withdraw(g, amount) \/ WithdrawValidator(g, amount)
           \/ RageQuit(g) \/ CancelGrant(g)
           \/ \E contested \in BOOLEAN : TriggerGrantClawback(g, contested)
  <2>1. Settles(g) /\ r.status # "Absent" /\ UNCHANGED registry
    BY <1>4 DEF Withdraw, WithdrawValidator, RageQuit, CancelGrant,
                TriggerGrantClawback, InStatus, Stored
  <2> SUFFICES ASSUME NEW h, Write(g, h), h.status # "Absent", h.recipient = s.recipient
               PROVE  KeepsPlace
    BY <1>2, <1>4, <2>1 DEF Withdraw, WithdrawValidator, RageQuit, CancelGrant,
                            TriggerGrantClawback, Grant
  <2> QED
    BY <1>2, <2>1, WriteKeepsPlace
<1>5. CASE \/ ResumeStream(g) \/ SignLegalMetadata(g) \/ ReturnEscrowToGrant(g)
           \/ \E requires \in LegalRequirements : SetLegalMetadata(g, requires)
  <2>1. r.status # "Absent" /\ UNCHANGED registry
    BY <1>5 DEF ResumeStream, SignLegalMetadata, ReturnEscrowToGrant,
                SetLegalMetadata, InStatus, Stored
  <2> SUFFICES ASSUME NEW h, Write(g, h), h.status # "Absent", h.recipient = r.recipient
               PROVE  KeepsPlace
    BY <1>1, <1>5, <2>1 DEF ResumeStream, SignLegalMetadata, ReturnEscrowToGrant,
                            SetLegalMetadata, Grant
  <2> QED
    BY <2>1, WriteKeepsPlace
<1>6. CASE ReleaseEscrowToDonor(g)
  BY <1>6 DEF ReleaseEscrowToDonor, KeepsPlace
<1> QED
  BY <1>3, <1>4, <1>5, <1>6 DEF Manage, Disburse

(* GrantIds and RecipientGrants list each stored grant exactly once, under *)
(* its present recipient, and nothing else.                                *)
THEOREM IndicesExact == Spec => []IndexConsistent
<1>1. Init => IndexConsistent
  BY DEF Init, IndexConsistent, Stored, Absent, NewGrant
<1>2. IInv /\ IndexConsistent /\ [Next]_vars => IndexConsistent'
  <2> SUFFICES ASSUME IInv, IndexConsistent, [Next]_vars
               PROVE  IndexConsistent'
    OBVIOUS
  <2>1. GrantsTyped /\ GrantsSound /\ RegistryTyped /\ time \in Nat
    BY DEF IInv, TypeOK, CB!TypeOK, GrantsTyped, RegistryTyped
  <2>2. ASSUME KeepsPlace
        PROVE  IndexConsistent'
    BY <2>2 DEF KeepsPlace, IndexConsistent, Stored, registry
  <2>3. ASSUME NEW g \in Ids, Create(g)
        PROVE  IndexConsistent'
    BY <2>1, <2>3 DEF Create, CreateGrant, NewGrant, Write, Stored, IndexConsistent,
                      GrantsTyped, RegistryTyped
  <2>4. ASSUME NEW g \in Ids, NEW recipient \in Recipients, ChangeGrantee(g, recipient)
        PROVE  IndexConsistent'
    <3> DEFINE old == grant[g].recipient
    <3>1. /\ recipient # old /\ Stored(g) /\ UNCHANGED ids
          /\ grant' = [grant EXCEPT ![g] = [grant[g] EXCEPT !.recipient = recipient]]
          /\ recipientGrants' = [recipientGrants EXCEPT ![old][g] = AtLeastZero(@ - 1),
                                                        ![recipient][g] = @ + 1]
      BY <2>4 DEF ChangeGrantee, Write, InStatus, Stored
    <3>2. \A x \in Ids : /\ grant'[x].status = grant[x].status
                         /\ grant'[x].recipient
                              = IF x = g THEN recipient ELSE grant[x].recipient
      BY <2>1, <3>1 DEF GrantsTyped, Grant
    <3>3. \A a \in Recipients, x \in Ids :
            recipientGrants'[a][x] = IF x # g THEN recipientGrants[a][x]
                                     ELSE IF a = recipient THEN recipientGrants[a][x] + 1
                                     ELSE IF a = old THEN AtLeastZero(recipientGrants[a][x] - 1)
                                     ELSE recipientGrants[a][x]
      BY <2>1, <3>1 DEF RegistryTyped
    <3>4. ASSUME NEW x \in Ids, NEW a \in Recipients
          PROVE  /\ ids'[x] = IF grant'[x].status # "Absent" THEN 1 ELSE 0
                 /\ recipientGrants'[a][x]
                      = IF grant'[x].status # "Absent" /\ grant'[x].recipient = a
                        THEN 1 ELSE 0
      <4>1. /\ ids'[x] = IF grant[x].status # "Absent" THEN 1 ELSE 0
            /\ recipientGrants[a][x]
                 = IF grant[x].status # "Absent" /\ grant[x].recipient = a THEN 1 ELSE 0
        BY <3>1 DEF IndexConsistent, Stored
      <4>2. CASE x # g
        <5>1. /\ grant'[x].status = grant[x].status
              /\ grant'[x].recipient = grant[x].recipient
              /\ recipientGrants'[a][x] = recipientGrants[a][x]
          BY <3>2, <3>3, <4>2
        <5> QED
          BY <4>1, <5>1
      <4>3. CASE x = g
        <5>1. /\ grant'[x].status = grant[x].status /\ grant[x].status # "Absent"
              /\ grant'[x].recipient = recipient
          BY <3>1, <3>2, <4>3 DEF Stored
        <5>2. recipientGrants'[a][x] = IF a = recipient THEN 1 ELSE 0
          <6>1. CASE a = recipient
            <7>1. recipientGrants[a][x] = 0
              BY <3>1, <4>1, <4>3, <6>1
            <7>2. recipientGrants'[a][x] = recipientGrants[a][x] + 1
              BY <3>3, <4>3, <6>1
            <7> QED
              BY <6>1, <7>1, <7>2
          <6>2. CASE a # recipient /\ a = old
            <7>1. recipientGrants[a][x] = 1
              BY <4>1, <4>3, <5>1, <6>2
            <7>2. recipientGrants'[a][x] = AtLeastZero(recipientGrants[a][x] - 1)
              BY <3>3, <4>3, <6>2
            <7> QED
              BY <6>2, <7>1, <7>2 DEF AtLeastZero
          <6>3. CASE a # recipient /\ a # old
            BY <3>3, <4>1, <4>3, <6>3
          <6> QED
            BY <6>1, <6>2, <6>3
        <5> QED
          BY <4>1, <5>1, <5>2
      <4> QED
        BY <4>2, <4>3
    <3> QED
      BY <3>4 DEF IndexConsistent, Stored
  <2>5. ASSUME NEW g \in Ids, FinalizeAndPurge(g) \/ PruneFinalizedGrant(g)
        PROVE  IndexConsistent'
    <3> DEFINE old == grant[g].recipient
    <3>1. Stored(g) /\ grant' = [grant EXCEPT ![g] = Absent] /\ Absent.status = "Absent"
      BY <2>5 DEF FinalizeAndPurge, PruneFinalizedGrant, Purgeable, Write, Absent,
                  NewGrant
    <3>2. \A x \in Ids : grant'[x] = IF x = g THEN Absent ELSE grant[x]
      BY <2>1, <3>1 DEF GrantsTyped
    <3>3. ids[g] = 1 /\ (old \in Recipients => recipientGrants[old][g] = 1)
      BY <3>1 DEF IndexConsistent
    <3>4. ids' = [ids EXCEPT ![g] = 0]
      BY <2>5, <3>3 DEF FinalizeAndPurge, PruneFinalizedGrant, AtLeastZero
    <3>5. \A a \in Recipients, x \in Ids :
            recipientGrants'[a][x] = IF x = g /\ a = old THEN 0 ELSE recipientGrants[a][x]
      BY <2>1, <2>5, <3>3 DEF FinalizeAndPurge, PruneFinalizedGrant, RegistryTyped,
                              AtLeastZero
    <3>6. \A x \in Ids \ {g} : /\ ids'[x] = ids[x] /\ grant'[x] = grant[x]
                               /\ \A a \in Recipients :
                                    recipientGrants'[a][x] = recipientGrants[a][x]
      BY <2>1, <3>2, <3>4, <3>5 DEF RegistryTyped
    <3>7. /\ ids'[g] = 0 /\ grant'[g].status = "Absent"
          /\ \A a \in Recipients : recipientGrants'[a][g] = 0
      BY <2>1, <3>1, <3>2, <3>4, <3>5 DEF IndexConsistent, RegistryTyped
    <3>8. ASSUME NEW x \in Ids
          PROVE  /\ ids'[x] = IF grant'[x].status # "Absent" THEN 1 ELSE 0
                 /\ \A a \in Recipients :
                      recipientGrants'[a][x]
                        = IF grant'[x].status # "Absent" /\ grant'[x].recipient = a
                          THEN 1 ELSE 0
      <4>1. CASE x = g
        BY <3>7, <4>1
      <4>2. CASE x # g
        BY <3>6, <4>2 DEF IndexConsistent, Stored
      <4> QED
        BY <4>1, <4>2
    <3> QED
      BY <3>8 DEF IndexConsistent, Stored
  <2>6. ASSUME NEW g \in Ids, Manage(g) \/ Disburse(g)
        PROVE  IndexConsistent'
    BY <2>1, <2>2, <2>4, <2>6, OthersKeepPlace
  <2>7. CASE \/ \E g \in Ids : TriggerGrantDispute(g)
             \/ \E amount \in Amounts : RescueGrantTokens(amount) \/ RescueNativeTokens(amount)
             \/ BreakerStep \/ LedgerTick \/ UNCHANGED vars
    <3>1. UNCHANGED <<grant, registry>>
      BY <2>7 DEF TriggerGrantDispute, RescueGrantTokens, RescueNativeTokens,
                  BreakerStep, LedgerTick, vars
    <3> QED
      BY <2>2, <3>1 DEF KeepsPlace
  <2> QED
    BY <2>3, <2>5, <2>6, <2>7 DEF Next, GrantNext
<1> QED
  BY <1>1, <1>2, IInvHolds, PTL DEF Spec

(***************************************************************************)
(* Rescues.                                                                *)
(***************************************************************************)

(* total_allocated_funds covers what the grantees can claim: a grant holds *)
(* its claimable amount within total_amount, and GrantIds lists it once.   *)
LEMMA AllocatedCoversClaims ==
  ASSUME IInv, IndexConsistent
  PROVE  /\ TotalAllocated >= SumFunction([g \in {h \in Ids : InStatus(h, {"Active", "Paused"})}
                                            |-> grant[g].claimable])
         /\ TotalAllocated \in Int
         /\ SumFunction([g \in {h \in Ids : InStatus(h, {"Active", "Paused"})}
                            |-> grant[g].claimable]) \in Int
<1> DEFINE S == {h \in Ids : InStatus(h, {"Active", "Paused"})}
           claim == [g \in S |-> grant[g].claimable]
           rest  == [g \in S |-> ids[g] * (grant[g].total_amount - grant[g].withdrawn)]
<1>1. IsFiniteSet(S)
  BY GrantStreamAssumption, FS_Subset
<1>2. ActiveIds = S
  BY DEF ActiveIds, IndexConsistent, Stored, InStatus
<1>3. \A g \in S : claim[g] \in Nat /\ rest[g] \in Nat /\ claim[g] <= rest[g]
  <2> SUFFICES ASSUME NEW g \in S
               PROVE  claim[g] \in Nat /\ rest[g] \in Nat /\ claim[g] <= rest[g]
    OBVIOUS
  <2>1. grant[g] \in Grant /\ Within(grant[g]) /\ ids[g] = 1
    BY DEF IInv, TypeOK, GrantsSound, Sound, IndexConsistent, Stored, InStatus
  <2>2. /\ grant[g].claimable \in Nat /\ grant[g].withdrawn \in Nat
        /\ grant[g].total_amount \in Nat
    BY <2>1 DEF Grant
  <2>3. ids[g] * (grant[g].total_amount - grant[g].withdrawn)
          = grant[g].total_amount - grant[g].withdrawn
    BY <2>1, <2>2
  <2> QED
    BY <2>1, <2>2, <2>3 DEF Within
<1>4. TotalAllocated = SumFunctionOnSet(rest, S) /\ SumFunction(claim) = SumFunctionOnSet(claim, S)
  BY <1>2 DEF TotalAllocated, SumFunction
<1> HIDE DEF S, claim, rest
<1>5. SumFunctionOnSet(claim, S) <= SumFunctionOnSet(rest, S)
  BY <1>1, <1>3, SumLeq
<1>6. SumFunctionOnSet(claim, S) \in Nat /\ SumFunctionOnSet(rest, S) \in Nat
  BY <1>1, <1>3, SumNat
<1> QED
  BY <1>4, <1>5, <1>6 DEF S, claim

(* Tokens that leave the contract and are paid for no grant are rescued.   *)
LEMMA OnlyRescuesAreUnpaid ==
  ASSUME IInv, Next, balance' < balance, UNCHANGED paid
  PROVE  \E amount \in Amounts : RescueGrantTokens(amount)
<1>1. FundsTyped
  BY DEF IInv, TypeOK, FundsTyped
<1>2. ASSUME NEW g \in Ids, NEW amount, Pay(g, amount)
      PROVE  FALSE
  <2>1. amount \in Nat /\ balance' = balance - amount /\ paid'[g] = paid[g] + amount
    BY <1>1, <1>2 DEF Pay, FundsTyped
  <2> QED
    BY <1>1, <2>1 DEF FundsTyped
<1>3. ASSUME UNCHANGED balance
      PROVE  FALSE
  BY <1>1, <1>3 DEF FundsTyped
<1>4. ASSUME NEW g \in Ids,
             Create(g) \/ Manage(g) \/ FinalizeAndPurge(g) \/ PruneFinalizedGrant(g)
               \/ TriggerGrantDispute(g)
      PROVE  FALSE
  BY <1>3, <1>4 DEF Create, CreateGrant, Manage, PauseStream, ResumeStream,
                    ProposeRateChange, ApplyKpiMultiplier, SetLegalMetadata,
                    SignLegalMetadata, ChangeGrantee, FinalizeAndPurge,
                    PruneFinalizedGrant, TriggerGrantDispute, funds
<1>5. ASSUME NEW g \in Ids, Disburse(g)
      PROVE  FALSE
  <2>1. UNCHANGED balance \/ \E amount : Pay(g, amount)
    BY <1>5 DEF Disburse, Withdraw, WithdrawValidator, RageQuit, CancelGrant,
                TriggerGrantClawback, ReleaseEscrowToDonor, ReturnEscrowToGrant, funds
  <2> QED
    BY <1>2, <1>3, <2>1
<1>6. CASE \/ \E amount \in Amounts : RescueNativeTokens(amount)
           \/ BreakerStep \/ LedgerTick
  BY <1>3, <1>6 DEF RescueNativeTokens, BreakerStep, LedgerTick, funds
<1> QED
  BY <1>4, <1>5, <1>6 DEF Next, GrantNext

(* rescue_tokens leaves at least what the grantees of all Active and       *)
(* Paused grants can claim.                                                *)
THEOREM RescuesLeaveClaims == Spec => RescueKeepsClaimable
<1> DEFINE claims == SumFunction([g \in {h \in Ids : InStatus(h, {"Active", "Paused"})}
                                    |-> grant[g].claimable])
<1>1. IInv /\ IndexConsistent /\ [Next]_vars
        => [balance' < balance /\ UNCHANGED paid => balance' >= claims]_vars
  <2> SUFFICES ASSUME IInv, IndexConsistent, Next, balance' < balance, UNCHANGED paid
               PROVE  balance' >= claims
    BY DEF vars
  <2>1. PICK amount \in Amounts : RescueGrantTokens(amount)
    BY OnlyRescuesAreUnpaid
  <2>2. TotalAllocated >= claims /\ TotalAllocated \in Int
    BY AllocatedCoversClaims
  <2>3. balance' >= TotalAllocated
    BY <2>1 DEF RescueGrantTokens
  <2>4. claims \in Int /\ balance' \in Int
    <3>1. balance' \in Int
      BY <2>1, GrantStreamAssumption DEF RescueGrantTokens, IInv, TypeOK
    <3>2. claims \in Int
      BY AllocatedCoversClaims
    <3> QED
      BY <3>1, <3>2
  <2> QED
    BY <2>2, <2>3, <2>4
<1> QED
  BY <1>1, IInvHolds, IndicesExact, PTL DEF Spec, RescueKeepsClaimable

(***************************************************************************)
(* Payments.                                                               *)
(***************************************************************************)

Claims(r) == r.claimable + r.validator_claimable

(* Owed, of a record and its escrow.                                       *)
OwedBy(r, e) ==
  CASE r.status \in {"Active", "Paused"} -> r.total_amount - PaidOut(r)
    [] r.status \in {"Completed", "Cancelled"} -> Claims(r)
    [] r.status \in {"Clawbacked"} -> Claims(r) + e
    [] OTHER -> 0

LEMMA OwedIs ==
  ASSUME NEW r \in Grant, NEW e \in Nat
  PROVE  /\ r.status \in {"Active", "Paused"} =>
              OwedBy(r, e) = r.total_amount - PaidOut(r)
         /\ r.status \in {"Completed", "Cancelled"} => OwedBy(r, e) = Claims(r)
         /\ r.status = "Clawbacked" => OwedBy(r, e) = Claims(r) + e
         /\ r.status \in {"RageQuitted", "Absent"} => OwedBy(r, e) = 0
         /\ Claims(r) \in Nat /\ PaidOut(r) \in Nat /\ r.total_amount \in Nat
         /\ Accounted(r) = PaidOut(r) + Claims(r)
<1>1. /\ Claims(r) \in Nat /\ PaidOut(r) \in Nat /\ r.total_amount \in Nat
      /\ Accounted(r) = PaidOut(r) + Claims(r)
  BY DEF Grant, Claims, PaidOut, Accounted
<1>2. r.status \in {"Active", "Paused"} => OwedBy(r, e) = r.total_amount - PaidOut(r)
  BY DEF OwedBy
<1>3. r.status \in {"Completed", "Cancelled"} => OwedBy(r, e) = Claims(r)
  BY DEF OwedBy
<1>4. r.status = "Clawbacked" => OwedBy(r, e) = Claims(r) + e
  BY DEF OwedBy
<1>5. r.status \in {"RageQuitted", "Absent"} => OwedBy(r, e) = 0
  BY DEF OwedBy
<1> QED
  BY <1>1, <1>2, <1>3, <1>4, <1>5

(* What DebitsCovered says of a record r with escrow e and p tokens paid   *)
(* that becomes h with escrow f and q tokens paid.                         *)
Debited(r, e, p, h, f, q) ==
  /\ r.status \in {"Active", "Paused", "Completed", "RageQuitted", "Clawbacked"}
  /\ r.status = "Clawbacked" => h.status \notin {"Cancelled", "Active"}
  /\ r.status # "Clawbacked" => e = 0
  /\ Accounted(h) <= h.total_amount
  => q + OwedBy(h, f) <= p + OwedBy(r, e)

(* Settling and changing what the accounting does not read.                *)
LEMMA KeptDebited ==
  ASSUME NEW r \in Grant, NEW s \in Grant, NEW h \in Grant, NEW e \in Nat, NEW p \in Nat,
         SettledFrom(r, s), SameAmounts(s, h),
         \/ /\ r.status \in {"Active", "Paused"}
            /\ h.status \in {"Active", "Paused", "Completed"}
         \/ s = r /\ h.status = r.status
  PROVE  Debited(r, e, p, h, e, p)
<1>1. /\ Claims(h) = Claims(s) /\ PaidOut(h) = PaidOut(r)
      /\ h.total_amount = r.total_amount
  BY DEF SameAmounts, SettledFrom, SameTerms, Claims, PaidOut
<1> QED
  BY <1>1, OwedIs DEF Debited

(* Settling, then paying some of what was claimable.                       *)
LEMMA ClaimDebited ==
  ASSUME NEW r \in Grant, NEW s \in Grant, NEW h \in Grant, NEW e \in Nat, NEW p \in Nat,
         NEW amount \in Nat, SettledFrom(r, s),
         h.status = s.status, h.total_amount = s.total_amount,
         PaidOut(h) = PaidOut(s) + amount, Claims(h) + amount = Claims(s),
         r.status # "RageQuitted"
  PROVE  Debited(r, e, p, h, e, p + amount)
<1>1. PaidOut(s) = PaidOut(r) /\ s.total_amount = r.total_amount
  BY DEF SettledFrom, SameTerms, PaidOut
<1>2. Accounted(s) > Accounted(r) => r.status = "Active"
  BY DEF SettledFrom
<1>3. s.status \in {r.status, "Completed"}
  BY DEF SettledFrom
<1> QED
  BY <1>1, <1>2, <1>3, OwedIs DEF Debited

(* Ending a grant whose grantee was still owed all that was not paid out.  *)
LEMMA EndDebited ==
  ASSUME NEW r \in Grant, NEW s \in Grant, NEW h \in Grant, NEW e \in Nat, NEW p, NEW f, NEW q,
         SettledFrom(r, s), r.status \in {"Active", "Paused"},
         h.total_amount = s.total_amount, Accounted(h) = Accounted(s),
         e = 0 /\ Accounted(s) <= s.total_amount
           => q + OwedBy(h, f) <= p + (s.total_amount - PaidOut(s))
  PROVE  Debited(r, e, p, h, f, q)
<1>1. PaidOut(s) = PaidOut(r) /\ s.total_amount = r.total_amount
  BY DEF SettledFrom, SameTerms, PaidOut
<1>2. OwedBy(r, e) = r.total_amount - PaidOut(r)
  BY OwedIs
<1> QED
  BY <1>1, <1>2 DEF Debited

(* Nothing happening to a grant.                                           *)
LEMMA StillDebited ==
  ASSUME NEW r \in Grant, NEW e \in Nat, NEW p \in Nat
  PROVE  Debited(r, e, p, r, e, p)
BY OwedIs DEF Debited

DebitsMove ==
  \A g \in Ids :
    Debited(grant[g], escrow[g], paid[g], grant'[g], escrow'[g], paid'[g])

LEMMA OneDebited ==
  ASSUME GrantsTyped, FundsTyped, NEW g \in Ids,
         \A x \in Ids \ {g} : /\ grant'[x] = grant[x]
                              /\ escrow'[x] = escrow[x] /\ paid'[x] = paid[x],
         Debited(grant[g], escrow[g], paid[g], grant'[g], escrow'[g], paid'[g])
  PROVE  DebitsMove
<1> SUFFICES ASSUME NEW x \in Ids, x # g
             PROVE  Debited(grant[x], escrow[x], paid[x], grant'[x], escrow'[x], paid'[x])
  BY DEF DebitsMove
<1>1. grant[x] \in Grant /\ escrow[x] \in Nat /\ paid[x] \in Nat
  BY DEF GrantsTyped, FundsTyped
<1> QED
  BY <1>1, StillDebited

(* The shape of a step that writes grant g and pays for it.                *)
LEMMA PaidDebits ==
  ASSUME GrantsTyped, FundsTyped, NEW g \in Ids, NEW h, NEW amount,
         Write(g, h), Pay(g, amount), UNCHANGED escrow,
         Debited(grant[g], escrow[g], paid[g], h, escrow[g], paid[g] + amount)
  PROVE  DebitsMove
<1>1. grant'[g] = h /\ paid'[g] = paid[g] + amount /\ escrow'[g] = escrow[g]
  BY DEF GrantsTyped, FundsTyped, Write, Pay
<1>2. \A x \in Ids \ {g} : /\ grant'[x] = grant[x]
                           /\ escrow'[x] = escrow[x] /\ paid'[x] = paid[x]
  BY DEF GrantsTyped, FundsTyped, Write, Pay
<1> QED
  BY <1>1, <1>2, OneDebited

LEMMA UnpaidDebits ==
  ASSUME GrantsTyped, FundsTyped, NEW g \in Ids, NEW h,
         Write(g, h), UNCHANGED funds,
         Debited(grant[g], escrow[g], paid[g], h, escrow[g], paid[g])
  PROVE  DebitsMove
<1>1. grant'[g] = h /\ paid'[g] = paid[g] /\ escrow'[g] = escrow[g]
  BY DEF GrantsTyped, Write, funds
<1>2. \A x \in Ids \ {g} : /\ grant'[x] = grant[x]
                           /\ escrow'[x] = escrow[x] /\ paid'[x] = paid[x]
  BY DEF GrantsTyped, Write, funds
<1> QED
  BY <1>1, <1>2, OneDebited

LEMMA SameDebits ==
  ASSUME GrantsTyped, FundsTyped, UNCHANGED <<grant, funds>>
  PROVE  DebitsMove
<1> SUFFICES ASSUME NEW x \in Ids
             PROVE  Debited(grant[x], escrow[x], paid[x], grant'[x], escrow'[x], paid'[x])
  BY DEF DebitsMove
<1>1. grant[x] \in Grant /\ escrow[x] \in Nat /\ paid[x] \in Nat
  BY DEF GrantsTyped, FundsTyped
<1> QED
  BY <1>1, StillDebited DEF funds

(* The actions of Disburse, one by one.                                    *)
LEMMA DisburseDebits ==
  ASSUME GrantsTyped, GrantsSound, FundsTyped, time \in Nat, NEW g \in Ids, Disburse(g)
  PROVE  DebitsMove
<1> DEFINE r == grant[g]
           s == Settled(g)
           h == grant'[g]
           e == escrow[g]
           p == paid[g]
<1>1. r \in Grant /\ h \in Grant /\ e \in Nat /\ p \in Nat
  BY DisburseMoves DEF GrantsTyped, FundsTyped, GrantsMove
<1>2. Settles(g) => SettledFrom(r, s) /\ s \in Grant
  BY SettledSound DEF SettledFrom
<1>3. ASSUME NEW x, Write(g, x)
      PROVE  h = x
  BY <1>3 DEF GrantsTyped, Write
<1>4. ASSUME NEW amount \in Amounts, Withdraw(g, amount) \/ WithdrawValidator(g, amount)
      PROVE  DebitsMove
  <2>1. /\ Settles(g) /\ Pay(g, amount) /\ UNCHANGED escrow
        /\ Stored(g) /\ r.status # "RageQuitted"
    BY <1>4 DEF Withdraw, WithdrawValidator, InStatus
  <2>2. SettledFrom(r, s) /\ s \in Grant /\ amount \in Nat
    BY <1>2, <2>1, GrantStreamAssumption
  <2>3. /\ h.status = s.status /\ h.total_amount = s.total_amount
        /\ \/ /\ h.withdrawn = s.withdrawn + amount
              /\ h.claimable = s.claimable - amount
              /\ h.validator_withdrawn = s.validator_withdrawn
              /\ h.validator_claimable = s.validator_claimable
           \/ /\ h.validator_withdrawn = s.validator_withdrawn + amount
              /\ h.validator_claimable = s.validator_claimable - amount
              /\ h.withdrawn = s.withdrawn
              /\ h.claimable = s.claimable
    <3> HIDE DEF s, h
    <3>1. CASE Withdraw(g, amount)
      BY <1>3, <2>2, <3>1 DEF Withdraw, Grant, s
    <3>2. CASE WithdrawValidator(g, amount)
      BY <1>3, <2>2, <3>2 DEF WithdrawValidator, Grant, s
    <3> QED
      BY <1>4, <3>1, <3>2
  <2> HIDE DEF r, s, h, e, p
  <2>4. PaidOut(h) = PaidOut(s) + amount /\ Claims(h) + amount = Claims(s)
    BY <1>1, <2>2, <2>3 DEF Grant, PaidOut, Claims
  <2>5. Debited(r, e, p, h, e, p + amount)
    BY <1>1, <2>1, <2>2, <2>3, <2>4, ClaimDebited
  <2>6. Write(g, h)
    BY <1>3, <1>4 DEF Withdraw, WithdrawValidator
  <2> QED
    BY <2>1, <2>5, <2>6, PaidDebits DEF r, e, p
<1>5. CASE RageQuit(g)
  <2> DEFINE remaining == s.total_amount - (PaidOut(s) + s.claimable + s.validator_claimable)
             amount == s.claimable + s.validator_claimable + AtLeastZero(remaining)
  <2>1. /\ Settles(g) /\ Pay(g, amount) /\ UNCHANGED escrow
        /\ r.status \in {"Active", "Paused"}
    BY <1>5 DEF RageQuit, InStatus
  <2>2. SettledFrom(r, s) /\ s \in Grant
    BY <1>2, <2>1
  <2>3. Write(g, h)
    BY <1>3, <1>5 DEF RageQuit
  <2>4. /\ h.status = "RageQuitted" /\ h.total_amount = s.total_amount
        /\ h.withdrawn = s.withdrawn + s.claimable
        /\ h.validator_withdrawn = s.validator_withdrawn + s.validator_claimable
        /\ h.claimable = 0 /\ h.validator_claimable = 0
    <3> HIDE DEF s, h
    <3> QED
      BY <1>3, <1>5, <2>2 DEF RageQuit, Grant, s
  <2> HIDE DEF r, s, h, e, p
  <2>5. Accounted(h) = Accounted(s) /\ OwedBy(h, e) = 0
    BY <1>1, <2>2, <2>4, OwedIs DEF Grant, Accounted, PaidOut
  <2>6. Accounted(s) <= s.total_amount => amount = s.total_amount - PaidOut(s)
    BY <2>2 DEF Grant, Accounted, PaidOut, AtLeastZero
  <2> HIDE DEF amount
  <2>7. PaidOut(s) \in Nat /\ s.total_amount \in Nat
    BY <2>2, OwedIs
  <2>8. e = 0 /\ Accounted(s) <= s.total_amount
          => (p + amount) + OwedBy(h, e) <= p + (s.total_amount - PaidOut(s))
    BY <1>1, <2>5, <2>6, <2>7
  <2>9. Debited(r, e, p, h, e, p + amount)
    BY <1>1, <2>1, <2>2, <2>4, <2>5, <2>8, EndDebited
  <2> QED
    BY <2>1, <2>3, <2>9, PaidDebits DEF r, e, p
<1>6. CASE CancelGrant(g)
  <2> DEFINE amount == AtLeastZero(Unearned(s))
  <2>1. /\ Settles(g) /\ Pay(g, amount) /\ UNCHANGED escrow
        /\ r.status \notin {"Absent", "Completed", "RageQuitted"}
    BY <1>6 DEF CancelGrant, InStatus, Stored
  <2>2. SettledFrom(r, s) /\ s \in Grant
    BY <1>2, <2>1
  <2>3. Write(g, h)
    BY <1>3, <1>6 DEF CancelGrant
  <2>4. SameAmounts(s, h) /\ h.status = "Cancelled"
    <3> HIDE DEF s, h
    <3> QED
      BY <1>3, <1>6, <2>2 DEF CancelGrant, Grant, SameAmounts, s
  <2> HIDE DEF r, s, h, e, p
  <2>5. Accounted(h) = Accounted(s) /\ OwedBy(h, e) = Claims(s)
    BY <1>1, <2>2, <2>4, OwedIs DEF SameAmounts, Accounted, PaidOut, Claims
  <2>6. /\ PaidOut(s) \in Nat /\ s.total_amount \in Nat /\ Claims(s) \in Nat
        /\ Accounted(s) = PaidOut(s) + Claims(s)
    BY <2>2, OwedIs
  <2>7. Accounted(s) <= s.total_amount
          => amount = s.total_amount - (PaidOut(s) + Claims(s))
    BY <2>6 DEF Unearned, AtLeastZero
  <2> HIDE DEF amount
  <2>8. e = 0 /\ Accounted(s) <= s.total_amount
          => (p + amount) + OwedBy(h, e) <= p + (s.total_amount - PaidOut(s))
    BY <1>1, <2>5, <2>6, <2>7
  <2>9. Debited(r, e, p, h, e, p + amount)
    <3>1. CASE r.status \in {"Active", "Paused"}
      <4>1. h.total_amount = s.total_amount
        BY <2>4 DEF SameAmounts
      <4> QED
        BY <1>1, <2>2, <2>5, <2>8, <3>1, <4>1, EndDebited
    <3>2. CASE r.status \notin {"Active", "Paused"}
      BY <2>1, <2>4, <3>2 DEF Debited
    <3> QED
      BY <3>1, <3>2
  <2> QED
    BY <2>1, <2>3, <2>9, PaidDebits DEF r, e, p
<1>7. ASSUME NEW contested \in BOOLEAN, TriggerGrantClawback(g, contested)
      PROVE  DebitsMove
  <2> DEFINE unearned == Unearned(s)
             f == escrow'[g]
             q == paid'[g]
  <2>1. Settles(g) /\ r.status \in {"Active", "Paused"}
    BY <1>7 DEF TriggerGrantClawback, InStatus
  <2>2. SettledFrom(r, s) /\ s \in Grant
    BY <1>2, <2>1
  <2>3. Write(g, h)
    BY <1>3, <1>7 DEF TriggerGrantClawback
  <2>4. SameAmounts(s, h) /\ h.status = "Clawbacked"
    <3> HIDE DEF s, h
    <3> QED
      BY <1>3, <1>7, <2>2 DEF TriggerGrantClawback, Grant, SameAmounts, s
  <2>5. \/ unearned <= 0 /\ f = e /\ q = p
        \/ unearned > 0 /\ f = unearned /\ q = p
        \/ unearned > 0 /\ f = e /\ q = p + unearned
    <3> HIDE DEF s
    <3> QED
      BY <1>7 DEF TriggerGrantClawback, Pay, FundsTyped, funds, s
  <2>6. \A x \in Ids \ {g} : /\ grant'[x] = grant[x]
                             /\ escrow'[x] = escrow[x] /\ paid'[x] = paid[x]
    BY <1>7 DEF TriggerGrantClawback, Pay, Write, GrantsTyped, FundsTyped, funds
  <2> HIDE DEF r, s, h, e, p, f, q
  <2>7. /\ PaidOut(s) \in Nat /\ s.total_amount \in Nat /\ Claims(s) \in Nat
        /\ Accounted(s) = PaidOut(s) + Claims(s)
        /\ unearned = s.total_amount - Accounted(s)
    BY <2>2, OwedIs DEF Unearned
  <2> HIDE DEF unearned
  <2>8. f \in Nat
    BY <1>1, <2>5, <2>7
  <2>9. Accounted(h) = Accounted(s) /\ OwedBy(h, f) = Claims(s) + f
    BY <1>1, <2>2, <2>4, <2>8, OwedIs DEF SameAmounts, Accounted, PaidOut, Claims
  <2>10. e = 0 /\ Accounted(s) <= s.total_amount
           => q + OwedBy(h, f) <= p + (s.total_amount - PaidOut(s))
    BY <1>1, <2>5, <2>7, <2>9
  <2>11. Debited(r, e, p, h, f, q)
    <3>1. h.total_amount = s.total_amount
      BY <2>4 DEF SameAmounts
    <3> QED
      BY <1>1, <2>1, <2>2, <2>9, <2>10, <3>1, EndDebited
  <2> QED
    BY <2>6, <2>11, OneDebited DEF r, e, p, h, f, q
<1>8. CASE ReleaseEscrowToDonor(g)
  <2>1. /\ r.status = "Clawbacked" /\ h = r /\ UNCHANGED grant
        /\ escrow'[g] = 0 /\ paid'[g] = p + e
    BY <1>8 DEF ReleaseEscrowToDonor, InStatus, Pay, FundsTyped
  <2>2. \A x \in Ids \ {g} : /\ grant'[x] = grant[x]
                             /\ escrow'[x] = escrow[x] /\ paid'[x] = paid[x]
    BY <1>8 DEF ReleaseEscrowToDonor, Pay, FundsTyped
  <2>3. Debited(r, e, p, r, 0, p + e)
    <3> HIDE DEF r, e, p
    <3>1. OwedBy(r, e) = Claims(r) + e /\ OwedBy(r, 0) = Claims(r) + 0 /\ Claims(r) \in Nat
      BY <1>1, <2>1, OwedIs
    <3> QED
      BY <1>1, <3>1 DEF Debited
  <2> QED
    BY <2>1, <2>2, <2>3, OneDebited
<1>9. CASE ReturnEscrowToGrant(g)
  <2>1. /\ r.status = "Clawbacked" /\ Pay(g, escrow[g])
        /\ h.status = "Active"
        /\ \A x \in Ids \ {g} : /\ grant'[x] = grant[x]
                                /\ escrow'[x] = escrow[x] /\ paid'[x] = paid[x]
    BY <1>1, <1>9 DEF ReturnEscrowToGrant, InStatus, Pay, Write, GrantsTyped,
                      FundsTyped, Grant
  <2>2. Debited(r, e, p, h, escrow'[g], paid'[g])
    BY <2>1 DEF Debited
  <2> QED
    BY <2>1, <2>2, OneDebited
<1> QED
  BY <1>4, <1>5, <1>6, <1>7, <1>8, <1>9 DEF Disburse

(* A purge forgets what Owed still counts: nothing less than zero, since a *)
(* purged grant that was Active or Paused until it settled is Completed.   *)
LEMMA PurgeDebits ==
  ASSUME GrantsTyped, GrantsSound, FundsTyped, time \in Nat, NEW g \in Ids,
         FinalizeAndPurge(g) \/ PruneFinalizedGrant(g)
  PROVE  DebitsMove
<1> DEFINE r == grant[g]
           s == Settled(g)
           e == escrow[g]
           p == paid[g]
<1>1. /\ Write(g, Absent) /\ UNCHANGED funds /\ Settles(g)
      /\ s.status \in {"Completed", "Cancelled"}
      /\ s.status = "Completed" => Accounted(s) = s.total_amount
      /\ s.claimable = 0 /\ s.validator_claimable = 0
  BY DEF FinalizeAndPurge, PruneFinalizedGrant, Purgeable
<1>2. r \in Grant /\ e \in Nat /\ p \in Nat /\ SettledFrom(r, s) /\ s \in Grant
  BY <1>1, SettledSound DEF GrantsTyped, FundsTyped, SettledFrom
<1>3. Absent \in Grant /\ Absent.status = "Absent"
  BY AbsentSound DEF Absent, NewGrant
<1> HIDE DEF r, s, e, p
<1>4. OwedBy(Absent, e) = 0
  BY <1>2, <1>3, OwedIs
<1>5. r.status \in {"Active", "Paused"} => OwedBy(r, e) = 0
  <2>1. /\ PaidOut(s) = PaidOut(r) /\ s.total_amount = r.total_amount
        /\ s.status \in {r.status, "Completed"}
    BY <1>2 DEF SettledFrom, SameTerms, PaidOut
  <2>2. PaidOut(s) = Accounted(s)
    BY <1>1, <1>2 DEF Grant, Accounted, PaidOut
  <2>3. PaidOut(r) \in Nat /\ r.total_amount \in Nat
    BY <1>2, OwedIs
  <2>4. r.status \in {"Active", "Paused"} => OwedBy(r, e) = r.total_amount - PaidOut(r)
    BY <1>2, OwedIs
  <2> QED
    BY <1>1, <2>1, <2>2, <2>3, <2>4
<1>6. r.status \in {"Completed", "Clawbacked", "RageQuitted"} => OwedBy(r, e) \in Nat
  BY <1>2, OwedIs
<1>7. Debited(r, e, p, Absent, e, p)
  BY <1>2, <1>4, <1>5, <1>6 DEF Debited
<1> QED
  BY <1>1, <1>7, UnpaidDebits DEF r, e, p

LEMMA DebitsMoved ==
  ASSUME IInv, Next
  PROVE  DebitsMove
<1>1. GrantsTyped /\ GrantsSound /\ FundsTyped /\ time \in Nat
  BY DEF IInv, TypeOK, CB!TypeOK, GrantsTyped, FundsTyped
<1>2. ASSUME NEW g \in Ids, Create(g)
      PROVE  DebitsMove
  <2>1. /\ grant[g].status = "Absent" /\ UNCHANGED escrow
        /\ \A x \in Ids \ {g} : grant'[x] = grant[x] /\ paid'[x] = paid[x]
    BY <1>1, <1>2 DEF Create, CreateGrant, Write, Stored, GrantsTyped, FundsTyped
  <2>2. Debited(grant[g], escrow[g], paid[g], grant'[g], escrow'[g], paid'[g])
    BY <2>1 DEF Debited
  <2> QED
    BY <1>1, <2>1, <2>2, OneDebited
<1>3. ASSUME NEW g \in Ids, Manage(g)
      PROVE  DebitsMove
  <2>1. PICK h \in Grant : Write(g, h) /\ Managed(grant[g], h)
    BY <1>1, <1>3, ManageWrites
  <2>2. UNCHANGED funds
    BY <1>3 DEF Manage, PauseStream, ResumeStream, ProposeRateChange,
                ApplyKpiMultiplier, SetLegalMetadata, SignLegalMetadata, ChangeGrantee
  <2>3. grant[g] \in Grant /\ escrow[g] \in Nat /\ paid[g] \in Nat
    BY <1>1 DEF GrantsTyped, FundsTyped
  <2>4. PICK s \in Grant :
          /\ SettledFrom(grant[g], s) /\ SameAmounts(s, h)
          /\ \/ /\ grant[g].status \in {"Active", "Paused"}
                /\ h.status \in {s.status, "Active", "Paused"}
             \/ s = grant[g] /\ h.status = grant[g].status
    BY <2>1 DEF Managed
  <2>5. \/ /\ grant[g].status \in {"Active", "Paused"}
           /\ h.status \in {"Active", "Paused", "Completed"}
        \/ s = grant[g] /\ h.status = grant[g].status
    BY <2>4 DEF SettledFrom
  <2>6. Debited(grant[g], escrow[g], paid[g], h, escrow[g], paid[g])
    BY <2>3, <2>4, <2>5, KeptDebited
  <2> QED
    BY <1>1, <2>1, <2>2, <2>6, UnpaidDebits
<1>4. ASSUME NEW g \in Ids,
             Disburse(g) \/ FinalizeAndPurge(g) \/ PruneFinalizedGrant(g)
      PROVE  DebitsMove
  BY <1>1, <1>4, DisburseDebits, PurgeDebits
<1>5. ASSUME NEW amount \in Amounts, RescueGrantTokens(amount)
      PROVE  DebitsMove
  <2>1. UNCHANGED <<grant, escrow, paid>>
    BY <1>5 DEF RescueGrantTokens
  <2>2. \A g \in Ids : grant[g] \in Grant /\ escrow[g] \in Nat /\ paid[g] \in Nat
    BY <1>1 DEF GrantsTyped, FundsTyped
  <2> QED
    BY <2>1, <2>2, StillDebited DEF DebitsMove
<1>6. CASE \/ \E g \in Ids : TriggerGrantDispute(g)
           \/ \E amount \in Amounts : RescueNativeTokens(amount)
           \/ BreakerStep \/ LedgerTick
  <2>1. UNCHANGED <<grant, funds>>
    BY <1>6 DEF TriggerGrantDispute, RescueNativeTokens, BreakerStep, LedgerTick
  <2> QED
    BY <1>1, <2>1, SameDebits
<1> QED
  BY <1>2, <1>3, <1>4, <1>5, <1>6 DEF Next, GrantNext

(* Every payment for a grant is covered by a drop in what that grant is    *)
(* owed, with the exceptions DebitsCovered names.                          *)
THEOREM PaymentsCovered == Spec => DebitsCovered
<1> DEFINE Covered(g) ==
      /\ InStatus(g, {"Active", "Paused", "Completed", "RageQuitted", "Clawbacked"})
      /\ InStatus(g, {"Clawbacked"}) => grant'[g].status \notin {"Cancelled", "Active"}
      /\ ~InStatus(g, {"Clawbacked"}) => escrow[g] = 0
      /\ ~Overshot(g)'
      => paid'[g] + Owed(g)' <= paid[g] + Owed(g)
<1>1. IInv /\ IInv' /\ [Next]_vars => [\A g \in Ids : Covered(g)]_vars
  <2> SUFFICES ASSUME IInv, IInv', Next, NEW g \in Ids
               PROVE  Covered(g)
    OBVIOUS
  <2>1. Debited(grant[g], escrow[g], paid[g], grant'[g], escrow'[g], paid'[g])
    BY DebitsMoved DEF DebitsMove
  <2>2. Owed(g) = OwedBy(grant[g], escrow[g]) /\ Owed(g)' = OwedBy(grant'[g], escrow'[g])
    BY DEF Owed, OwedBy, Claims, InStatus
  <2>3. ~Overshot(g)' => Accounted(grant'[g]) <= grant'[g].total_amount
    <3>1. grant'[g] \in Grant
      BY DEF IInv, TypeOK
    <3> QED
      BY <3>1 DEF Overshot, Grant, Accounted, PaidOut
  <2> QED
    BY <2>1, <2>2, <2>3 DEF Debited, InStatus
<1> QED
  BY <1>1, IInvHolds, PTL DEF Spec, DebitsCovered

=============================================================================

----------------------------- MODULE GrantStream ----------------------------
(***************************************************************************)
(* GrantStreamContract (contracts/grant_stream/src/lib.rs): the life of a  *)
(* streamed grant from create_grant to finalize_and_purge, the funds it    *)
(* moves, the indices it is listed in, and the circuit breakers that gate  *)
(* it, composed from CircuitBreakers.                                      *)
(*                                                                         *)
(* One action is one invocation. An invocation that returns Err or panics  *)
(* is rolled back by the host, so every early return is a guard and a      *)
(* transfer the contract cannot pay disables the action. require_auth is   *)
(* the choice of caller, and is left out where any caller of that role may *)
(* come at any time.                                                       *)
(***************************************************************************)
EXTENDS GrantOps, FiniteSets, Functions

CONSTANTS
  Ids,                    \* grant ids
  Totals,                 \* total_amount a grant may be created with
  Rates,                  \* flow_rate a grant may be created with or proposed
  Warmups,                \* warmup_duration a grant may be created with
  Multipliers,            \* KPI multipliers, in units of BPS
  LegalRequirements,      \* requires_signature an admin may set
  Amounts,                \* amounts a withdrawal or a rescue may have
  InitialBalances,        \* grant tokens the contract may be funded with
  MIN_WITHDRAWAL,
  RATE_INCREASE_TIMELOCK, \* 48 hours in the code
  PRUNE_DELAY,            \* 180 days in the code
  PURGE_BOUNTY,           \* 0.01 XLM in the code
  PRUNE_BOUNTY,           \* 0.02 XLM in the code
  MaxRate,                \* bound: flow_rate after a KPI multiplier

  Unset, SanityOracles, BPS_UNIT, PRICE_DEVIATION_BPS, TVL_DRAIN_BPS,
  DISPUTE_THRESHOLD_BPS, VELOCITY_WINDOW, DISPUTE_WINDOW, RENT_BUFFER,
  Prices, Liquidities, MaxTime, MaxDisputes, MaxXlm       \* CircuitBreakers'

ASSUME GrantStreamAssumption ==
  /\ Totals \cup Amounts \cup Multipliers \subseteq Nat \ {0}
  /\ Rates \cup Warmups \cup InitialBalances \subseteq Nat
  /\ LegalRequirements \subseteq BOOLEAN
  /\ IsFiniteSet(Ids)
  /\ {MIN_WITHDRAWAL, RATE_INCREASE_TIMELOCK, PRUNE_DELAY, PURGE_BOUNTY,
      PRUNE_BOUNTY, MaxRate} \subseteq Nat

VARIABLES
  time,                   \* env.ledger().timestamp()
  breaker,                \* the circuit breakers' keys and the native balance
  grant,                  \* Grant(id); Absent when the key is not stored
  ids,                    \* GrantIds: how often the vector holds each id
  recipientGrants,        \* RecipientGrants(address), likewise
  escrow,                 \* DisputeEscrow(id); 0 when the key is not stored
  balance,                \* grant tokens the contract holds
  paid,                   \* auxiliary: tokens that left the contract for a grant
  book                    \* records kept of withdrawals and of pruned grants

CB == INSTANCE CircuitBreakers WITH ActiveCounts <- 0..Cardinality(Ids)

ASSUME BreakersAssumption == CB!BreakerAssumption /\ CB!CircuitBreakersAssumption

clock    == <<time, breaker>>
registry == <<ids, recipientGrants>>
funds    == <<escrow, balance, paid>>
vars     == <<clock, grant, registry, funds, book>>

Book ==
  [ claims     : [Ids -> Nat],          \* ClaimValueCounter(id)
    flow       : [Recipients -> Nat],   \* the last FlowRecord's cumulative_amount
    leaf       : [Ids -> Nat],          \* the balance in the id's Merkle leaf
    tombstones : SUBSET Ids ]           \* Tombstone(id)

TypeOK ==
  /\ CB!TypeOK
  /\ grant \in [Ids -> Grant]
  /\ ids \in [Ids -> Nat]
  /\ recipientGrants \in [Recipients -> [Ids -> Nat]]
  /\ escrow \in [Ids -> Nat]
  /\ balance \in Nat
  /\ paid \in [Ids -> Nat]
  /\ book \in Book

Init ==
  /\ CB!Init
  /\ grant = [g \in Ids |-> Absent]
  /\ ids = [g \in Ids |-> 0]
  /\ recipientGrants = [r \in Recipients |-> [g \in Ids |-> 0]]
  /\ escrow = [g \in Ids |-> 0]
  /\ balance \in InitialBalances
  /\ paid = [g \in Ids |-> 0]
  /\ book = [ claims |-> [g \in Ids |-> 0], flow |-> [r \in Recipients |-> 0],
              leaf |-> [g \in Ids |-> 0], tombstones |-> {} ]

(***************************************************************************)
(* Reading and writing.                                                    *)
(***************************************************************************)

Stored(g) == grant[g].status # "Absent"

InStatus(g, statuses) == grant[g].status \in statuses

Write(g, record) == grant' = [grant EXCEPT ![g] = record]

Settled(g) == Settle(grant[g], time)

Settles(g) == CanSettle(grant[g], time)

(* client.transfer of the grant token, on behalf of grant g.               *)
Pay(g, amount) ==
  /\ amount \in 0..balance
  /\ balance' = balance - amount
  /\ paid' = [paid EXCEPT ![g] = @ + amount]

AtLeastZero(amount) == IF amount > 0 THEN amount ELSE 0

(* count_active_grants walks GrantIds.                                     *)
ActiveIds == {g \in Ids : ids[g] > 0 /\ InStatus(g, {"Active", "Paused"})}

(* Mutant: Paused grants are not counted.                                  *)
TotalAllocatedWhileActive ==
  SumFunction([g \in {h \in Ids : InStatus(h, {"Active"})} |->
                 grant[g].total_amount - grant[g].withdrawn])

(* total_allocated_funds; what the validator withdrew is not subtracted.   *)
TotalAllocated ==
  SumFunction([g \in ActiveIds |->
                 ids[g] * (grant[g].total_amount - grant[g].withdrawn)])

(***************************************************************************)
(* Creation, rates, pauses and legal metadata: no funds move.              *)
(***************************************************************************)

CreateGrant(g, recipient, total, rate, warmup, validator, donor) ==
  /\ ~breaker.GntHalt
  /\ ~Stored(g)
  /\ Write(g, NewGrant(recipient, total, rate, warmup, validator, donor, time))
  /\ ids' = [ids EXCEPT ![g] = @ + 1]
  /\ recipientGrants' = [recipientGrants EXCEPT ![recipient][g] = @ + 1]
  /\ paid' = [paid EXCEPT ![g] = 0]
  /\ UNCHANGED <<clock, escrow, balance, book>>

(* The status settle_grant may have set to Completed is overwritten.       *)
PauseStream(g) ==
  /\ InStatus(g, {"Active"})
  /\ Settles(g)
  /\ Write(g, [Settled(g) EXCEPT !.status = "Paused"])
  /\ UNCHANGED <<clock, registry, funds, book>>

(* Mutant: any stored grant can be resumed.                                *)
ResumeAnyStream(g) ==
  /\ Stored(g)
  /\ Write(g, [grant[g] EXCEPT !.status = "Active", !.last_update_ts = time])
  /\ UNCHANGED <<clock, registry, funds, book>>

ResumeStream(g) ==
  /\ InStatus(g, {"Paused"})
  /\ Write(g, [grant[g] EXCEPT !.status = "Active", !.last_update_ts = time])
  /\ UNCHANGED <<clock, registry, funds, book>>

ProposeRateChange(g, rate) ==
  LET settled == Settled(g)
  IN  /\ InStatus(g, {"Active"})
      /\ Settles(g)
      /\ Write(g,
           IF rate > settled.flow_rate
           THEN [settled EXCEPT !.pending_rate = rate,
                                !.effective_timestamp = time + RATE_INCREASE_TIMELOCK]
           ELSE [settled EXCEPT !.flow_rate = rate, !.pending_rate = 0,
                                !.effective_timestamp = 0])
      /\ UNCHANGED <<clock, registry, funds, book>>

ApplyKpiMultiplier(g, multiplier) ==
  LET settled   == Settled(g)
      scaled(r) == (r * multiplier) \div BPS
  IN  /\ ~breaker.OraFrozen
      /\ InStatus(g, {"Active"})
      /\ Settles(g)
      /\ scaled(settled.flow_rate) <= MaxRate /\ scaled(settled.pending_rate) <= MaxRate
      /\ Write(g, [settled EXCEPT !.flow_rate = scaled(@), !.pending_rate = scaled(@)])
      /\ UNCHANGED <<clock, registry, funds, book>>

(* Neither legal entry point settles, and a new hash keeps the signature.  *)
SetLegalMetadata(g, requires) ==
  /\ Stored(g)
  /\ Write(g, [grant[g] EXCEPT !.legal_hash = TRUE,
                               !.requires_legal_signature = requires])
  /\ UNCHANGED <<clock, registry, funds, book>>

SignLegalMetadata(g) ==
  /\ Stored(g)
  /\ grant[g].legal_hash
  /\ Write(g, [grant[g] EXCEPT !.is_legal_signed = TRUE, !.last_update_ts = time])
  /\ UNCHANGED <<clock, registry, funds, book>>

(* Mutant: the old grantee's vector keeps the id.                          *)
ChangeGranteeKeepingOld(g, recipient) ==
  /\ InStatus(g, {"Active", "Paused"})
  /\ recipient # grant[g].recipient
  /\ Write(g, [grant[g] EXCEPT !.recipient = recipient])
  /\ recipientGrants' = [recipientGrants EXCEPT ![recipient][g] = @ + 1]
  /\ UNCHANGED <<clock, ids, funds, book>>

ChangeGrantee(g, recipient) ==
  LET old == grant[g].recipient
  IN  /\ InStatus(g, {"Active", "Paused"})
      /\ recipient # old
      /\ Write(g, [grant[g] EXCEPT !.recipient = recipient])
      /\ recipientGrants' =
           [recipientGrants EXCEPT ![old][g] = AtLeastZero(@ - 1),
                                   ![recipient][g] = @ + 1]
      /\ UNCHANGED <<clock, ids, funds, book>>

(***************************************************************************)
(* Withdrawals.                                                            *)
(***************************************************************************)

(* record_claim_value, record_flow and update_audit_leaf.                  *)
RecordWithdrawal(g, recipient, amount, total) ==
  book' = [book EXCEPT !.claims[g] = @ + 1, !.leaf[g] = total,
                       !.flow[recipient] = total]

(* CB!Withdraw is the three checks, the velocity record and the rent check.*)
(* try_call_on_withdraw and the token cannot re-enter the contract.        *)
Withdraw(g, amount) ==
  LET settled == Settled(g)
      total   == settled.withdrawn + amount
      during  == settled.cancellation_initiated_at # 0
  IN  /\ Stored(g) /\ ~InStatus(g, {"Cancelled", "RageQuitted"})
      /\ CB!Withdraw(amount)
      /\ Settles(g)
      /\ ~AwaitsSignature(settled)
      /\ settled.claimable >= MIN_WITHDRAWAL
      /\ amount <= settled.claimable
      /\ Write(g, [settled EXCEPT !.claimable = @ - amount, !.withdrawn = total,
                                  !.clawback_eligible = @ + IF during THEN amount ELSE 0])
      /\ Pay(g, amount)
      /\ RecordWithdrawal(g, settled.recipient, amount, total)
      /\ UNCHANGED <<registry, escrow>>

(* No breaker, no minimum and no legal gate on the validator's side.       *)
WithdrawValidator(g, amount) ==
  LET settled == Settled(g)
  IN  /\ Stored(g) /\ ~InStatus(g, {"Cancelled", "RageQuitted"})
      /\ grant[g].validator # None
      /\ Settles(g)
      /\ amount <= settled.validator_claimable
      /\ Write(g, [settled EXCEPT !.validator_claimable = @ - amount,
                                  !.validator_withdrawn = @ + amount])
      /\ Pay(g, amount)
      /\ UNCHANGED <<clock, registry, escrow, book>>

(***************************************************************************)
(* Endings: rage quit, cancellation and clawback.                          *)
(***************************************************************************)

(* The claimable amounts go to the grantee and the validator, what is left *)
(* of total_amount to the treasury.                                        *)
RageQuit(g) ==
  LET settled   == Settled(g)
      due       == settled.claimable
      share     == settled.validator_claimable
      remaining == settled.total_amount - (PaidOut(settled) + due + share)
  IN  /\ InStatus(g, {"Paused"})
      /\ Settles(g)
      /\ Write(g, [settled EXCEPT !.claimable = 0, !.validator_claimable = 0,
                                  !.withdrawn = @ + due,
                                  !.validator_withdrawn = @ + share,
                                  !.status = "RageQuitted"])
      /\ Pay(g, due + share + AtLeastZero(remaining))
      /\ UNCHANGED <<clock, registry, escrow, book>>

(* Cancelled and Clawbacked grants may be cancelled, again; what is        *)
(* claimable stays in the contract, out of withdraw's reach.               *)
CancelGrant(g) ==
  LET settled == Settled(g)
  IN  /\ Stored(g) /\ ~InStatus(g, {"Completed", "RageQuitted"})
      /\ Settles(g)
      /\ Write(g, [settled EXCEPT !.cancellation_initiated_at = time,
                                  !.clawback_eligible = 0,
                                  !.status = "Cancelled"])
      /\ Pay(g, AtLeastZero(Unearned(settled)))
      /\ UNCHANGED <<clock, registry, escrow, book>>

(* An uncontested clawback pays the donor, and fails without one; a        *)
(* contested one books the unearned amount as the grant's escrow.          *)
TriggerGrantClawback(g, contested) ==
  LET settled  == Settled(g)
      unearned == Unearned(settled)
  IN  /\ InStatus(g, {"Active", "Paused"})
      /\ Settles(g)
      /\ Write(g, [settled EXCEPT !.status = "Clawbacked"])
      /\ \/ unearned <= 0 /\ UNCHANGED funds
         \/ /\ unearned > 0 /\ contested
            /\ escrow' = [escrow EXCEPT ![g] = unearned]
            /\ UNCHANGED <<balance, paid>>
         \/ /\ unearned > 0 /\ ~contested
            /\ grant[g].donor # None
            /\ Pay(g, unearned)
            /\ UNCHANGED escrow
      /\ UNCHANGED <<clock, registry, book>>

ReleaseEscrowToDonor(g) ==
  /\ InStatus(g, {"Clawbacked"})
  /\ escrow[g] > 0
  /\ grant[g].donor # None
  /\ Pay(g, escrow[g])
  /\ escrow' = [escrow EXCEPT ![g] = 0]
  /\ UNCHANGED <<clock, grant, registry, book>>

(* "Return to grant" adds the escrow to total_amount and also sends it to  *)
(* the treasury.                                                           *)
ReturnEscrowToGrant(g) ==
  /\ InStatus(g, {"Clawbacked"})
  /\ escrow[g] > 0
  /\ Write(g, [grant[g] EXCEPT !.status = "Active", !.last_update_ts = time,
                               !.total_amount = @ + escrow[g]])
  /\ Pay(g, escrow[g])
  /\ escrow' = [escrow EXCEPT ![g] = 0]
  /\ UNCHANGED <<clock, registry, book>>

(* rescue_tokens, of the grant token and of the native one.                *)
RescueGrantTokens(amount) ==
  /\ balance - amount >= TotalAllocated
  /\ amount <= balance
  /\ balance' = balance - amount
  /\ UNCHANGED <<clock, grant, registry, escrow, paid, book>>

RescueNativeTokens(amount) ==
  /\ amount <= breaker.xlm
  /\ CB!NativeTransfer(breaker.xlm - amount)
  /\ UNCHANGED <<grant, registry, funds, book>>

(***************************************************************************)
(* Removal.                                                                *)
(***************************************************************************)

(* What finalize_and_purge and prune_finalized_grant both require.         *)
Purgeable(g) ==
  LET settled == Settled(g)
  IN  /\ Stored(g)
      /\ Settles(g)
      /\ settled.status \in {"Completed", "Cancelled"}
      /\ settled.claimable = 0 /\ settled.validator_claimable = 0
      /\ settled.status = "Completed" => Accounted(settled) = settled.total_amount

(* Mutant: the bounty is paid out of a balance that does not hold it.      *)
PayBountyUnchecked(bounty) == CB!NativeTransfer(breaker.xlm - bounty)

PayBounty(bounty) ==
  CB!NativeTransfer(IF breaker.xlm >= bounty THEN breaker.xlm - bounty
                                             ELSE breaker.xlm)

(* Rebuilds both vectors without the id.                                   *)
FinalizeAndPurge(g) ==
  /\ Purgeable(g)
  /\ Write(g, Absent)
  /\ ids' = [ids EXCEPT ![g] = 0]
  /\ recipientGrants' = [recipientGrants EXCEPT ![grant[g].recipient][g] = 0]
  /\ PayBounty(PURGE_BOUNTY)
  /\ UNCHANGED <<funds, book>>

(* Removes the id's first occurrence from both vectors. The delay counts   *)
(* from the last_update_ts before settling.                                *)
PruneFinalizedGrant(g) ==
  /\ Purgeable(g)
  /\ time >= grant[g].last_update_ts + PRUNE_DELAY
  /\ Write(g, Absent)
  /\ ids' = [ids EXCEPT ![g] = AtLeastZero(@ - 1)]
  /\ recipientGrants' =
       [recipientGrants EXCEPT ![grant[g].recipient][g] = AtLeastZero(@ - 1)]
  /\ book' = [book EXCEPT !.claims[g] = 0, !.tombstones = @ \cup {g}]
  /\ PayBounty(PRUNE_BOUNTY)
  /\ UNCHANGED funds

(***************************************************************************)
(* The breakers' own entry points, native transfers and the clock.         *)
(***************************************************************************)

(* trigger_grant_dispute asks for no authorization and any stored grant.   *)
TriggerGrantDispute(g) ==
  /\ Stored(g)
  /\ CB!TriggerGrantDispute(Cardinality(ActiveIds))
  /\ UNCHANGED <<grant, registry, funds, book>>

BreakerStep ==
  /\ \/ \E price \in Prices : CB!SubmitOraclePrice(price)
     \/ \E oracle \in SanityOracles : CB!DesignateSanityOracle(oracle)
     \/ \E liquidity \in Liquidities : CB!SnapshotTvl(liquidity)
     \/ CB!ResumeVelocity
     \/ CB!ResumeInitialization
     \/ CB!CheckRent
     \/ CB!DisableRentPreservation
     \/ \E xlm \in 0..MaxXlm : CB!NativeTransfer(xlm)
  /\ UNCHANGED <<grant, registry, funds, book>>

(***************************************************************************)
(* The specification.                                                      *)
(***************************************************************************)

Create(g) ==
  \E recipient \in Recipients, total \in Totals, rate \in Rates,
     warmup \in Warmups, validator \in Validators \cup {None},
     donor \in Donors \cup {None} :
    CreateGrant(g, recipient, total, rate, warmup, validator, donor)

Manage(g) ==
  \/ PauseStream(g)
  \/ ResumeStream(g)
  \/ \E rate \in Rates : ProposeRateChange(g, rate)
  \/ \E multiplier \in Multipliers : ApplyKpiMultiplier(g, multiplier)
  \/ \E requires \in LegalRequirements : SetLegalMetadata(g, requires)
  \/ SignLegalMetadata(g)
  \/ \E recipient \in Recipients : ChangeGrantee(g, recipient)

Disburse(g) ==
  \/ \E amount \in Amounts : Withdraw(g, amount)
  \/ \E amount \in Amounts : WithdrawValidator(g, amount)
  \/ RageQuit(g)
  \/ CancelGrant(g)
  \/ \E contested \in BOOLEAN : TriggerGrantClawback(g, contested)
  \/ ReleaseEscrowToDonor(g)
  \/ ReturnEscrowToGrant(g)

LedgerTick == CB!Tick /\ UNCHANGED <<grant, registry, funds, book>>

GrantNext ==
  \/ \E g \in Ids : Create(g) \/ Manage(g) \/ Disburse(g)
  \/ \E g \in Ids : FinalizeAndPurge(g) \/ PruneFinalizedGrant(g)
  \/ \E amount \in Amounts : RescueGrantTokens(amount)
  \/ LedgerTick

Next ==
  \/ GrantNext
  \/ \E g \in Ids : TriggerGrantDispute(g)
  \/ \E amount \in Amounts : RescueNativeTokens(amount)
  \/ BreakerStep

Spec == Init /\ [][Next]_vars

(* Nobody operates a breaker. A breaker only ever disables steps of        *)
(* GrantNext, so with RENT_BUFFER = 0 every sequence of grant operations   *)
(* of Spec is one of UnhinderedSpec's, and the runs that ask about grants  *)
(* alone use it.                                                           *)
UnhinderedSpec == Init /\ [][GrantNext]_vars

(***************************************************************************)
(* Properties.                                                             *)
(***************************************************************************)

(* What the contract may still have to pay out for a grant.                *)
Owed(g) ==
  LET claims == grant[g].claimable + grant[g].validator_claimable
  IN  CASE InStatus(g, {"Active", "Paused"}) -> grant[g].total_amount - PaidOut(grant[g])
        [] InStatus(g, {"Completed", "Cancelled"}) -> claims
        [] InStatus(g, {"Clawbacked"}) -> claims + escrow[g]
        [] OTHER -> 0

Overshot(g) == Accounted(grant[g]) > grant[g].total_amount

(* A grantee's withdrawn and claimable amounts never exceed total_amount,  *)
(* whatever order settlements, rate changes, pauses and withdrawals come   *)
(* in: the cap of settle_grant is enough although withdraw does not check. *)
GranteeCapped ==
  \A g \in Ids : grant[g].withdrawn + grant[g].claimable <= grant[g].total_amount

(* While anything is claimable by the grantee, all four amounts together   *)
(* fit in total_amount: only a grant with nothing left for the grantee can *)
(* have promised the validator more than there is.                         *)
PromiseBacked ==
  \A g \in Ids : grant[g].claimable > 0 => ~Overshot(g)

(* A Completed grant has accounted for all of total_amount, and exactly    *)
(* that without a validator, so finalize_and_purge's last check can only   *)
(* refuse a grant whose validator side overshot.                           *)
CompletedFullyAccounted ==
  \A g \in Ids :
    InStatus(g, {"Completed"}) =>
      /\ Accounted(grant[g]) >= grant[g].total_amount
      /\ grant[g].validator = None => ~Overshot(g)

(* Completed, Cancelled and RageQuitted grants change status only by being *)
(* removed: no pause, resume, clawback or late settlement revives them.    *)
TerminalStatus ==
  [][\A g \in Ids :
       InStatus(g, {"Completed", "Cancelled", "RageQuitted"})
         => grant'[g].status \in {grant[g].status, "Absent"}]_vars

(* Funds accrue, to the grantee or the validator, only on a grant that was *)
(* Active and did not await a legal signature before the step.             *)
LegalGate ==
  [][\A g \in Ids :
       Stored(g) /\ Accounted(grant'[g]) > Accounted(grant[g])
         => InStatus(g, {"Active"}) /\ ~AwaitsSignature(grant[g])]_vars

(* GrantIds and RecipientGrants list every stored grant exactly once, the  *)
(* latter under its present recipient only, through grantee changes,       *)
(* removals and re-creations.                                              *)
IndexConsistent ==
  \A g \in Ids :
    /\ ids[g] = IF Stored(g) THEN 1 ELSE 0
    /\ \A r \in Recipients :
         recipientGrants[r][g] = IF Stored(g) /\ grant[g].recipient = r THEN 1 ELSE 0

(* Every payment for a grant is covered by a drop in what it is owed, so a *)
(* grant cannot draw on another's tokens. Excepted are what the code does  *)
(* otherwise: leaving Clawbacked or Cancelled by cancel_grant, returning   *)
(* an escrow to the grant, an escrow left by an earlier grant of that id,  *)
(* and a validator share beyond total_amount.                              *)
DebitsCovered ==
  [][\A g \in Ids :
       /\ InStatus(g, {"Active", "Paused", "Completed", "RageQuitted", "Clawbacked"})
       /\ InStatus(g, {"Clawbacked"}) => grant'[g].status \notin {"Cancelled", "Active"}
       /\ ~InStatus(g, {"Clawbacked"}) => escrow[g] = 0
       /\ ~Overshot(g)'
       => paid'[g] + Owed(g)' <= paid[g] + Owed(g)]_vars

(* rescue_tokens leaves at least what the grantees of all Active and       *)
(* Paused grants can claim.                                                *)
RescueKeepsClaimable ==
  [][balance' < balance /\ UNCHANGED paid
       => balance' >= SumFunction([g \in {h \in Ids : InStatus(h, {"Active", "Paused"})} |->
                                     grant[g].claimable])]_vars

(* The grants implement the breakers' specification: whatever sequence of  *)
(* grant operations runs, the breakers' storage only moves by the steps of *)
(* CircuitBreakers, so its properties hold of the whole contract.          *)
BreakersImplemented == CB!Spec

(* While any breaker is engaged, a grantee is paid only by rage_quit, that *)
(* passes none of them: no other entry point reaches withdraw's payment.   *)
BreakersStopGrantees ==
  [][~CB!WithdrawalsAllowed(breaker)
       => \A g \in Ids :
            Stored(g) /\ grant'[g].withdrawn > grant[g].withdrawn
              => grant'[g].status = "RageQuitted"]_vars

=============================================================================

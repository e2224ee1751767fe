----------------------------- MODULE Milestones -----------------------------
(***************************************************************************)
(* Milestone submissions of contracts/grant_stream/src/lib.rs and the      *)
(* contract's native balance: every submission pays a deposit into it, an  *)
(* approval refunds the deposit, a slash sends it to the treasury, and the *)
(* cleanup bounties and rescues are paid from the same balance.            *)
(*                                                                         *)
(* Of a grant only what these functions test is kept: whether it is stored *)
(* and whether it still takes submissions; GrantStream says when that      *)
(* changes. A deposit is always the same amount, so a stored one is just   *)
(* its key; the proof itself is never read back.                           *)
(***************************************************************************)
EXTENDS Naturals, FiniteSets

CONSTANTS
  Ids,                    \* grant ids
  Indices,                \* milestone indices a grantee may choose
  DEPOSIT,                \* 5 XLM in the code
  PURGE_BOUNTY,           \* 0.01 XLM in the code
  PRUNE_BOUNTY,           \* 0.02 XLM in the code
  RescueAmounts,          \* native amounts a rescue may take
  MaxXlm,                 \* bound: the contract's native balance
  MaxNonce,               \* bound: submissions between two prunings of an id
  MaxOwed,                \* bound: deposits of one key that are still owed
  MaxPrunings             \* bound: how often an id is pruned

ASSUME MilestonesAssumption ==
  /\ IsFiniteSet(Ids) /\ IsFiniteSet(Indices)
  /\ Indices \subseteq Nat
  /\ {DEPOSIT, PURGE_BOUNTY, PRUNE_BOUNTY, MaxXlm, MaxNonce, MaxOwed} \subseteq Nat
  /\ MaxPrunings \in Nat
  /\ RescueAmounts \subseteq Nat

VARIABLES
  stage,                  \* how far the grant's life is
  milestones,             \* indices i with a Milestone(id, i)
  deposits,               \* indices i with a MilestoneSubmissionDeposit(id, i)
  nonce,                  \* MilestoneSubmitNonce(id)
  xlm,                    \* the contract's native balance
  owed,                   \* auxiliary: deposits received for a key, not returned
  pruned,                 \* auxiliary: how often an id has been pruned
  short                   \* auxiliary: a bounty or rescue took from the deposits

submissions == <<milestones, deposits, nonce>>
history     == <<owed, pruned>>
vars        == <<stage, submissions, xlm, history, short>>

(* Running is Active or Paused, Finished is Completed or Cancelled.        *)
Stages == {"Absent", "Running", "Clawbacked", "Finished", "RageQuitted"}

TypeOK ==
  /\ stage \in [Ids -> Stages]
  /\ milestones \in [Ids -> SUBSET Indices]
  /\ deposits \in [Ids -> SUBSET Indices]
  /\ nonce \in [Ids -> 0..MaxNonce]
  /\ xlm \in 0..MaxXlm
  /\ owed \in [Ids -> [Indices -> Nat]]
  /\ pruned \in [Ids -> 0..MaxPrunings]
  /\ short \in BOOLEAN

Init ==
  /\ stage = [g \in Ids |-> "Absent"]
  /\ milestones = [g \in Ids |-> {}]
  /\ deposits = [g \in Ids |-> {}]
  /\ nonce = [g \in Ids |-> 0]
  /\ xlm \in 0..MaxXlm
  /\ owed = [g \in Ids |-> [i \in Indices |-> 0]]
  /\ pruned = [g \in Ids |-> 0]
  /\ short = FALSE

Stored(g) == stage[g] # "Absent"

DepositKeys == {key \in Ids \X Indices : key[2] \in deposits[key[1]]}

(* The native tokens that stored deposits stand for.                       *)
Deposited == DEPOSIT * Cardinality(DepositKeys)

(***************************************************************************)
(* The grant's life, as far as submissions depend on it: create_grant,     *)
(* clawback and the return of its escrow, and every ending.                *)
(***************************************************************************)

Moves ==
  { <<"Absent", "Running">>, <<"Running", "Clawbacked">>, <<"Clawbacked", "Running">>,
    <<"Running", "Finished">>, <<"Clawbacked", "Finished">>, <<"Running", "RageQuitted">> }

ChangeStage(g, next) ==
  /\ <<stage[g], next>> \in Moves
  /\ stage' = [stage EXCEPT ![g] = next]
  /\ UNCHANGED <<submissions, xlm, history, short>>

(***************************************************************************)
(* Submissions.                                                            *)
(***************************************************************************)

(* Mutant: the submission does not need the expected nonce, and a nonce    *)
(* that is given again does not count.                                     *)
SubmitWithNonce(g, i, given) ==
  /\ stage[g] \in {"Running", "Clawbacked"}
  /\ i \notin milestones[g]
  /\ xlm + DEPOSIT <= MaxXlm /\ nonce[g] < MaxNonce /\ owed[g][i] < MaxOwed
  /\ xlm' = xlm + DEPOSIT
  /\ milestones' = [milestones EXCEPT ![g] = @ \cup {i}]
  /\ deposits' = [deposits EXCEPT ![g] = @ \cup {i}]
  /\ nonce' = [nonce EXCEPT ![g] = given + 1]
  /\ owed' = [owed EXCEPT ![g][i] = @ + 1]
  /\ UNCHANGED <<stage, pruned, short>>

(* The deposit is stored whether or not one of an earlier grant is there.  *)
SubmitMilestoneProof(g, i, given) ==
  /\ stage[g] \in {"Running", "Clawbacked"}
  /\ i \notin milestones[g]
  /\ given = nonce[g]
  /\ xlm + DEPOSIT <= MaxXlm /\ given < MaxNonce /\ owed[g][i] < MaxOwed
  /\ xlm' = xlm + DEPOSIT
  /\ milestones' = [milestones EXCEPT ![g] = @ \cup {i}]
  /\ deposits' = [deposits EXCEPT ![g] = @ \cup {i}]
  /\ nonce' = [nonce EXCEPT ![g] = given + 1]
  /\ owed' = [owed EXCEPT ![g][i] = @ + 1]
  /\ UNCHANGED <<stage, pruned, short>>

(* Mutant: the deposit is paid and its key stays.                          *)
ReturnDepositKeepingKey(g, i) ==
  /\ i \in deposits[g]
  /\ xlm >= DEPOSIT
  /\ xlm' = xlm - DEPOSIT
  /\ deposits' = deposits
  /\ owed' = [owed EXCEPT ![g][i] = IF @ > 0 THEN @ - 1 ELSE 0]

(* The transfer and the removal that an approval and a slash share.        *)
ReturnDeposit(g, i) ==
  /\ i \in deposits[g]
  /\ xlm >= DEPOSIT
  /\ xlm' = xlm - DEPOSIT
  /\ deposits' = [deposits EXCEPT ![g] = @ \ {i}]
  /\ owed' = [owed EXCEPT ![g][i] = IF @ > 0 THEN @ - 1 ELSE 0]

(* The refund needs a stored grant: it goes to that grant's grantee, who   *)
(* need not be the one that paid.                                          *)
ApproveMilestoneSubmission(g, i) ==
  /\ Stored(g)
  /\ ReturnDeposit(g, i)
  /\ UNCHANGED <<stage, milestones, nonce, pruned, short>>

SlashSubmissionDeposit(g, i) ==
  /\ ReturnDeposit(g, i)
  /\ UNCHANGED <<stage, milestones, nonce, pruned, short>>

(***************************************************************************)
(* What else takes from the native balance.                                *)
(***************************************************************************)

Take(amount) ==
  /\ amount <= xlm
  /\ xlm' = xlm - amount
  /\ short' = (short \/ xlm - amount < Deposited)

TakeBounty(bounty) == Take(IF xlm >= bounty THEN bounty ELSE 0)

(* Both cleanups settle the grant first, which may be what completes it.   *)
Remove(g) ==
  /\ stage[g] \in {"Running", "Clawbacked", "Finished"}
  /\ stage' = [stage EXCEPT ![g] = "Absent"]

(* Mutant: the purge drops the milestones and forgets their deposits.      *)
PurgeMilestonesToo(g) ==
  /\ Remove(g)
  /\ TakeBounty(PURGE_BOUNTY)
  /\ milestones' = [milestones EXCEPT ![g] = {}]
  /\ UNCHANGED <<deposits, nonce, history>>

(* finalize_and_purge keeps milestones, deposits and the nonce.            *)
FinalizeAndPurge(g) ==
  /\ Remove(g)
  /\ TakeBounty(PURGE_BOUNTY)
  /\ UNCHANGED <<submissions, history>>

(* prune_finalized_grant removes the milestones whose index is below the   *)
(* nonce, and the nonce; the deposits stay.                                *)
PruneFinalizedGrant(g) ==
  /\ Remove(g)
  /\ TakeBounty(PRUNE_BOUNTY)
  /\ milestones' = [milestones EXCEPT ![g] = {i \in @ : i >= nonce[g]}]
  /\ nonce' = [nonce EXCEPT ![g] = 0]
  /\ pruned[g] < MaxPrunings
  /\ pruned' = [pruned EXCEPT ![g] = @ + 1]
  /\ UNCHANGED <<deposits, owed>>

(* rescue_tokens of the native token: nothing native counts as allocated.  *)
RescueNativeTokens(amount) ==
  /\ Take(amount)
  /\ UNCHANGED <<stage, submissions, history>>

(* Anyone may send native tokens to the contract.                          *)
ReceiveNative ==
  /\ xlm < MaxXlm
  /\ xlm' = xlm + 1
  /\ UNCHANGED <<stage, submissions, history, short>>

SubmissionNext ==
  \E g \in Ids, i \in Indices :
    \/ \E given \in 0..MaxNonce : SubmitMilestoneProof(g, i, given)
    \/ ApproveMilestoneSubmission(g, i)
    \/ SlashSubmissionDeposit(g, i)

GrantNext ==
  \E g \in Ids :
    \/ \E next \in Stages : ChangeStage(g, next)
    \/ FinalizeAndPurge(g)
    \/ PruneFinalizedGrant(g)

Next ==
  \/ SubmissionNext
  \/ GrantNext
  \/ \E amount \in RescueAmounts : RescueNativeTokens(amount)
  \/ ReceiveNative

Spec == Init /\ [][Next]_vars

(***************************************************************************)
(* Properties.                                                             *)
(***************************************************************************)

Kept(g, i) == IF i \in deposits[g] THEN 1 ELSE 0

(* A deposit is returned at most once, and each pruning of its id loses at *)
(* most one deposit of a milestone index: prune_finalized_grant forgets    *)
(* the milestone and not its deposit, which the next proof for that index  *)
(* overwrites. Nothing else loses one, in particular no purge and no       *)
(* re-creation of a grant.                                                 *)
DepositsAccounted ==
  \A g \in Ids, i \in Indices :
    Kept(g, i) <= owed[g][i] /\ owed[g][i] <= Kept(g, i) + pruned[g]

(* Every stored deposit can be paid, unless a bounty or a rescue took from *)
(* what the deposits had put into the native balance.                      *)
DepositsFunded == short \/ xlm >= Deposited

(* The expected nonce counts the milestones accepted for an id since it    *)
(* was last pruned, each index once: no proof is accepted a second time.   *)
NonceCountsProofs ==
  \A g \in Ids : pruned[g] = 0 => nonce[g] = Cardinality(milestones[g])

=============================================================================

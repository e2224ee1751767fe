-------------------------- MODULE NativeFundsProofs -------------------------
(***************************************************************************)
(* Theorems about NativeFunds: the milestone deposits and the rescue       *)
(* proposals that share the contract's native balance.                     *)
(***************************************************************************)
EXTENDS NativeFunds, FiniteSetTheorems, TLAPS

(***************************************************************************)
(* Steps of the composition seen from each side.                           *)
(***************************************************************************)

(* To the multisig, a step is one of its own.                              *)
LEMMA MultisigStepped == [NNext]_nvars => [RM!Next]_multisig
<1> SUFFICES ASSUME NNext
             PROVE  [RM!Next]_multisig
  BY DEF nvars
<1>1. CASE RM!GovernanceNext
  BY <1>1 DEF RM!Next
<1>2. ASSUME NEW a \in Addresses, NEW id \in RM!ProposalIds, RM!ExecuteRescue(a, id)
      PROVE  RM!Next
  BY <1>2 DEF RM!Next
<1> QED
  BY <1>1, <1>2 DEF NNext, RescueNext, ExecuteNativeRescue, ExecuteOtherRescue

(* To the milestones, it is one of their own or a rescue of some amount.   *)
LEMMA MilestonesStepped ==
  ASSUME RM!TypeOK, [NNext]_nvars
  PROVE  [Next]_vars \/ \E amount \in Nat : RescueNativeTokens(amount)
<1>1. ASSUME NEW a \in Addresses, NEW id \in RM!ProposalIds, ExecuteNativeRescue(a, id)
      PROVE  \E amount \in Nat : RescueNativeTokens(amount)
  <2>1. proposal[id].amount \in Nat
    BY DEF RM!TypeOK, RM!RescueProposal
  <2>2. RescueNativeTokens(proposal[id].amount)
    BY <1>1 DEF ExecuteNativeRescue, RescueNativeTokens
  <2> QED
    BY <2>1, <2>2
<1>2. ASSUME NEW a \in Addresses, NEW id \in RM!ProposalIds, ExecuteOtherRescue(a, id)
      PROVE  UNCHANGED vars
  BY <1>2 DEF ExecuteOtherRescue
<1>3. CASE UNCHANGED nvars
  BY <1>3 DEF nvars
<1> QED
  BY <1>1, <1>2, <1>3 DEF NNext, RescueNext

(***************************************************************************)
(* The milestones.                                                         *)
(***************************************************************************)

LEMMA MilestonesInit ==
  ASSUME Init
  PROVE  TypeOK
<1>1. MaxNonce \in Nat
  BY MilestonesAssumption
<1>2. 0 \in 0..MaxNonce
  BY <1>1
<1>3. nonce \in [Ids -> 0..MaxNonce]
  BY <1>2 DEF Init
<1>4. stage \in [Ids -> Stages]
  BY DEF Init, Stages
<1>5. owed \in [Ids -> [Indices -> Nat]]
  BY DEF Init
<1>6. pruned \in [Ids -> 0..MaxPrunings]
  BY MilestonesAssumption DEF Init
<1> QED
  BY <1>3, <1>4, <1>5, <1>6 DEF Init, TypeOK

LEMMA MilestonesTyped ==
  ASSUME TypeOK,
         [Next]_vars \/ \E amount \in Nat : RescueNativeTokens(amount)
  PROVE  TypeOK'
<1> USE MilestonesAssumption
<1>1. ASSUME NEW g \in Ids, NEW next \in Stages, ChangeStage(g, next)
      PROVE  TypeOK'
  BY <1>1 DEF TypeOK, ChangeStage, submissions, history
<1>2. ASSUME NEW g \in Ids, NEW i \in Indices, NEW given \in 0..MaxNonce,
             SubmitMilestoneProof(g, i, given)
      PROVE  TypeOK'
  <2>1. xlm' \in 0..MaxXlm /\ nonce' \in [Ids -> 0..MaxNonce]
    BY <1>2 DEF TypeOK, SubmitMilestoneProof
  <2>2. owed' \in [Ids -> [Indices -> Nat]]
    BY <1>2 DEF TypeOK, SubmitMilestoneProof
  <2> QED
    BY <1>2, <2>1, <2>2 DEF TypeOK, SubmitMilestoneProof
<1>3. ASSUME NEW g \in Ids, NEW i \in Indices, ReturnDeposit(g, i),
             UNCHANGED <<stage, milestones, nonce, pruned, short>>
      PROVE  TypeOK'
  <2>1. xlm' \in 0..MaxXlm
    BY <1>3 DEF TypeOK, ReturnDeposit
  <2>2. owed' \in [Ids -> [Indices -> Nat]]
    BY <1>3 DEF TypeOK, ReturnDeposit
  <2> QED
    BY <1>3, <2>1, <2>2 DEF TypeOK, ReturnDeposit
<1>4. ASSUME NEW amount \in Nat, Take(amount)
      PROVE  xlm' \in 0..MaxXlm /\ short' \in BOOLEAN
  BY <1>4 DEF TypeOK, Take
<1>5. ASSUME NEW bounty \in Nat, TakeBounty(bounty)
      PROVE  xlm' \in 0..MaxXlm /\ short' \in BOOLEAN
  <2>1. PICK amount \in Nat : Take(amount)
    BY <1>5 DEF TakeBounty
  <2> QED
    BY <2>1, <1>4
<1>6. ASSUME NEW g \in Ids, FinalizeAndPurge(g) \/ PruneFinalizedGrant(g)
      PROVE  TypeOK'
  <2>1. xlm' \in 0..MaxXlm /\ short' \in BOOLEAN
    BY <1>5, <1>6 DEF FinalizeAndPurge, PruneFinalizedGrant
  <2>2. stage' \in [Ids -> Stages]
    BY <1>6 DEF TypeOK, Stages, Remove, FinalizeAndPurge, PruneFinalizedGrant
  <2>3. CASE FinalizeAndPurge(g)
    BY <2>1, <2>2, <2>3 DEF TypeOK, FinalizeAndPurge, submissions, history
  <2>4. CASE PruneFinalizedGrant(g)
    <3>1. nonce' \in [Ids -> 0..MaxNonce]
      BY <2>4 DEF TypeOK, PruneFinalizedGrant
    <3>2. milestones' \in [Ids -> SUBSET Indices]
      BY <2>4 DEF TypeOK, PruneFinalizedGrant
    <3>3. pruned' \in [Ids -> 0..MaxPrunings]
      BY <2>4 DEF TypeOK, PruneFinalizedGrant
    <3> QED
      BY <2>1, <2>2, <2>4, <3>1, <3>2, <3>3 DEF TypeOK, PruneFinalizedGrant
  <2> QED
    BY <1>6, <2>3, <2>4
<1>7. ASSUME NEW amount \in Nat, RescueNativeTokens(amount)
      PROVE  TypeOK'
  BY <1>4, <1>7 DEF TypeOK, RescueNativeTokens, submissions, history
<1>8. CASE ReceiveNative
  BY <1>8 DEF TypeOK, ReceiveNative, submissions, history
<1>9. CASE UNCHANGED vars
  BY <1>9 DEF TypeOK, vars, submissions, history
<1> QED
  BY <1>1, <1>2, <1>3, <1>6, <1>7, <1>8, <1>9
  DEF Next, SubmissionNext, GrantNext, ApproveMilestoneSubmission, SlashSubmissionDeposit

(* A stored deposit whose milestone is not stored was left by a pruning    *)
(* that has not lost it yet: the next submission of its index will.        *)
Exposed(g, i) == IF i \in deposits[g] /\ i \notin milestones[g] THEN 1 ELSE 0

LossesCounted ==
  \A g \in Ids, i \in Indices :
    /\ Kept(g, i) <= owed[g][i]
    /\ owed[g][i] + Exposed(g, i) <= Kept(g, i) + pruned[g]

LEMMA MilestonesFinite ==
  ASSUME TypeOK, NEW g \in Ids
  PROVE  /\ IsFiniteSet(milestones[g]) /\ Cardinality(milestones[g]) \in Nat
         /\ IsFiniteSet(DepositKeys) /\ Cardinality(DepositKeys) \in Nat
<1>1. IsFiniteSet(milestones[g])
  BY MilestonesAssumption, FS_Subset DEF TypeOK
<1>2. IsFiniteSet(Ids \X Indices)
  BY MilestonesAssumption, FS_Product
<1>3. IsFiniteSet(DepositKeys)
  BY <1>2, FS_Subset DEF DepositKeys
<1> QED
  BY <1>1, <1>3, FS_CardinalityType

(***************************************************************************)
(* The milestone invariant and its preservation, one lemma per part.       *)
(***************************************************************************)

MilestonesInv ==
  /\ TypeOK
  /\ LossesCounted
  /\ NonceCountsProofs
  /\ DepositsFunded

(* A step of the milestones or a rescue of any amount.                     *)
MilestonesStep == [Next]_vars \/ \E amount \in Nat : RescueNativeTokens(amount)

(* Every other step leaves the submissions and their history alone.        *)
LEMMA SubmissionSteps ==
  ASSUME MilestonesStep
  PROVE  \/ \E g \in Ids, i \in Indices, given \in 0..MaxNonce :
              SubmitMilestoneProof(g, i, given)
         \/ \E g \in Ids, i \in Indices :
              ReturnDeposit(g, i) /\ UNCHANGED <<stage, milestones, nonce, pruned, short>>
         \/ \E g \in Ids : PruneFinalizedGrant(g)
         \/ UNCHANGED <<submissions, history>>
BY DEF MilestonesStep, Next, vars, SubmissionNext, GrantNext, ChangeStage,
       ApproveMilestoneSubmission, SlashSubmissionDeposit, FinalizeAndPurge,
       RescueNativeTokens, ReceiveNative

LEMMA LossesPreserved ==
  ASSUME TypeOK, LossesCounted, MilestonesStep
  PROVE  LossesCounted'
<1> DEFINE Counted(h, j) ==
             /\ Kept(h, j) <= owed[h][j]
             /\ owed[h][j] + Exposed(h, j) <= Kept(h, j) + pruned[h]
<1> USE DEF Kept, Exposed
<1>0. \A h \in Ids, j \in Indices :
        owed[h][j] \in Nat /\ pruned[h] \in Nat /\ Counted(h, j)
  BY DEF TypeOK, LossesCounted
<1>1. ASSUME NEW g \in Ids, NEW i \in Indices, NEW given \in 0..MaxNonce,
             SubmitMilestoneProof(g, i, given), NEW h \in Ids, NEW j \in Indices
      PROVE  Counted(h, j)'
  <2>1. CASE h = g /\ j = i
    <3>1. /\ i \notin milestones[g] /\ i \in milestones'[g] /\ i \in deposits'[g]
          /\ owed'[g][i] = owed[g][i] + 1 /\ pruned' = pruned
      BY <1>1 DEF TypeOK, SubmitMilestoneProof
    <3>2. CASE i \in deposits[g]
      <4>1. 1 <= owed[g][i] /\ owed[g][i] + 1 <= 1 + pruned[g]
        BY <1>0, <3>1, <3>2
      <4> QED
        BY <1>0, <2>1, <3>1, <4>1
    <3>3. CASE i \notin deposits[g]
      <4>1. owed[g][i] + 0 <= 0 + pruned[g]
        BY <1>0, <3>3
      <4> QED
        BY <1>0, <2>1, <3>1, <4>1
    <3> QED
      BY <3>2, <3>3
  <2>2. CASE ~ (h = g /\ j = i)
    <3>1. /\ owed'[h][j] = owed[h][j] /\ pruned' = pruned
          /\ j \in deposits'[h] <=> j \in deposits[h]
          /\ j \in milestones'[h] <=> j \in milestones[h]
      BY <1>1, <2>2 DEF TypeOK, SubmitMilestoneProof
    <3> QED
      BY <1>0, <3>1
  <2> QED
    BY <2>1, <2>2
<1>2. ASSUME NEW g \in Ids, NEW i \in Indices, ReturnDeposit(g, i),
             UNCHANGED <<stage, milestones, nonce, pruned, short>>,
             NEW h \in Ids, NEW j \in Indices
      PROVE  Counted(h, j)'
  <2>1. CASE h = g /\ j = i
    <3>1. i \in deposits[g] /\ i \notin deposits'[g]
          /\ owed'[g][i] = IF owed[g][i] > 0 THEN owed[g][i] - 1 ELSE 0
      BY <1>2 DEF TypeOK, ReturnDeposit
    <3>2. 1 <= owed[g][i] /\ owed[g][i] <= 1 + pruned[g]
      BY <1>0, <3>1
    <3> QED
      BY <1>0, <1>2, <2>1, <3>1, <3>2
  <2>2. CASE ~ (h = g /\ j = i)
    <3>1. owed'[h][j] = owed[h][j] /\ (j \in deposits'[h] <=> j \in deposits[h])
      BY <1>2, <2>2 DEF TypeOK, ReturnDeposit
    <3> QED
      BY <1>0, <1>2, <3>1
  <2> QED
    BY <2>1, <2>2
<1>3. ASSUME NEW g \in Ids, PruneFinalizedGrant(g), NEW h \in Ids, NEW j \in Indices
      PROVE  Counted(h, j)'
  <2>1. owed' = owed /\ deposits' = deposits
    BY <1>3 DEF PruneFinalizedGrant
  <2>2. CASE h = g
    <3>1. pruned'[h] = pruned[h] + 1
      BY <1>3, <2>2 DEF TypeOK, PruneFinalizedGrant
    <3>2. owed[h][j] + 1 <= Kept(h, j) + (pruned[h] + 1)
      BY <1>0
    <3> QED
      BY <1>0, <2>1, <3>1, <3>2
  <2>3. CASE h # g
    <3>1. pruned'[h] = pruned[h] /\ milestones'[h] = milestones[h]
      BY <1>3, <2>3 DEF TypeOK, PruneFinalizedGrant
    <3> QED
      BY <1>0, <2>1, <3>1
  <2> QED
    BY <2>2, <2>3
<1>4. CASE UNCHANGED <<submissions, history>>
  BY <1>4 DEF LossesCounted, submissions, history
<1> QED
  BY <1>1, <1>2, <1>3, <1>4, SubmissionSteps DEF LossesCounted

LEMMA NoncePreserved ==
  ASSUME TypeOK, NonceCountsProofs, MilestonesStep
  PROVE  NonceCountsProofs'
<1>1. ASSUME NEW g \in Ids, NEW i \in Indices, NEW given \in 0..MaxNonce,
             SubmitMilestoneProof(g, i, given), NEW h \in Ids, pruned'[h] = 0
      PROVE  nonce'[h] = Cardinality(milestones'[h])
  <2>1. pruned' = pruned
    BY <1>1 DEF SubmitMilestoneProof
  <2>2. nonce[h] = Cardinality(milestones[h])
    BY <1>1, <2>1 DEF NonceCountsProofs
  <2>3. CASE h = g
    <3>1. milestones'[g] = milestones[g] \cup {i} /\ i \notin milestones[g]
          /\ nonce'[g] = nonce[g] + 1
      BY <1>1 DEF TypeOK, SubmitMilestoneProof
    <3>2. Cardinality(milestones'[g]) = Cardinality(milestones[g]) + 1
      BY <3>1, MilestonesFinite, FS_AddElement
    <3> QED
      BY <2>2, <2>3, <3>1, <3>2
  <2>4. CASE h # g
    BY <1>1, <2>2, <2>4 DEF TypeOK, SubmitMilestoneProof
  <2> QED
    BY <2>3, <2>4
<1>2. ASSUME NEW g \in Ids, NEW i \in Indices, ReturnDeposit(g, i),
             UNCHANGED <<stage, milestones, nonce, pruned, short>>
      PROVE  NonceCountsProofs'
  BY <1>2 DEF NonceCountsProofs
<1>3. ASSUME NEW g \in Ids, PruneFinalizedGrant(g), NEW h \in Ids, pruned'[h] = 0
      PROVE  nonce'[h] = Cardinality(milestones'[h])
  <2>1. h # g
    <3>1. pruned'[g] = pruned[g] + 1 /\ pruned[g] \in Nat
      BY <1>3 DEF TypeOK, PruneFinalizedGrant
    <3> QED
      BY <1>3, <3>1
  <2> QED
    BY <1>3, <2>1 DEF TypeOK, NonceCountsProofs, PruneFinalizedGrant
<1>4. CASE UNCHANGED <<submissions, history>>
  BY <1>4 DEF NonceCountsProofs, submissions, history
<1> QED
  BY <1>1, <1>2, <1>3, <1>4, SubmissionSteps DEF NonceCountsProofs

LEMMA TimesSuccessor ==
  ASSUME NEW d \in Nat, NEW n \in Nat
  PROVE  d * (n + 1) = d * n + d /\ d * n \in Nat
OBVIOUS

LEMMA DepositedType ==
  ASSUME TypeOK
  PROVE  Deposited \in Nat
<1>1. Ids = {} \/ Cardinality(DepositKeys) \in Nat
  BY MilestonesFinite
<1>2. Ids = {} => Cardinality(DepositKeys) = 0
  BY FS_EmptySet DEF DepositKeys
<1>3. DEPOSIT \in Nat
  BY MilestonesAssumption
<1> QED
  BY <1>1, <1>2, <1>3, TimesSuccessor DEF Deposited

LEMMA StaysEnough ==
  ASSUME NEW d \in Nat, NEW held \in Nat, NEW due \in Nat, held >= due + d
  PROVE  held - d >= due
OBVIOUS

(* Taking from the balance, whether a bounty or a rescue, tells in short.  *)
LEMMA TakeTells ==
  ASSUME TypeOK, DepositsFunded, NEW amount \in Nat, Take(amount), deposits' = deposits
  PROVE  DepositsFunded'
<1>1. Deposited' = Deposited
  BY DEF Deposited, DepositKeys
<1>2. xlm' = xlm - amount /\ xlm \in Nat /\ Deposited \in Nat
  BY DepositedType DEF TypeOK, Take
<1>3. CASE xlm - amount < Deposited
  BY <1>3 DEF Take, DepositsFunded
<1>4. CASE ~ (xlm - amount < Deposited)
  BY <1>1, <1>2, <1>4 DEF DepositsFunded
<1> QED
  BY <1>3, <1>4

LEMMA FundedPreserved ==
  ASSUME TypeOK, DepositsFunded, MilestonesStep
  PROVE  DepositsFunded'
<1> DEPOSIT \in Nat /\ {PURGE_BOUNTY, PRUNE_BOUNTY} \subseteq Nat /\ RescueAmounts \subseteq Nat
  BY MilestonesAssumption
<1>1. ASSUME NEW g \in Ids, NEW i \in Indices, NEW given \in 0..MaxNonce,
             SubmitMilestoneProof(g, i, given)
      PROVE  DepositsFunded'
  <2> DEFINE n == Cardinality(DepositKeys)
  <2>1. DepositKeys' = DepositKeys \cup {<<g, i>>}
    BY <1>1 DEF TypeOK, SubmitMilestoneProof, DepositKeys
  <2>2. n \in Nat /\ Cardinality(DepositKeys') \in {n, n + 1}
    BY <2>1, MilestonesFinite, FS_AddElement
  <2>3. DEPOSIT * (n + 1) = DEPOSIT * n + DEPOSIT /\ DEPOSIT * n \in Nat
    BY <2>2, TimesSuccessor
  <2>4. Deposited' \in {Deposited, Deposited + DEPOSIT} /\ Deposited \in Nat
    BY <2>2, <2>3 DEF Deposited
  <2>5. xlm \in Nat /\ xlm' = xlm + DEPOSIT /\ short' = short
    BY <1>1 DEF TypeOK, SubmitMilestoneProof
  <2> QED
    BY <2>4, <2>5 DEF DepositsFunded
<1>2. ASSUME NEW g \in Ids, NEW i \in Indices, ReturnDeposit(g, i),
             UNCHANGED <<stage, milestones, nonce, pruned, short>>
      PROVE  DepositsFunded'
  <2> DEFINE n == Cardinality(DepositKeys')
  <2>1. DepositKeys' = DepositKeys \ {<<g, i>>} /\ <<g, i>> \in DepositKeys
    BY <1>2 DEF TypeOK, ReturnDeposit, DepositKeys
  <2>2. n \in Nat /\ Cardinality(DepositKeys) = n + 1
    <3>1. IsFiniteSet(DepositKeys) /\ Cardinality(DepositKeys) \in Nat
      BY MilestonesFinite
    <3>2. n = Cardinality(DepositKeys) - 1 /\ IsFiniteSet(DepositKeys')
      BY <2>1, <3>1, FS_RemoveElement
    <3>3. n \in Nat
      BY <3>2, FS_CardinalityType
    <3> QED
      BY <3>1, <3>2, <3>3
  <2>3. DEPOSIT * (n + 1) = DEPOSIT * n + DEPOSIT /\ DEPOSIT * n \in Nat
    BY <2>2, TimesSuccessor
  <2>4. Deposited = Deposited' + DEPOSIT /\ Deposited' \in Nat
    BY <2>2, <2>3 DEF Deposited
  <2>5. xlm \in Nat /\ xlm' = xlm - DEPOSIT /\ short' = short
    BY <1>2 DEF TypeOK, ReturnDeposit
  <2>6. xlm >= Deposited => xlm' >= Deposited'
    BY <2>4, <2>5, StaysEnough
  <2> QED
    BY <2>5, <2>6 DEF DepositsFunded
<1>3. ASSUME NEW g \in Ids, FinalizeAndPurge(g) \/ PruneFinalizedGrant(g)
      PROVE  DepositsFunded'
  <2>1. PICK amount \in Nat : Take(amount)
    BY <1>3 DEF FinalizeAndPurge, PruneFinalizedGrant, TakeBounty
  <2>2. deposits' = deposits
    BY <1>3 DEF FinalizeAndPurge, PruneFinalizedGrant, submissions
  <2> QED
    BY <2>1, <2>2, TakeTells
<1>4. ASSUME NEW amount \in Nat, RescueNativeTokens(amount)
      PROVE  DepositsFunded'
  BY <1>4, TakeTells DEF RescueNativeTokens, submissions
<1>5. ASSUME deposits' = deposits, short' = short, xlm' \in {xlm, xlm + 1}
      PROVE  DepositsFunded'
  <2>1. Deposited' = Deposited
    BY <1>5 DEF Deposited, DepositKeys
  <2>2. Deposited \in Nat
    BY DepositedType
  <2> QED
    BY <1>5, <2>1, <2>2 DEF TypeOK, DepositsFunded
<1>6. CASE ReceiveNative \/ UNCHANGED vars \/ \E g \in Ids, next \in Stages : ChangeStage(g, next)
  BY <1>5, <1>6 DEF ReceiveNative, vars, submissions, ChangeStage
<1> QED
  BY <1>1, <1>2, <1>3, <1>4, <1>6
  DEF MilestonesStep, Next, SubmissionNext, GrantNext, ApproveMilestoneSubmission,
      SlashSubmissionDeposit

LEMMA MilestonesInvariant ==
  /\ Init => MilestonesInv
  /\ MilestonesInv /\ MilestonesStep => MilestonesInv'
<1>1. ASSUME Init PROVE MilestonesInv
  <2>1. TypeOK
    BY <1>1, MilestonesInit
  <2>2. LossesCounted
    BY <1>1 DEF Init, LossesCounted, Kept, Exposed
  <2>3. NonceCountsProofs
    BY <1>1, FS_EmptySet DEF Init, NonceCountsProofs
  <2>4. DepositKeys = {}
    BY <1>1 DEF Init, DepositKeys
  <2>5. Deposited = 0
    BY <2>4, FS_EmptySet, MilestonesAssumption DEF Deposited
  <2>6. DepositsFunded
    BY <2>1, <2>5 DEF TypeOK, DepositsFunded
  <2> QED
    BY <2>1, <2>2, <2>3, <2>6 DEF MilestonesInv
<1>2. ASSUME MilestonesInv, MilestonesStep PROVE MilestonesInv'
  <2>1. TypeOK'
    BY <1>2, MilestonesTyped DEF MilestonesInv, MilestonesStep
  <2> QED
    BY <1>2, <2>1, LossesPreserved, NoncePreserved, FundedPreserved
    DEF MilestonesInv
<1> QED
  BY <1>1, <1>2

(***************************************************************************)
(* The rescue proposals.                                                   *)
(***************************************************************************)

(* What a proposal's record and its payments say of each other.            *)
Settled(id) ==
  /\ payments[id] = IF proposal[id].status = "Executed" THEN 1 ELSE 0
  /\ proposal[id].status = "Executed" =>
       proposal[id].length >= RM!Threshold(proposal[id].kind)

(* The vector of approvals has no address twice.                           *)
Counted(id) ==
  /\ IsFiniteSet(proposal[id].approvals)
  /\ proposal[id].length = Cardinality(proposal[id].approvals)

MultisigInv ==
  /\ RM!TypeOK
  /\ \A id \in RM!ProposalIds : Settled(id) /\ Counted(id)
  /\ \A id \in RM!ProposalIds : id > counter => proposal[id].status = "Absent"
  /\ RM!ApprovalsBySigners

LEMMA MultisigTyped ==
  ASSUME RM!TypeOK, [RM!Next]_multisig
  PROVE  RM!TypeOK'
<1>1. ASSUME NEW vector \in SignerVectors, RM!InitializeSigners(vector)
      PROVE  RM!TypeOK'
  BY <1>1 DEF RM!TypeOK, RM!InitializeSigners
<1>2. ASSUME NEW a \in Addresses, NEW kind \in RM!RescueKind, NEW amount \in RescueAmounts,
             RM!ProposeRescue(a, kind, amount)
      PROVE  RM!TypeOK'
  <2>1. counter + 1 \in RM!ProposalIds /\ counter' = counter + 1
    BY <1>2 DEF RM!ProposeRescue
  <2>2. counter' \in 0..MaxProposals
    BY <2>1 DEF RM!ProposalIds
  <2>3. amount \in Nat
    BY MilestonesAssumption
  <2>4. proposal' \in [RM!ProposalIds -> RM!RescueProposal]
    BY <1>2, <2>1, <2>3 DEF RM!TypeOK, RM!ProposeRescue, RM!RescueProposal, RM!RescueKind
  <2> QED
    BY <1>2, <2>1, <2>2, <2>4 DEF RM!TypeOK, RM!ProposeRescue
<1>3. ASSUME NEW a \in Addresses, NEW id \in RM!ProposalIds, RM!ApproveRescue(a, id)
      PROVE  RM!TypeOK'
  BY <1>3 DEF RM!TypeOK, RM!ApproveRescue, RM!RescueProposal
<1>4. ASSUME NEW id \in RM!ProposalIds, NEW status \in {"Executed", "Cancelled"},
             RM!SetStatus(id, status)
      PROVE  proposal' \in [RM!ProposalIds -> RM!RescueProposal]
  BY <1>4 DEF RM!TypeOK, RM!SetStatus, RM!RescueProposal
<1>5. ASSUME NEW a \in Addresses, NEW id \in RM!ProposalIds, RM!CancelRescue(a, id)
      PROVE  RM!TypeOK'
  BY <1>4, <1>5 DEF RM!TypeOK, RM!CancelRescue
<1>6. ASSUME NEW a \in Addresses, NEW id \in RM!ProposalIds, RM!ExecuteRescue(a, id)
      PROVE  RM!TypeOK'
  BY <1>4, <1>6 DEF RM!TypeOK, RM!ExecuteRescue
<1>7. CASE UNCHANGED multisig
  BY <1>7 DEF RM!TypeOK, multisig
<1> QED
  BY <1>1, <1>2, <1>3, <1>5, <1>6, <1>7 DEF RM!Next, RM!GovernanceNext

LEMMA MultisigPreserved ==
  ASSUME MultisigInv, [RM!Next]_multisig
  PROVE  MultisigInv'
<1> USE DEF RM!ApprovalsBySigners
<1>0. RM!TypeOK /\ RM!TypeOK'
  BY MultisigTyped DEF MultisigInv
<1>1. ASSUME NEW vector \in SignerVectors, RM!InitializeSigners(vector)
      PROVE  MultisigInv'
  BY <1>0, <1>1 DEF MultisigInv, RM!InitializeSigners, Settled, Counted
<1>2. ASSUME NEW a \in Addresses, NEW kind \in RM!RescueKind, NEW amount \in RescueAmounts,
             RM!ProposeRescue(a, kind, amount)
      PROVE  MultisigInv'
  <2>0. PICK new \in Nat : new = counter + 1
    BY <1>0 DEF RM!TypeOK
  <2>1. new \in RM!ProposalIds /\ counter' = new /\ counter \in Nat /\ a \in RM!Signers
    BY <1>0, <1>2, <2>0 DEF RM!ProposeRescue, RM!TypeOK
  <2>2. proposal'[new] = [ kind |-> kind, proposer |-> a, amount |-> amount,
                           approvals |-> {a}, length |-> 1, status |-> "Pending" ]
    BY <1>0, <1>2, <2>0, <2>1 DEF RM!ProposeRescue, RM!TypeOK
  <2>3. \A id \in RM!ProposalIds : id # new => proposal'[id] = proposal[id]
    BY <1>0, <1>2, <2>0 DEF RM!ProposeRescue, RM!TypeOK
  <2>4. payments' = payments /\ signers' = signers /\ undisturbed' = undisturbed \cup {new}
    BY <1>2, <2>0 DEF RM!ProposeRescue
  <2>5. proposal[new].status = "Absent"
    BY <2>0, <2>1 DEF MultisigInv
  <2>6. payments[new] = 0
    BY <2>1, <2>5 DEF MultisigInv, Settled
  <2>7. \A id \in RM!ProposalIds : Settled(id)'
    BY <2>2, <2>3, <2>4, <2>6 DEF MultisigInv, Settled, RM!Threshold
  <2>8. \A id \in RM!ProposalIds : Counted(id)'
    <3>1. Counted(new)'
      <4>1. IsFiniteSet({a}) /\ Cardinality({a}) = 1
        BY FS_Singleton
      <4>2. proposal'[new].approvals = {a} /\ proposal'[new].length = 1
        BY <2>2
      <4> QED
        BY <4>1, <4>2 DEF Counted
    <3>2. ASSUME NEW id \in RM!ProposalIds, id # new PROVE Counted(id)'
      BY <2>3, <3>2 DEF MultisigInv, Counted
    <3> QED
      BY <3>1, <3>2
  <2>9. \A id \in RM!ProposalIds : id > counter' => proposal'[id].status = "Absent"
    BY <2>0, <2>1, <2>3 DEF MultisigInv, RM!ProposalIds
  <2>10. RM!Signers' = RM!Signers
    BY <2>4 DEF RM!Signers
  <2>11. RM!ApprovalsBySigners'
    <3> SUFFICES ASSUME NEW id \in undisturbed'
                 PROVE  proposal'[id].approvals \subseteq RM!Signers
      BY <2>10
    <3>1. CASE id = new
      BY <2>1, <2>2, <3>1
    <3>2. CASE id # new
      <4>1. id \in undisturbed /\ id \in RM!ProposalIds
        BY <1>0, <2>4, <3>2 DEF RM!TypeOK
      <4> QED
        BY <2>3, <3>2, <4>1 DEF MultisigInv
    <3> QED
      BY <3>1, <3>2
  <2> QED
    BY <1>0, <2>7, <2>8, <2>9, <2>11 DEF MultisigInv
<1>3. ASSUME NEW a \in Addresses, NEW id \in RM!ProposalIds, RM!ApproveRescue(a, id)
      PROVE  MultisigInv'
  <2>1. /\ proposal[id].status = "Pending"
        /\ proposal'[id].approvals = proposal[id].approvals \cup {a}
        /\ proposal'[id].length = proposal[id].length + 1
        /\ proposal'[id].status = proposal[id].status
    BY <1>0, <1>3 DEF RM!ApproveRescue, RM!Pending, RM!TypeOK, RM!RescueProposal
  <2>2. \A other \in RM!ProposalIds : other # id => proposal'[other] = proposal[other]
    BY <1>0, <1>3 DEF RM!ApproveRescue, RM!TypeOK
  <2>3. UNCHANGED <<signers, counter, payments, undisturbed>> /\ a \in RM!Signers
        /\ a \notin proposal[id].approvals
    BY <1>3 DEF RM!ApproveRescue
  <2>4. \A other \in RM!ProposalIds : Settled(other)'
    BY <2>1, <2>2, <2>3 DEF MultisigInv, Settled, RM!Threshold
  <2>5. Counted(id)'
    <3>1. Counted(id)
      BY DEF MultisigInv
    <3> DEFINE before == proposal[id].approvals
    <3>2. IsFiniteSet(before) /\ a \notin before
      BY <2>3, <3>1 DEF Counted
    <3>3. IsFiniteSet(before \cup {a})
          /\ Cardinality(before \cup {a}) = Cardinality(before) + 1
      BY <3>2, FS_AddElement
    <3> QED
      BY <2>1, <3>1, <3>3 DEF Counted
  <2>6. \A other \in RM!ProposalIds : Counted(other)'
    BY <2>2, <2>5 DEF MultisigInv, Counted
  <2>7. \A other \in RM!ProposalIds : other > counter' => proposal'[other].status = "Absent"
    BY <2>1, <2>2, <2>3 DEF MultisigInv
  <2>8. RM!ApprovalsBySigners'
    <3>1. RM!Signers' = RM!Signers
      BY <2>3 DEF RM!Signers
    <3> QED
      BY <1>0, <2>1, <2>2, <2>3, <3>1 DEF MultisigInv, RM!TypeOK
  <2> QED
    BY <1>0, <2>4, <2>6, <2>7, <2>8 DEF MultisigInv
<1>4. ASSUME NEW id \in RM!ProposalIds, NEW status \in {"Executed", "Cancelled"},
             RM!Pending(id), RM!SetStatus(id, status),
             UNCHANGED <<signers, counter, undisturbed>>,
             payments' = IF status = "Executed" THEN [payments EXCEPT ![id] = @ + 1]
                                                ELSE payments,
             status = "Executed" => proposal[id].length >= RM!Threshold(proposal[id].kind)
      PROVE  MultisigInv'
  <2>1. proposal'[id] = [proposal[id] EXCEPT !.status = status]
    BY <1>0, <1>4 DEF RM!SetStatus, RM!TypeOK
  <2>2. /\ proposal'[id].approvals = proposal[id].approvals
        /\ proposal'[id].length = proposal[id].length
        /\ proposal'[id].kind = proposal[id].kind
        /\ proposal'[id].status = status
    BY <1>0, <2>1 DEF RM!TypeOK, RM!RescueProposal
  <2>3. \A other \in RM!ProposalIds : other # id =>
          proposal'[other] = proposal[other] /\ payments'[other] = payments[other]
    BY <1>0, <1>4 DEF RM!SetStatus, RM!TypeOK
  <2>4. proposal[id].status = "Pending" /\ payments[id] = 0
    BY <1>4 DEF RM!Pending, MultisigInv, Settled
  <2>5. payments'[id] = IF status = "Executed" THEN 1 ELSE 0
    BY <1>0, <1>4, <2>4 DEF RM!TypeOK
  <2>6. Settled(id)'
    BY <1>4, <2>2, <2>5 DEF Settled, RM!Threshold
  <2>7. \A other \in RM!ProposalIds : Settled(other)' /\ Counted(other)'
    BY <2>2, <2>3, <2>6 DEF MultisigInv, Settled, Counted, RM!Threshold
  <2>8. \A other \in RM!ProposalIds : other > counter' => proposal'[other].status = "Absent"
    BY <1>4, <2>3, <2>4 DEF MultisigInv
  <2>9. RM!ApprovalsBySigners'
    <3>1. RM!Signers' = RM!Signers
      BY <1>4 DEF RM!Signers
    <3> QED
      BY <1>0, <1>4, <2>2, <2>3, <3>1 DEF MultisigInv, RM!TypeOK
  <2> QED
    BY <1>0, <2>7, <2>8, <2>9 DEF MultisigInv
<1>5. ASSUME NEW a \in Addresses, NEW id \in RM!ProposalIds, RM!CancelRescue(a, id)
      PROVE  MultisigInv'
  BY <1>4, <1>5 DEF RM!CancelRescue
<1>6. ASSUME NEW a \in Addresses, NEW id \in RM!ProposalIds, RM!ExecuteRescue(a, id)
      PROVE  MultisigInv'
  BY <1>4, <1>6 DEF RM!ExecuteRescue
<1>7. CASE UNCHANGED multisig
  <2>1. RM!Signers' = RM!Signers
    BY <1>7 DEF RM!Signers, multisig
  <2> QED
    BY <1>0, <1>7, <2>1 DEF MultisigInv, Settled, Counted, RM!Threshold, multisig
<1> QED
  BY <1>1, <1>2, <1>3, <1>5, <1>6, <1>7 DEF RM!Next, RM!GovernanceNext

LEMMA MultisigInitial ==
  ASSUME RM!Init
  PROVE  MultisigInv
<1>1. MaxProposals \in Nat
  BY MultisigAssumption DEF RM!RescueAssumption
<1>2. counter \in 0..MaxProposals
  BY <1>1 DEF RM!Init
<1>3. RM!NoProposal \in RM!RescueProposal
  BY DEF RM!NoProposal, RM!RescueProposal, RM!RescueKind
<1>4. RM!TypeOK
  BY <1>2, <1>3 DEF RM!Init, RM!TypeOK
<1>5. \A id \in RM!ProposalIds : Settled(id) /\ Counted(id)
  BY FS_EmptySet DEF RM!Init, RM!NoProposal, Settled, Counted
<1> QED
  BY <1>4, <1>5 DEF RM!Init, RM!NoProposal, RM!ApprovalsBySigners, MultisigInv

(***************************************************************************)
(* The theorems.                                                           *)
(***************************************************************************)

NativeInv == MilestonesInv /\ MultisigInv

(* The invariant holds whatever the constants are.                         *)
THEOREM NativeInvariant == NSpec => []NativeInv
<1>1. NInit => NativeInv
  BY MilestonesInvariant, MultisigInitial DEF NInit, NativeInv
<1>2. NativeInv /\ [NNext]_nvars => NativeInv'
  <2> SUFFICES ASSUME NativeInv, [NNext]_nvars
               PROVE  NativeInv'
    OBVIOUS
  <2>1. MilestonesInv'
    BY MilestonesStepped, MilestonesInvariant DEF NativeInv, MultisigInv, MilestonesStep
  <2>2. MultisigInv'
    BY MultisigStepped, MultisigPreserved DEF NativeInv
  <2> QED
    BY <2>1, <2>2 DEF NativeInv
<1> QED
  BY <1>1, <1>2, PTL DEF NSpec

(* Every variable keeps its type.                                          *)
THEOREM NativeTypeCorrect == NSpec => []NTypeOK
<1>1. NativeInv => NTypeOK
  BY DEF NativeInv, MilestonesInv, MultisigInv, NTypeOK
<1> QED
  BY <1>1, NativeInvariant, PTL

(* No deposit is returned twice, and of a milestone index at most one is   *)
(* lost per pruning of the grant's id, however often the grant is purged,  *)
(* pruned and created again.                                               *)
THEOREM DepositsAreAccounted == NSpec => []DepositsAccounted
<1>1. TypeOK /\ LossesCounted => DepositsAccounted
  <2> SUFFICES ASSUME TypeOK, LossesCounted, NEW g \in Ids, NEW i \in Indices
               PROVE  /\ Kept(g, i) <= owed[g][i]
                      /\ owed[g][i] <= Kept(g, i) + pruned[g]
    BY DEF DepositsAccounted
  <2>1. owed[g][i] \in Nat /\ pruned[g] \in Nat /\ Exposed(g, i) \in {0, 1}
    BY DEF TypeOK, Exposed
  <2>2. Kept(g, i) \in {0, 1}
    BY DEF Kept
  <2>3. Kept(g, i) <= owed[g][i] /\ owed[g][i] + Exposed(g, i) <= Kept(g, i) + pruned[g]
    BY DEF LossesCounted
  <2> QED
    BY <2>1, <2>2, <2>3
<1>2. NativeInv => DepositsAccounted
  BY <1>1 DEF NativeInv, MilestonesInv
<1> QED
  BY <1>2, NativeInvariant, PTL

(* Every stored deposit can be paid, until a bounty or a rescue takes from *)
(* the deposits.                                                           *)
THEOREM DepositsAreFunded == NSpec => []DepositsFunded
<1>1. NativeInv => DepositsFunded
  BY DEF NativeInv, MilestonesInv
<1> QED
  BY <1>1, NativeInvariant, PTL

(* The nonce of an id that was never pruned counts its milestones.         *)
THEOREM NonceCounts == NSpec => []NonceCountsProofs
<1>1. NativeInv => NonceCountsProofs
  BY DEF NativeInv, MilestonesInv
<1> QED
  BY <1>1, NativeInvariant, PTL

(* The instance counts as this module does.                                *)
LEMMA SameCardinality ==
  ASSUME NEW S
  PROVE  RM!Cardinality(S) = Cardinality(S)
BY DEF RM!Cardinality, Cardinality

(* A rescue pays once, with its threshold of different addresses.          *)
THEOREM RescuesArePaidOnce == NSpec => []RescuesPaidOnce
<1>1. NativeInv => RescuesPaidOnce
  BY SameCardinality
  DEF NativeInv, MultisigInv, Settled, Counted, RescuesPaidOnce, RM!RescuePaidOnce
<1> QED
  BY <1>1, NativeInvariant, PTL

(* Only signers stand behind a proposal, while the signers stay.           *)
THEOREM ApprovalsAreSigners == NSpec => []ApprovalsFromSigners
<1>1. NativeInv => ApprovalsFromSigners
  BY DEF NativeInv, MultisigInv, ApprovalsFromSigners
<1> QED
  BY <1>1, NativeInvariant, PTL

=============================================================================

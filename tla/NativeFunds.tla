---------------------------- MODULE NativeFunds -----------------------------
(***************************************************************************)
(* Milestones and RescueMultisig over one native balance. execute_rescue   *)
(* (contracts/grant_stream/src/lib.rs) transfers the proposal's amount of  *)
(* whatever token its caller names, the native one here or another, and    *)
(* is rolled back with the proposal's status when the transfer fails.      *)
(***************************************************************************)
EXTENDS Milestones

CONSTANTS
  None, Addresses, SignerVectors, EMERGENCY_SIGNERS, STANDARD_THRESHOLD,
  EMERGENCY_THRESHOLD, MaxProposals                       \* RescueMultisig's

VARIABLES
  signers, counter, proposal, payments, undisturbed       \* RescueMultisig's

RM == INSTANCE RescueMultisig WITH Amounts <- RescueAmounts

ASSUME MultisigAssumption == RM!RescueAssumption

multisig == <<signers, counter, proposal, payments, undisturbed>>
nvars    == <<vars, multisig>>

NInit == Init /\ RM!Init

ExecuteNativeRescue(caller, id) ==
  /\ RM!ExecuteRescue(caller, id)
  /\ Take(proposal[id].amount)
  /\ UNCHANGED <<stage, submissions, history>>

ExecuteOtherRescue(caller, id) ==
  /\ RM!ExecuteRescue(caller, id)
  /\ UNCHANGED vars

RescueNext ==
  \/ RM!GovernanceNext /\ UNCHANGED vars
  \/ \E a \in Addresses, id \in RM!ProposalIds :
       ExecuteNativeRescue(a, id) \/ ExecuteOtherRescue(a, id)

NNext ==
  \/ Next /\ UNCHANGED multisig
  \/ RescueNext

NSpec == NInit /\ [][NNext]_nvars

(***************************************************************************)
(* Properties of the two together.                                         *)
(***************************************************************************)

NTypeOK == TypeOK /\ RM!TypeOK

(* RescuePaidOnce of RescueMultisig, with the transfers made.              *)
RescuesPaidOnce == RM!RescuePaidOnce

(* ApprovalsBySigners of RescueMultisig, in the contract.                  *)
ApprovalsFromSigners == RM!ApprovalsBySigners

=============================================================================

--------------------------- MODULE RescueMultisig ---------------------------
(***************************************************************************)
(* contracts/grant_stream/src/multi_threshold.rs: registered signers open, *)
(* approve, execute and cancel rescue proposals. The transfer execute_     *)
(* rescue makes in lib.rs is NativeFunds'.                                 *)
(*                                                                         *)
(* A proposal's approvals vector is kept as the set of its addresses and   *)
(* its length. Destination, time of creation and the gas buffer decide     *)
(* nothing and are left out.                                               *)
(***************************************************************************)
EXTENDS Naturals, FiniteSets

CONSTANTS
  Addresses,              \* accounts that can be signers
  SignerVectors,          \* vectors initialize_signers may be given
  None,                   \* signers never initialized
  EMERGENCY_SIGNERS,      \* 10 in the code
  STANDARD_THRESHOLD,     \* 3 in the code
  EMERGENCY_THRESHOLD,    \* 7 in the code
  Amounts,                \* amounts a proposal may have
  MaxProposals            \* bound: proposal ids

(* What is assumed of the constants, where this module is instantiated.    *)
RescueAssumption ==
  /\ {EMERGENCY_SIGNERS, STANDARD_THRESHOLD, EMERGENCY_THRESHOLD} \subseteq Nat \ {0}
  /\ Amounts \subseteq Nat \ {0}
  /\ MaxProposals \in Nat
  /\ SignerVectors \subseteq [1..EMERGENCY_SIGNERS -> Addresses]
  /\ None \notin SignerVectors

VARIABLES
  signers,                \* Signers and SignerBytes
  counter,                \* ProposalCounter
  proposal,               \* Proposal(id)
  payments,               \* auxiliary: transfers made under a proposal
  undisturbed             \* auxiliary: ids opened under the present signers

vars == <<signers, counter, proposal, payments, undisturbed>>

ProposalIds == 1..MaxProposals

RescueKind == {"Standard", "Emergency"}

RescueProposal ==
  [ kind      : RescueKind,
    proposer  : Addresses \cup {None},
    amount    : Nat,
    approvals : SUBSET Addresses,
    length    : Nat,                       \* approvals.len()
    status    : {"Absent", "Pending", "Executed", "Cancelled"} ]

NoProposal ==
  [ kind |-> "Standard", proposer |-> None, amount |-> 0, approvals |-> {},
    length |-> 0, status |-> "Absent" ]

TypeOK ==
  /\ signers \in SignerVectors \cup {None}
  /\ counter \in 0..MaxProposals
  /\ proposal \in [ProposalIds -> RescueProposal]
  /\ payments \in [ProposalIds -> Nat]
  /\ undisturbed \subseteq ProposalIds

Init ==
  /\ signers = None
  /\ counter = 0
  /\ proposal = [id \in ProposalIds |-> NoProposal]
  /\ payments = [id \in ProposalIds |-> 0]
  /\ undisturbed = {}

Signers ==
  IF signers = None THEN {} ELSE {signers[seat] : seat \in 1..EMERGENCY_SIGNERS}

Threshold(kind) ==
  IF kind = "Standard" THEN STANDARD_THRESHOLD ELSE EMERGENCY_THRESHOLD

Pending(id) == proposal[id].status = "Pending"

SetStatus(id, status) == proposal' = [proposal EXCEPT ![id].status = status]

(* May be called again at any time; proposals and approvals stay.          *)
InitializeSigners(vector) ==
  /\ signers' = vector
  /\ undisturbed' = {}
  /\ UNCHANGED <<counter, proposal, payments>>

(* The proposer approves by proposing.                                     *)
ProposeRescue(proposer, kind, amount) ==
  LET id == counter + 1
  IN  /\ proposer \in Signers
      /\ id \in ProposalIds
      /\ counter' = id
      /\ proposal' = [proposal EXCEPT ![id] =
           [ kind |-> kind, proposer |-> proposer, amount |-> amount,
             approvals |-> {proposer}, length |-> 1, status |-> "Pending" ]]
      /\ undisturbed' = undisturbed \cup {id}
      /\ UNCHANGED <<signers, payments>>

(* Mutant: an address may approve again.                                   *)
ApproveAgain(signer, id) ==
  /\ signer \in Signers
  /\ Pending(id) /\ proposal[id].length < Cardinality(Addresses)
  /\ proposal' = [proposal EXCEPT ![id].approvals = @ \cup {signer},
                                  ![id].length = @ + 1]
  /\ UNCHANGED <<signers, counter, payments, undisturbed>>

(* Mutant: an address that is no signer may approve.                       *)
ApproveByAnyone(signer, id) ==
  /\ Pending(id)
  /\ signer \notin proposal[id].approvals
  /\ proposal' = [proposal EXCEPT ![id].approvals = @ \cup {signer},
                                  ![id].length = @ + 1]
  /\ UNCHANGED <<signers, counter, payments, undisturbed>>

ApproveRescue(signer, id) ==
  /\ signer \in Signers
  /\ Pending(id)
  /\ signer \notin proposal[id].approvals
  /\ proposal' = [proposal EXCEPT ![id].approvals = @ \cup {signer},
                                  ![id].length = @ + 1]
  /\ UNCHANGED <<signers, counter, payments, undisturbed>>

ExecuteRescue(caller, id) ==
  /\ caller \in Signers
  /\ Pending(id)
  /\ proposal[id].length >= Threshold(proposal[id].kind)
  /\ SetStatus(id, "Executed")
  /\ payments' = [payments EXCEPT ![id] = @ + 1]
  /\ UNCHANGED <<signers, counter, undisturbed>>

(* The proposer need not be a signer any more.                             *)
CancelRescue(proposer, id) ==
  /\ Pending(id)
  /\ proposal[id].proposer = proposer
  /\ SetStatus(id, "Cancelled")
  /\ UNCHANGED <<signers, counter, payments, undisturbed>>

GovernanceNext ==
  \/ \E vector \in SignerVectors : InitializeSigners(vector)
  \/ \E a \in Addresses, kind \in RescueKind, amount \in Amounts :
       ProposeRescue(a, kind, amount)
  \/ \E a \in Addresses, id \in ProposalIds : ApproveRescue(a, id) \/ CancelRescue(a, id)

Next ==
  \/ GovernanceNext
  \/ \E a \in Addresses, id \in ProposalIds : ExecuteRescue(a, id)

Spec == Init /\ [][Next]_vars

(***************************************************************************)
(* Properties.                                                             *)
(***************************************************************************)

(* A proposal pays at most once, only when it is Executed, and only with   *)
(* as many different addresses behind it as its kind asks for.             *)
RescuePaidOnce ==
  \A id \in ProposalIds :
    payments[id] > 0 =>
      /\ payments[id] = 1
      /\ proposal[id].status = "Executed"
      /\ Cardinality(proposal[id].approvals) >= Threshold(proposal[id].kind)

(* If the signers were not replaced since a proposal was opened, everybody *)
(* who approved it is one of them: removed signers' approvals count only   *)
(* after a replacement, which initialize_signers allows at any time.       *)
ApprovalsBySigners ==
  \A id \in undisturbed : proposal[id].approvals \subseteq Signers

=============================================================================

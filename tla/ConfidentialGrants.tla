------------------------- MODULE ConfidentialGrants --------------------------
(***************************************************************************)
(* The confidential grants of contracts/grant_stream/src/lib.rs: beside    *)
(* the public grants, paid in the same token, a grant of which only a      *)
(* commitment is stored and from which its recipient claims with a proof.  *)
(* The proof is a hash of inputs the recipient knows, so that the claims   *)
(* that pass are those whose numbers pass. A nullifier is stored in        *)
(* temporary storage, which forgets it.                                    *)
(***************************************************************************)
EXTENDS Integers, FiniteSets

CONSTANTS
  ConfidentialIds,        \* ids of confidential grants
  Absent,                 \* a commitment that is not stored
  ZK_COMMITMENT_MODULUS,  \* the largest signed number of 128 bits
  Commitments, Claims,    \* amounts committed and claimed
  Nullifiers,             \* nullifiers of claims
  TokenFunds              \* the contract's balance of the grant token

ConfidentialAssumption ==
  /\ ZK_COMMITMENT_MODULUS \in Nat \ {0, 1}
  /\ Absent \notin Nat
  /\ Commitments \subseteq 1..(ZK_COMMITMENT_MODULUS - 1)
  /\ Claims \subseteq 1..ZK_COMMITMENT_MODULUS
  /\ TokenFunds \in Nat

VARIABLES
  commitment,             \* ConfidentialGrantCommitment(id)
  nullified,              \* the keys ConfidentialNullifierKey::Claim
  tokens,                 \* the contract's balance of the grant token
  agreed,                 \* auxiliary: the commitment a grant was created with
  claims                  \* auxiliary: what was claimed, and how often the modulus

pvars == <<commitment, nullified, tokens, agreed, claims>>

PInit ==
  /\ commitment = [id \in ConfidentialIds |-> Absent]
  /\ nullified = {}
  /\ tokens = TokenFunds
  /\ agreed = [id \in ConfidentialIds |-> 0]
  /\ claims = [id \in ConfidentialIds |-> [paid |-> 0, wraps |-> 0]]

(* Mutant: a grant whose commitment is used up is created anew.            *)
CreateWhenUsedUp(id, amount) ==
  /\ commitment[id] \in {Absent, 0}
  /\ commitment' = [commitment EXCEPT ![id] = amount]
  /\ agreed' = [agreed EXCEPT ![id] = amount]
  /\ UNCHANGED <<nullified, tokens, claims>>

CreateConfidentialGrant(id, amount) ==
  /\ commitment[id] = Absent
  /\ commitment' = [commitment EXCEPT ![id] = amount]
  /\ agreed' = [agreed EXCEPT ![id] = amount]
  /\ UNCHANGED <<nullified, tokens, claims>>

(* What verify_confidential_claim_proof asks of the numbers. Of i128 only  *)
(* the modulus itself is changed by the remainder.                         *)
ClaimCommitment(amount) == amount % ZK_COMMITMENT_MODULUS

ClaimVerified(id, amount) ==
  /\ amount > 0 /\ commitment[id] > 0
  /\ ClaimCommitment(amount) <= commitment[id]

ConfidentialClaim(id, amount, nullifier) ==
  /\ commitment[id] # Absent
  /\ nullifier \notin nullified
  /\ ClaimVerified(id, amount)
  /\ amount <= tokens
  /\ commitment' = [commitment EXCEPT ![id] = @ - ClaimCommitment(amount)]
  /\ nullified' = nullified \cup {nullifier}
  /\ tokens' = tokens - amount
  /\ claims' = [claims EXCEPT ![id] =
       [paid  |-> claims[id].paid + amount,
        wraps |-> claims[id].wraps + IF amount = ZK_COMMITMENT_MODULUS THEN 1 ELSE 0]]
  /\ UNCHANGED agreed

(* The host deletes a temporary entry whose time to live is over.          *)
Expire(nullifier) ==
  /\ nullifier \in nullified
  /\ nullified' = nullified \ {nullifier}
  /\ UNCHANGED <<commitment, tokens, agreed, claims>>

PNext ==
  \/ \E id \in ConfidentialIds :
       \/ \E amount \in Commitments : CreateConfidentialGrant(id, amount)
       \/ \E amount \in Claims, n \in Nullifiers : ConfidentialClaim(id, amount, n)
  \/ \E n \in Nullifiers : Expire(n)

PSpec == PInit /\ [][PNext]_pvars

(* What was claimed of a grant and what its commitment still holds make up *)
(* what was agreed, over any sequence of claims, creations and forgotten   *)
(* nullifiers, but for claims of the modulus itself, which cost nothing.   *)
ClaimsWithinCommitment ==
  \A id \in ConfidentialIds : commitment[id] # Absent =>
    /\ commitment[id] >= 0
    /\ claims[id].paid + commitment[id]
         = agreed[id] + ZK_COMMITMENT_MODULUS * claims[id].wraps

=============================================================================

----------------------------- MODULE Arbitration -----------------------------
(***************************************************************************)
(* contracts/arbitration/src/lib.rs: disputed amounts are put in escrow    *)
(* and split by an arbitrator. The escrows of all disputes are one balance *)
(* of the contract.                                                        *)
(***************************************************************************)
EXTENDS Integers, Sequences, Functions

CONSTANTS
  DisputedAmounts,        \* what a dispute is about; no token moves a negative one
  Awards,                 \* awards, which may be below zero
  MaxDisputesRaised       \* bound: disputes

ArbitrationAssumption ==
  DisputedAmounts \subseteq Nat /\ Awards \subseteq Int /\ MaxDisputesRaised \in Nat

VARIABLES
  opened,                 \* init was called
  disputes,               \* Dispute(id), in the order of ids: amount, Resolved or not
  escrow,                 \* the contract's token balance
  below                   \* auxiliary: what awards below zero amounted to

avars == <<opened, disputes, escrow, below>>

AInit == opened = FALSE /\ disputes = <<>> /\ escrow = 0 /\ below = 0

InitArbitration ==
  /\ ~opened
  /\ opened' = TRUE
  /\ UNCHANGED <<disputes, escrow, below>>

RaiseDispute(amount) ==
  /\ opened
  /\ Len(disputes) < MaxDisputesRaised
  /\ escrow' = escrow + amount
  /\ disputes' = Append(disputes, [amount |-> amount, resolved |-> FALSE])
  /\ UNCHANGED <<opened, below>>

Positive(n) == IF n > 0 THEN n ELSE 0

(* Mutant: each award is compared with the amount.                         *)
ResolveEachWithin(id, funder_award, grantee_award) ==
  LET paid == Positive(funder_award) + Positive(grantee_award) IN
  /\ ~disputes[id].resolved
  /\ funder_award <= disputes[id].amount /\ grantee_award <= disputes[id].amount
  /\ paid <= escrow
  /\ escrow' = escrow - paid
  /\ disputes' = [disputes EXCEPT ![id].resolved = TRUE]
  /\ below' = below + Positive(-funder_award) + Positive(-grantee_award)
  /\ UNCHANGED opened

(* The sum of the awards is limited, and only what is positive is paid.    *)
(* What is not awarded stays in the contract for good.                     *)
ResolveDispute(id, funder_award, grantee_award) ==
  LET paid == Positive(funder_award) + Positive(grantee_award) IN
  /\ ~disputes[id].resolved
  /\ funder_award + grantee_award <= disputes[id].amount
  /\ paid <= escrow
  /\ escrow' = escrow - paid
  /\ disputes' = [disputes EXCEPT ![id].resolved = TRUE]
  /\ below' = below + Positive(-funder_award) + Positive(-grantee_award)
  /\ UNCHANGED opened

ANext ==
  \/ InitArbitration
  \/ \E amount \in DisputedAmounts : RaiseDispute(amount)
  \/ \E id \in DOMAIN disputes, f, g \in Awards : ResolveDispute(id, f, g)

ASpec == AInit /\ [][ANext]_avars

(* One dispute's awards are never paid from another's escrow: the balance  *)
(* covers every dispute not resolved, but for what awards below zero let   *)
(* the other party be awarded.                                             *)
EscrowCovered ==
  escrow + below >=
    SumFunction([id \in DOMAIN disputes |->
                   IF disputes[id].resolved THEN 0 ELSE disputes[id].amount])

=============================================================================

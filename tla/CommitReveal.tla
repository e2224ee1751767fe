----------------------------- MODULE CommitReveal ----------------------------
(***************************************************************************)
(* contracts/bidding/commit_reveal.rs: sealed bids. The hash is taken as   *)
(* injective, so a commitment is the preimage: the concatenation of the    *)
(* amount, of the milestones with their costs in the order of the ids, and *)
(* of the salt, of which only the last has no fixed length.                *)
(***************************************************************************)
EXTENDS LedgerClock, FiniteSets, SequencesExt

CONSTANTS
  Grantees,
  NoBid,                  \* nothing stored for a grantee
  Bids,                   \* [amount, milestone_costs, salt]
  Deadlines               \* reveal deadlines

VARIABLES
  bidding,                \* BiddingOpen
  reveal_deadline,        \* RevealDeadline
  commitments,            \* Commitment(grantee)
  reveals                 \* Reveal(grantee)

cvars == <<now, bidding, reveal_deadline, commitments, reveals>>

CInit ==
  /\ now = 0
  /\ bidding = FALSE
  /\ reveal_deadline = 0
  /\ commitments = [g \in Grantees |-> NoBid]
  /\ reveals = [g \in Grantees |-> NoBid]

(* Every id followed by its cost.                                          *)
EncodedCosts(bid) ==
  LET cost  == bid.milestone_costs
      ids   == SetToSortSeq(DOMAIN cost, <)
      id(k) == ids[(k + 1) \div 2]
  IN  [k \in 1..(2 * Cardinality(DOMAIN cost)) |->
         IF k % 2 = 1 THEN id(k) ELSE cost[id(k)]]

(* Mutant: the amount follows the costs.                                   *)
HashAmountLater(bid) == EncodedCosts(bid) \o <<bid.amount>> \o bid.salt

HashBid(bid) == <<bid.amount>> \o EncodedCosts(bid) \o bid.salt

BiddingAssumption ==
  /\ Deadlines \subseteq Nat
  /\ NoBid \notin Bids /\ NoBid \notin {HashBid(bid) : bid \in Bids}
  /\ \A bid \in Bids : /\ IsFiniteSet(DOMAIN bid.milestone_costs)
                       /\ bid.salt \in Seq(Int)

(* Any address may open and close the bidding, repeatedly.                 *)
OpenBidding(deadline) ==
  /\ bidding' = TRUE
  /\ reveal_deadline' = deadline
  /\ UNCHANGED <<now, commitments, reveals>>

CloseBidding ==
  /\ bidding' = FALSE
  /\ UNCHANGED <<now, reveal_deadline, commitments, reveals>>

Commit(g, bid) ==
  /\ bidding
  /\ commitments[g] = NoBid
  /\ commitments' = [commitments EXCEPT ![g] = HashBid(bid)]
  /\ UNCHANGED <<now, bidding, reveal_deadline, reveals>>

(* May be repeated with any bid of the same encoding.                      *)
Reveal(g, bid) ==
  /\ ~bidding
  /\ now <= reveal_deadline
  /\ commitments[g] # NoBid
  /\ HashBid(bid) = commitments[g]
  /\ reveals' = [reveals EXCEPT ![g] = bid]
  /\ UNCHANGED <<now, bidding, reveal_deadline, commitments>>

CTick ==
  /\ ClockTick
  /\ UNCHANGED <<bidding, reveal_deadline, commitments, reveals>>

CNext ==
  \/ \E deadline \in Deadlines : OpenBidding(deadline)
  \/ CloseBidding
  \/ \E g \in Grantees, bid \in Bids : Commit(g, bid) \/ Reveal(g, bid)
  \/ CTick

CSpec == CInit /\ [][CNext]_cvars

(* The amount a grantee has revealed is what it stays, over repeated       *)
(* reveals and reopened biddings: a commitment admits one amount. It does  *)
(* not admit one set of costs, as a cost can be read as part of the salt.  *)
AmountBinding ==
  [][\A g \in Grantees : reveals[g] # NoBid => reveals'[g].amount = reveals[g].amount]_cvars

=============================================================================

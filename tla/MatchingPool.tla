---------------------------- MODULE MatchingPool ----------------------------
(***************************************************************************)
(* contracts/grant_stream/src/matching_pool.rs: rounds of donations, whose *)
(* influence is the donors' reputation, and the division of a matching     *)
(* amount among projects by the roots of what they received. Each pool has *)
(* a token of its own; the contract holds one balance of each. is_active   *)
(* is never cleared and PoolDonors and PoolProjects are read by nothing;   *)
(* they are left out.                                                      *)
(***************************************************************************)
EXTENDS DonorReputation, Functions

CONSTANTS
  Pools,                  \* pool ids
  Tokens,                 \* token contracts
  MatchAmounts,           \* total_match_amount
  Durations,              \* round_duration_secs
  Sep12,                  \* whether a pool may require identities
  Limits,                 \* pairs of min_donation and max_donation_per_donor
  Donations,              \* amounts donated
  Ballots,                \* vectors of projects calculate_matching gets
  Funds,                  \* what the contract holds of each token at first
  ISQRT_ROUNDS,           \* iterations of isqrt_fixed_point: 100
  MaxCommitted,           \* bound: matching amounts of all rounds, in all tokens
  MaxDonated,             \* bound: donations in a token
  MaxTime                 \* bound: the ledger clock

Pool ==
  [token : Tokens, total_match_amount : Nat, remaining_match_amount : Nat,
   round_ends_at : Nat, requires_sep12 : BOOLEAN, limit : Nat \X Nat, is_finalized : BOOLEAN,
   total_matched_distributed : Nat, projects : SUBSET Projects]
Contribution == [total : Nat, unique_donors : Nat]

MatchingAssumption ==
  /\ None \notin Pool \cup Contribution \cup Nat \cup Tokens
  /\ IsFiniteSet(Pools) /\ IsFiniteSet(Projects)
  /\ MatchAmounts \subseteq Nat \ {0} /\ Durations \subseteq Nat
  /\ Sep12 \subseteq BOOLEAN
  /\ Limits \subseteq (Nat \ {0}) \X Nat
  /\ Donations \subseteq Nat \ {0}
  /\ Ballots \subseteq Seq(Projects)
  /\ Funds \in Nat /\ ISQRT_ROUNDS \in Nat
  /\ MaxCommitted \in Nat /\ MaxDonated \in Nat /\ MaxTime \in Nat

ASSUME MatchingAssumed == MatchingAssumption

VARIABLES
  now,                    \* the ledger's timestamp
  pool,                   \* MatchingPool(k) with MatchingRound(k)
  verified,               \* Sep12Identity(donor)
  donation,               \* the keys Donation(k, project, donor)
  contributions,          \* ProjectContributions(k, project)
  matched,                \* ProjectMatched(k, project)
  balance,                \* what the contract holds of each token
  donated,                \* auxiliary: what was donated in each token
  committed,              \* auxiliary: matching amounts of all rounds in a token
  due,                    \* auxiliary: the token in which a match of a
                          \*   finalized round is still to be paid
  unbacked                \* auxiliary: matches paid in a token in which none was due

money    == <<balance, donated, committed, due, unbacked>>
poolVars == <<now, pool, verified, donation, contributions, matched, money>>

Keys == Pools \X Projects

MTypeOK ==
  /\ RTypeOK
  /\ now \in Nat
  /\ pool \in [Pools -> Pool \cup {None}]
  /\ verified \subseteq Donors
  /\ donation \subseteq Keys \X Donors
  /\ contributions \in [Keys -> Contribution \cup {None}]
  /\ matched \in [Keys -> Nat \cup {None}]
  /\ {balance, donated, committed, unbacked} \subseteq [Tokens -> Nat]
  /\ due \in [Keys -> Tokens \cup {None}]
  /\ \A key \in Keys : due[key] # None => matched[key] # None

MInit ==
  /\ RInit
  /\ now = 0
  /\ pool = [k \in Pools |-> None]
  /\ verified = {}
  /\ donation = {}
  /\ contributions = [key \in Keys |-> None]
  /\ matched = [key \in Keys |-> None]
  /\ balance = [t \in Tokens |-> Funds]
  /\ donated = [t \in Tokens |-> 0]
  /\ committed = donated /\ unbacked = donated
  /\ due = [key \in Keys |-> None]

(***************************************************************************)
(* isqrt_fixed_point: Newton's method from n/2. It stops when a step       *)
(* changes nothing, and so does going on.                                  *)
(***************************************************************************)

Isqrt(n) ==
  LET start == IF n \div 2 = 0 THEN 1 ELSE n \div 2
      newton[i \in 0..ISQRT_ROUNDS] ==
        IF i = 0 THEN start
        ELSE LET x == newton[i - 1] IN (x + n \div x) \div 2
  IN  IF n = 0 THEN 0 ELSE newton[ISQRT_ROUNDS]

Root(key) == Isqrt(contributions[key].total * SCALE)

(***************************************************************************)
(* The entry points.                                                       *)
(***************************************************************************)

OpenRound(k, token, total, rest, duration, sep12, limit) ==
  /\ SumFunction(committed) + total <= MaxCommitted
  /\ pool' = [pool EXCEPT ![k] =
       [token |-> token, total_match_amount |-> total, remaining_match_amount |-> rest,
        round_ends_at |-> now + duration, requires_sep12 |-> sep12, limit |-> limit,
        is_finalized |-> FALSE, total_matched_distributed |-> 0, projects |-> {}]]
  /\ committed' = [committed EXCEPT ![token] = @ + total]
  /\ UNCHANGED <<repVars, now, verified, donation, contributions, matched,
                 balance, donated, due, unbacked>>

(* Mutant: what the old round did not divide is added to the new one.      *)
InitializePoolCarryingOver(k, token, total, duration, sep12, limit) ==
  LET rest == IF pool[k] = None THEN 0 ELSE pool[k].remaining_match_amount
  IN  OpenRound(k, token, total, total + rest, duration, sep12, limit)

(* A pool may be initialized over an existing one, in another token too:   *)
(* its donations, contributions and matches stay. The matching amount is   *)
(* not collected.                                                          *)
InitializePool(k, token, total, duration, sep12, limit) ==
  OpenRound(k, token, total, total, duration, sep12, limit)

VerifySep12Identity(d) ==
  /\ verified' = verified \cup {d}
  /\ UNCHANGED <<repVars, now, pool, donation, contributions, matched, money>>

Sep12Verified(k, d) == pool[k].requires_sep12 => d \in verified

Donate(k, p, d, amount) ==
  LET key  == <<k, p>>
      t    == pool[k].token
      old  == IF contributions[key] = None THEN [total |-> 0, unique_donors |-> 0]
                                           ELSE contributions[key]
      new  == IF <<key, d>> \in donation THEN 0 ELSE 1
  IN
  /\ pool[k] # None
  /\ donated[t] + amount <= MaxDonated
  /\ now <= pool[k].round_ends_at
  /\ pool[k].limit[1] <= amount /\ amount <= pool[k].limit[2]
  /\ Sep12Verified(k, d)
  /\ donation' = donation \cup {<<key, d>>}
  /\ contributions' = [contributions EXCEPT ![key] =
       [total |-> old.total + (amount * Influence(d)) \div SCALE,
        unique_donors |-> old.unique_donors + new]]
  /\ balance' = [balance EXCEPT ![t] = @ + amount]
  /\ donated' = [donated EXCEPT ![t] = @ + amount]
  /\ UNCHANGED <<repVars, now, pool, verified, matched, committed, due, unbacked>>

(* Mutant: the shares are taken of the root of the sum, not of the sum of  *)
(* the roots.                                                              *)
ShareOfRoot(k, p, ballot) ==
  LET all == Isqrt(SumFunction([i \in DOMAIN ballot |-> contributions[<<k, ballot[i]>>].total * SCALE]))
  IN  IF all = 0 THEN 0 ELSE (Root(<<k, p>>) * pool[k].remaining_match_amount) \div all

Share(k, p, ballot) ==
  LET all == SumFunction([i \in DOMAIN ballot |-> Root(<<k, ballot[i]>>)])
  IN  IF all = 0 THEN 0 ELSE (Root(<<k, p>>) * pool[k].remaining_match_amount) \div all

CalculateMatching(k, ballot) ==
  LET share == [i \in DOMAIN ballot |-> Share(k, ballot[i], ballot)]
      sum   == SumFunction(share)
      rest  == pool[k].remaining_match_amount
      given == IF sum > rest THEN rest ELSE sum
      keys  == {<<k, ballot[i]>> : i \in DOMAIN ballot}
  IN
  /\ pool[k] # None
  /\ now > pool[k].round_ends_at
  /\ ~pool[k].is_finalized
  /\ \A key \in keys : contributions[key] # None
  /\ matched' = [key \in Keys |-> IF key \in keys THEN Share(k, key[2], ballot)
                                                  ELSE matched[key]]
  /\ pool' = [pool EXCEPT ![k] = [pool[k] EXCEPT
       !.remaining_match_amount = rest - given,
       !.is_finalized = TRUE,
       !.total_matched_distributed = given,
       !.projects = {key[2] : key \in keys}]]
  /\ due' = [key \in Keys |-> IF key \in keys THEN pool[k].token ELSE due[key]]
  /\ UNCHANGED <<repVars, now, verified, donation, contributions,
                 balance, donated, committed, unbacked>>

(* Nothing records that a match was distributed, and the round it belongs  *)
(* to is not looked at: it is paid in the token the pool has by now.       *)
DistributeMatchedFunds(k, p) ==
  LET key == <<k, p>>
      t   == pool[k].token
  IN
  /\ pool[k] # None
  /\ matched[key] # None /\ matched[key] > 0 /\ matched[key] <= balance[t]
  /\ balance' = [balance EXCEPT ![t] = @ - matched[key]]
  /\ IF due[key] = t
     THEN due' = [due EXCEPT ![key] = None] /\ UNCHANGED unbacked
     ELSE unbacked' = [unbacked EXCEPT ![t] = @ + matched[key]] /\ UNCHANGED due
  /\ UNCHANGED <<repVars, now, pool, verified, donation, contributions, matched,
                 donated, committed>>

Tick ==
  /\ now < MaxTime
  /\ now' = now + 1
  /\ UNCHANGED <<repVars, pool, verified, donation, contributions, matched, money>>

PoolNext(k) ==
  \/ \E token \in Tokens, total \in MatchAmounts, duration \in Durations,
        sep12 \in Sep12, limit \in Limits :
       InitializePool(k, token, total, duration, sep12, limit)
  \/ \E p \in Projects, d \in Donors, amount \in Donations : Donate(k, p, d, amount)
  \/ \E ballot \in Ballots : CalculateMatching(k, ballot)
  \/ \E p \in Projects : DistributeMatchedFunds(k, p)

MNext ==
  \/ ReputationNext /\ UNCHANGED poolVars
  \/ \E k \in Pools : PoolNext(k)
  \/ \E d \in Donors : VerifySep12Identity(d)
  \/ Tick

MSpec == MInit /\ [][MNext]_<<repVars, poolVars>>

(***************************************************************************)
(* Properties.                                                             *)
(***************************************************************************)

(* A finalized round divides its matching amount: what is left and what is *)
(* matched make up the total, the stored matches fit in it, and a project  *)
(* that received more is not matched less, although roots and shares are   *)
(* rounded and Newton's method may end one above the root.                 *)
MatchingDivided ==
  \A k \in Pools : pool[k] # None /\ pool[k].is_finalized =>
    LET P == pool[k].projects
        matches == SumFunctionOnSet([p \in P |-> matched[<<k, p>>]], P)
    IN
    /\ pool[k].remaining_match_amount + pool[k].total_matched_distributed
         = pool[k].total_match_amount
    /\ matches <= pool[k].total_matched_distributed
    /\ \A p, q \in P : contributions[<<k, p>>].total <= contributions[<<k, q>>].total
         => matched[<<k, p>>] <= matched[<<k, q>>]

(* What the rounds in a token promised beyond the funds of the contract:   *)
(* initialize_pool collects nothing.                                       *)
Uncollected(t) == IF committed[t] > Funds THEN committed[t] - Funds ELSE 0

(* Matches are paid from the balance in which the donations lie. Of the    *)
(* donations in a token the contract still holds all but what the rounds   *)
(* in that token promised and nobody brought, what was paid of a match     *)
(* twice, and what was paid in this token of a match divided in another,   *)
(* over all rounds, re-initializations and matches left over from them.    *)
DonationsKept ==
  \A t \in Tokens : donated[t] <= balance[t] + Uncollected(t) + unbacked[t]

=============================================================================

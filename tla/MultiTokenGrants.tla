-------------------------- MODULE MultiTokenGrants --------------------------
(***************************************************************************)
(* The grants of contracts/grant_stream/src/multi_token.rs: one stream per *)
(* token, withdrawn together by a vector of requests of which some may     *)
(* fail. A grant is kept as functions over the tokens it lists; the order  *)
(* of the vector decides nothing. Of its mask the bits this file and       *)
(* validate_status_transition look at are kept.                            *)
(***************************************************************************)
EXTENDS Integers, FiniteSets, SequencesExt

CONSTANTS
  Ids,                    \* grant ids
  None,                   \* a key that is not stored
  Tokens, Wrappable,      \* token addresses, and those an admin configures
  Balances,               \* the TokenBalance records an admin opens with
  Rates, Masks,           \* flow rates and masks an admin chooses
  Requests,               \* the withdrawal vectors of a recipient
  Funds,                  \* what the contract holds of each token
  MaxTime                 \* bound: the ledger clock

Balance == [total_amount : Nat, withdrawn : Int, claimable : Int, flow_rate : Nat]

StatusBits == {"ACTIVE", "PAUSED", "COMPLETED", "CANCELLED"}

(* A grant that lists the tokens S.                                        *)
TokenGrant(S) ==
  [tokens : [S -> Balance], last_update_ts : Nat,
   status_mask : SUBSET StatusBits]

MultiTokenAssumption ==
  /\ Balances \subseteq Balance
  /\ Wrappable \subseteq Tokens
  /\ Rates \subseteq Nat
  /\ Masks \subseteq SUBSET StatusBits
  /\ Requests \subseteq Seq([token : Tokens, amount : Nat])
  /\ Funds \in Nat /\ MaxTime \in Nat
  /\ \A S \in SUBSET Tokens : None \notin TokenGrant(S)

VARIABLES
  now,                    \* the ledger's timestamp
  mgrants,                \* DataKey::Grant(id), of multi-token grants
  wrapped,                \* MultiTokenDataKey::WrappedAsset(token)
  balance,                \* what the contract holds of each token
  opening,                \* auxiliary: the balances a token was opened with
  given,                  \* auxiliary: what the flow rates gave since then
  paid                    \* auxiliary: what was transferred since then

maux  == <<opening, given, paid>>
mvars == <<now, mgrants, wrapped, balance, maux>>

MTypeOK ==
  /\ now \in Nat
  /\ DOMAIN mgrants = Ids
  /\ \A id \in Ids : mgrants[id] # None =>
       \E S \in SUBSET Tokens : mgrants[id] \in TokenGrant(S)
  /\ wrapped \in [Tokens -> {None, "Live", "Halted"}]
  /\ balance \in [Tokens -> Nat]
  /\ opening \in [Ids \X Tokens -> [preset : Int, withdrawn : Int, late : BOOLEAN]]
  /\ given \in [Ids \X Tokens -> Nat] /\ paid \in [Ids \X Tokens -> Nat]

Nothing == [preset |-> 0, withdrawn |-> 0, late |-> FALSE]

MInit ==
  /\ now = 1
  /\ mgrants = [id \in Ids |-> None]
  /\ wrapped = [t \in Tokens |-> None]
  /\ balance = [t \in Tokens |-> Funds]
  /\ opening = [k \in Ids \X Tokens |-> Nothing]
  /\ given = [k \in Ids \X Tokens |-> 0]
  /\ paid = [k \in Ids \X Tokens |-> 0]

MStored(id) == mgrants[id] # None
Lists(id, t) == MStored(id) /\ t \in DOMAIN mgrants[id].tokens
Booked(b) == b.withdrawn + b.claimable

(***************************************************************************)
(* settle_multi_token_grant.                                               *)
(***************************************************************************)

Elapsed(g) == IF "ACTIVE" \in g.status_mask THEN now - g.last_update_ts ELSE 0

CanSettleTokens(g) ==
  /\ now >= g.last_update_ts
  /\ Elapsed(g) > 0 => \A t \in DOMAIN g.tokens :
       g.tokens[t].flow_rate > 0 => Booked(g.tokens[t]) <= g.tokens[t].total_amount

(* Mutant: every token is given what the rate accrues, capped by total.    *)
AccrueUpToTotal(b, elapsed) ==
  LET accrued == b.flow_rate * elapsed
  IN  [b EXCEPT !.claimable = @ + IF accrued > b.total_amount THEN b.total_amount
                                                              ELSE accrued]

Accrue(b, elapsed) ==
  LET accrued   == b.flow_rate * elapsed
      remaining == b.total_amount - Booked(b)
  IN  IF accrued = 0 THEN b
      ELSE [b EXCEPT !.claimable = @ + IF accrued > remaining THEN remaining ELSE accrued]

SettleTokens(g) ==
  [g EXCEPT !.last_update_ts = now,
            !.tokens = [t \in DOMAIN g.tokens |-> Accrue(g.tokens[t], Elapsed(g))]]

(***************************************************************************)
(* The administrator's entry points.                                       *)
(***************************************************************************)

(* claimable is not compared with total_amount.                            *)
ValidTokenBalances(tokens) ==
  \A t \in DOMAIN tokens :
    /\ tokens[t].total_amount > 0 /\ tokens[t].claimable >= 0
    /\ 0 <= tokens[t].withdrawn /\ tokens[t].withdrawn <= tokens[t].total_amount

Opening(b, late) ==
  [preset |-> Booked(b), withdrawn |-> b.withdrawn, late |-> late]

(* validate_status_transition(0, mask): CANCELLED with anything, or ACTIVE *)
(* alone.                                                                  *)
ValidFirstMask(mask) == "CANCELLED" \in mask \/ mask = {"ACTIVE"}

CreateMultiTokenGrant(id, tokens, mask) ==
  /\ ~MStored(id)
  /\ ValidTokenBalances(tokens)
  /\ ValidFirstMask(mask)
  /\ mgrants' = [mgrants EXCEPT ![id] =
       [tokens |-> tokens, last_update_ts |-> now, status_mask |-> mask]]
  /\ opening' = [k \in Ids \X Tokens |->
       IF k[1] = id /\ k[2] \in DOMAIN tokens THEN Opening(tokens[k[2]], FALSE)
                                              ELSE opening[k]]
  /\ UNCHANGED <<now, wrapped, balance, given, paid>>

UpdateMultiTokenRates(id, rates) ==
  /\ MStored(id) /\ mgrants[id].status_mask \cap {"ACTIVE", "PAUSED"} # {}
  /\ CanSettleTokens(mgrants[id])
  /\ DOMAIN rates \subseteq DOMAIN mgrants[id].tokens
  /\ LET g == SettleTokens(mgrants[id]) IN
     mgrants' = [mgrants EXCEPT ![id] = [g EXCEPT !.tokens =
       [t \in DOMAIN g.tokens |-> IF t \in DOMAIN rates
                                  THEN [g.tokens[t] EXCEPT !.flow_rate = rates[t]]
                                  ELSE g.tokens[t]]]]
  /\ UNCHANGED <<now, wrapped, balance, maux>>

(* The grant is not settled first: the new token's first accrual also pays *)
(* for the time since last_update_ts, before it was part of the grant. Of  *)
(* the balance only total_amount and the rate are looked at: withdrawn and *)
(* claimable may be negative, or beyond the total.                         *)
AddTokenToGrant(id, t, b) ==
  /\ MStored(id) /\ ~Lists(id, t)
  /\ b.total_amount > 0
  /\ LET g == mgrants[id] IN
     mgrants' = [mgrants EXCEPT ![id] = [g EXCEPT !.tokens =
       [u \in DOMAIN g.tokens \cup {t} |-> IF u = t THEN b ELSE g.tokens[u]]]]
  /\ opening' = [opening EXCEPT ![<<id, t>>] = Opening(b, now > mgrants[id].last_update_ts)]
  /\ given' = [given EXCEPT ![<<id, t>>] = 0]
  /\ paid' = [paid EXCEPT ![<<id, t>>] = 0]
  /\ UNCHANGED <<now, wrapped, balance>>

RemoveTokenFromGrant(id, t) ==
  LET g == SettleTokens(mgrants[id]) IN
  /\ Lists(id, t)
  /\ CanSettleTokens(mgrants[id])
  /\ g.tokens[t].claimable = 0 /\ g.tokens[t].total_amount <= g.tokens[t].withdrawn
  /\ DOMAIN g.tokens # {t}
  /\ mgrants' = [mgrants EXCEPT ![id] =
       [g EXCEPT !.tokens = [u \in DOMAIN g.tokens \ {t} |-> g.tokens[u]]]]
  /\ UNCHANGED <<now, wrapped, balance, maux>>

(* Configuring an asset again lifts its halt. security_buffer is not read. *)
ConfigureWrappedAsset(t) ==
  /\ wrapped' = [wrapped EXCEPT ![t] = "Live"]
  /\ UNCHANGED <<now, mgrants, balance, maux>>

SetAssetHalt(t, halted) ==
  /\ wrapped[t] # None
  /\ wrapped' = [wrapped EXCEPT ![t] = IF halted THEN "Halted" ELSE "Live"]
  /\ UNCHANGED <<now, mgrants, balance, maux>>

(***************************************************************************)
(* multi_token_withdraw. A batch is the tokens' balances and the amounts   *)
(* sent so far; a request that is halted, empty, unknown or too large is   *)
(* reported as failed and the others go on.                                *)
(***************************************************************************)

Rejected(batch, r) ==
  \/ wrapped[r.token] = "Halted"
  \/ r.amount = 0
  \/ r.token \notin DOMAIN batch.tokens
  \/ r.amount > batch.tokens[r.token].claimable

ProcessTokenWithdrawal(batch, r) ==
  IF Rejected(batch, r) THEN batch
  ELSE LET b == batch.tokens[r.token] IN
       [tokens |-> [batch.tokens EXCEPT ![r.token] =
          [b EXCEPT !.claimable = b.claimable - r.amount,
                    !.withdrawn = b.withdrawn + r.amount]],
        sent   |-> [batch.sent EXCEPT ![r.token] = batch.sent[r.token] + r.amount]]

Untouched(tokens) == [tokens |-> tokens, sent |-> [t \in Tokens |-> 0]]

(* Mutant: each request is checked against the balances before the batch.  *)
BatchUnordered(tokens, requests) ==
  LET start == Untouched(tokens)
      Book(batch, r) ==
        IF Rejected(start, r) THEN batch
        ELSE [tokens |-> [batch.tokens EXCEPT
                            ![r.token] = ProcessTokenWithdrawal(start, r).tokens[r.token]],
              sent   |-> [batch.sent EXCEPT ![r.token] = @ + r.amount]]
  IN  FoldLeft(Book, start, requests)

(* The requests are served in the order of the vector.                     *)
Batch(tokens, requests) ==
  LET after[n \in 0..Len(requests)] ==
        IF n = 0 THEN Untouched(tokens)
                 ELSE ProcessTokenWithdrawal(after[n - 1], requests[n])
  IN  after[Len(requests)]

FullyWithdrawn(tokens) ==
  \A t \in DOMAIN tokens : Booked(tokens[t]) >= tokens[t].total_amount

(* A transfer the contract cannot pay traps, and rolls the whole call back *)
(* with the requests that succeeded before it.                             *)
MultiTokenWithdraw(id, requests) ==
  LET g     == SettleTokens(mgrants[id])
      batch == Batch(g.tokens, requests)
  IN
  /\ requests # <<>>
  /\ MStored(id) /\ "ACTIVE" \in mgrants[id].status_mask
  /\ CanSettleTokens(mgrants[id])
  /\ \A t \in Tokens : batch.sent[t] <= balance[t]
  /\ balance' = [t \in Tokens |-> balance[t] - batch.sent[t]]
  /\ paid' = [k \in Ids \X Tokens |->
       IF k[1] = id THEN paid[k] + batch.sent[k[2]] ELSE paid[k]]
  /\ mgrants' = [mgrants EXCEPT ![id] = [g EXCEPT
       !.tokens = batch.tokens,
       !.status_mask = IF FullyWithdrawn(batch.tokens)
                       THEN (@ \cup {"COMPLETED"}) \ {"ACTIVE"} ELSE @]]
  /\ UNCHANGED <<now, wrapped, opening, given>>

(* A second passes; given is kept for the properties alone.                *)
MTick ==
  /\ now < MaxTime
  /\ now' = now + 1
  /\ given' = [k \in Ids \X Tokens |->
       IF Lists(k[1], k[2]) /\ "ACTIVE" \in mgrants[k[1]].status_mask
       THEN given[k] + mgrants[k[1]].tokens[k[2]].flow_rate ELSE given[k]]
  /\ UNCHANGED <<mgrants, wrapped, balance, opening, paid>>

MultiTokenNext(id) ==
  \/ \E S \in SUBSET Tokens \ {{}} : \E tokens \in [S -> Balances],
        mask \in Masks :
       CreateMultiTokenGrant(id, tokens, mask)
  \/ \E requests \in Requests : MultiTokenWithdraw(id, requests)
  \/ \E t \in Tokens, rate \in Rates : UpdateMultiTokenRates(id, [u \in {t} |-> rate])
  \/ \E t \in Tokens, b \in Balances : AddTokenToGrant(id, t, b)
  \/ \E t \in Tokens : RemoveTokenFromGrant(id, t)

AssetNext ==
  \E t \in Wrappable : ConfigureWrappedAsset(t) \/ \E halted \in BOOLEAN : SetAssetHalt(t, halted)

MNext == MTick \/ AssetNext \/ \E id \in Ids : MultiTokenNext(id)

MSpec == MInit /\ [][MNext]_mvars

(***************************************************************************)
(* Properties.                                                             *)
(***************************************************************************)

(* No order of withdrawals, rate changes, additions and removals gives the *)
(* recipient more of a token than its total, or than the token was opened  *)
(* with, and never more than was opened plus what its rate gave, except of *)
(* a token added between two settlements.                                  *)
TokensWithinTotal ==
  \A id \in Ids, t \in Tokens : Lists(id, t) =>
    LET b == mgrants[id].tokens[t] IN
    /\ Booked(b) <= b.total_amount \/ Booked(b) <= opening[<<id, t>>].preset
    /\ ~opening[<<id, t>>].late => Booked(b) <= opening[<<id, t>>].preset + given[<<id, t>>]

(* What the books of a grant call withdrawn is what the token contract was *)
(* told to transfer, whatever mixture of successful, halted, repeated and  *)
(* excessive requests the withdrawal vectors held.                         *)
BooksMatchTransfers ==
  \A id \in Ids, t \in Tokens : Lists(id, t) =>
    mgrants[id].tokens[t].withdrawn = opening[<<id, t>>].withdrawn + paid[<<id, t>>]

=============================================================================

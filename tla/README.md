# Verification of the YieldTrust grant contracts

TLA+ models, TLC runs and TLAPS proofs kept beside the Soroban contracts of this
repository. The contracts hold pooled grant tokens and stream them to grantees;
what matters is who can be paid what, in which order, and what the breakers, the
council and the indices say about it while entry points, operators and the ledger
clock interleave. Paths below are relative to the repository; `lib.rs` is
`contracts/grant_stream/src/lib.rs`.

## 1. Inventory

### The workspace

| Component (source) | State it keeps | Operations | Interacts with |
|---|---|---|---|
| Grant life cycle (`lib.rs`) | `Grant(id)`, `GrantIds`, `RecipientGrants(addr)`, `DisputeEscrow(id)`, the grant token balance | create, withdraw, withdraw_validator, pause, resume, propose_rate_change, apply_kpi_multiplier, set/sign_legal_metadata, change_grantee, rage_quit, cancel_grant, trigger_grant_clawback, resolve_disputed_clawback, rescue_tokens, finalize_and_purge, prune_finalized_grant | everything below; the token contracts; `on_withdraw` of the grantee |
| Circuit breakers (`circuit_breakers.rs`) | price and freeze, velocity window and `SoftPa`, dispute window and `GntHalt`, rent flag | submit/confirm price, set_sanity_oracle, update_tvl_snapshot, record velocity, record dispute, check rent, three resumes | `withdraw`, `create_grant`, `apply_kpi_multiplier`, the native token |
| Security council (`security_council.rs`) | members, actions with status and timelock, veto signatures, pending rotation | initialize, create action, sign veto, execute, propose and execute rotation | `protected_clawback` and `execute_protected_clawback`, which ends in `cancel_grant` |
| Milestone submissions (`lib.rs`) | `Milestone(id, i)`, submission nonce, native-token deposit | submit, approve (refund), slash (to treasury) | the native balance the breakers watch; prune |
| Tax report, audit log (`tax_reporting.rs`, `audit_log.rs`) | flow history per recipient; Merkle leaves, counter | record on withdrawal, heartbeat, get_historical_flow | `withdraw` |
| Rescue multisig (`multi_threshold.rs`) | ten signers, proposals with approvals and threshold 3 or 7 | initialize_signers, propose (approves), approve, execute, cancel | transfers any token out of the contract, ignoring allocated funds |
| Optimized grants, self-termination (`optimized.rs`, `self_terminate.rs`) | a second grant record with a status bit mask, oracles, evidence and approvals | create, cancel, pause, resume, set flags, rates, withdraw, milestone deadline, oracles, evidence, approval, expiry, clawback, rage_quit, self_terminate | `DataKey::Grant(id)`, shared with the next |
| Multi-token grants (`multi_token.rs`) | per grant the balances of its tokens; configurations of wrapped assets | create, withdraw a vector of requests, update rates, add and remove tokens, configure an asset, halt it | token contracts |
| Donor reputation (`donor_reputation.rs`) | metrics of funded projects, their milestones, each donor's list and rating | initialize, update_config, record_project_funded, record_milestone_completed, record_project_failed, calculate_influence | matching pool |
| Matching pool (`matching_pool.rs`) | pools, donations and contributions per project, quadratic shares, matched amounts | initialize_pool, verify_sep12_identity, donate, calculate_matching over a list of projects, distribute_matched_funds | donor reputation as weight; its own token balance |
| Yield treasury (`yield_treasury.rs`) | configuration, position, reserve, yield earned | initialize, configure, invest, divest, harvest, auto-invest, emergency withdraw, two health views | treasury token balance |
| Confidential grants (`lib.rs`) | commitments; nullifiers with a lifetime | create_confidential_grant, confidential_claim | the grant token balance |
| SEP-38 rates (`lib.rs`) | rates and claim values | set_sep38_rate, record_claim_value | no guard reads them |
| Reentrancy guard, storage keys, dashboard | none that others decide on | | |
| Arbitration (`contracts/arbitration`) | disputes with amount, parties and ruling | init, raise_dispute, resolve_dispute | the escrow of all disputes in one balance |
| Compliance, zk_kyc | flags per address | set, read | none in code |
| vesting_contracts | none | hello | |

### Outside the workspace

| Component (source) | State it keeps | Operations | Interacts with |
|---|---|---|---|
| Dead man's switch (`contracts/admin/dead_mans_switch.rs`) | admin, vault, last activity, recovery done | initialize, heartbeat, record_activity, claim_admin, update_recovery_vault | the ledger clock |
| Activity monitor (`contracts/admin/governance_activity_monitor.rs`) | limit, timelock, changes, changes of this ledger | initialize, record, execute, cancel, enable, configure | the ledger clock |
| Speed bump (`contracts/treasury/speed_bump.rs`) | treasury snapshot, queue of transfers | initialize, approve, execute, veto, update the snapshot | the treasury's token |
| Sealed bidding (`contracts/bidding/commit_reveal.rs`) | phase, deadline, commitments, reveals | open, close, commit, reveal | the ledger clock |

No Cargo workspace member reaches these, nor `contracts/contrib`, `contracts/grant_contracts`,
`contracts/grant_multisig`, `contracts/grants`, `awards.rs`, `timed_awards.rs`.
`double_approval.rs`, `governance.rs`, `yield_enhanced.rs` and `benchmarks.rs` are in the
crate's directory but in no `mod`. `src/**/*.js` is a stateless HTTP front. `target/` is
build output.

### What is hard

* **Interleaving of entry points.** A contract invocation is atomic, but every entry
  point is open to a different party, so any order of withdrawals, pauses, rate
  changes, cancellations, clawbacks and breaker operations can happen, at any
  distance in time. Each first settles the grant and then acts on what settling left.
* **Shared funds.** Grants draw on one pooled balance; bounties, rescues, milestone
  deposits and the rent buffer on one native balance. One grant's overdraft is
  another's failed withdrawal. So do disputes under one escrow, donations and matches
  in one pool, requests of one withdrawal vector.
* **Time.** Rate timelock, warm-up, velocity and dispute windows, veto and rotation
  timelocks, prune delay: all compared with a clock that jumps past several at once.
* **Staleness.** A switch time behind the last settlement, a TVL snapshot, an active
  grant snapshot, veto signatures of an earlier council, a Merkle leaf, an escrow of
  a purged id, a rating of projects that moved on, approvals of evidence that was replaced,
  a token added between two settlements.
* **Terminal states.** Cancelled, Clawbacked, Completed and RageQuitted admit
  different operations; some are re-entered. The bit masks of `optimized.rs` combine freely.

`PROJECT.json` lists forty hazards at the lines where they bite.

## 2. Modules

| Module | Models | |
|---|---|---|
| `GrantOps` | the `Grant` record, warm-up, accrual, validator split, `settle_grant` | pure operators |
| `CircuitBreakerOps` | `circuit_breakers.rs`, function by function | pure operators |
| `CircuitBreakers` | the breakers as a component: its entry points, the operations it gates, time | the abstract specification of the contract's gates |
| `BreakerHistory` | `CircuitBreakers` with a log of withdrawals no guard reads | history |
| `GrantStream` | the contract: grants, indices, escrow, balance, books, composed with `CB == INSTANCE CircuitBreakers` | implements `CB!Spec` |
| `DocumentedClaims` | two statements of the documents over `GrantStream` | |
| `SecurityCouncil` | council, actions, vetoes, rotation, the protected clawback | |
| `Milestones` | milestone submissions, their deposits and nonce, and what else takes native tokens; of a grant only its stage | |
| `RescueMultisig` | `multi_threshold.rs`: signers, proposals, approvals, execution | |
| `NativeFunds` | `Milestones` and `RM == INSTANCE RescueMultisig` over one native balance | composition |
| `OptimizedGrants` | `optimized.rs` and `self_terminate.rs`: one record per id, every operation | |
| `MultiTokenGrants` | `multi_token.rs`: balances per token, withdrawal vectors, halted assets | |
| `GrantPrograms` | `OptimizedGrants` and `MT == INSTANCE MultiTokenGrants` over the one key `DataKey::Grant(id)` | composition |
| `DonorReputation` | `donor_reputation.rs`: projects, milestones, ratings, multipliers | |
| `MatchingPool` | `matching_pool.rs`, EXTENDS `DonorReputation`, whose multiplier weighs a donation | composition |
| `LedgerClock` | the bounded ledger clock of the modules below | |
| `YieldTreasury` | `yield_treasury.rs` with its mock strategies and both health views | |
| `SpeedBump`, `DeadMansSwitch`, `ActivityMonitor`, `CommitReveal`, `Arbitration` | the contracts of those names | |
| `ConfidentialGrants` | confidential grants of `lib.rs`, with the expiry of nullifiers | |
| `Safeguards` | the seven modules above, one at a time | selects |
| `MCGrantStream` | `GrantStream` with interchangeable grants and grantees | |
| `MCTwoGrants` | `GrantStream` in two scenarios: two grants with no operator at the breakers, one grant with all of them | |
| `MCSecurityCouncil`, `MCNativeFunds`, `MCGrantPrograms`, `MCMatchingPool`, `MCSafeguards` | symmetry, small inputs and bounds for TLC | |
| `SumTheorems` | induction and sums over finite sets | TLAPS |
| `CircuitBreakersProofs`, `GrantStreamProofs`, `SecurityCouncilProofs`, `NativeFundsProofs`, `OptimizedGrantsProofs`, `DonorReputationProofs`, `SafeguardProofs` | theorems | TLAPS |

**Correspondence.** One action is one invocation, named after the entry point. The
host rolls back an invocation that returns `Err` or panics, so an early return, a
checked operation that fails and a transfer the contract cannot pay are guards.
Storage keys are variables (or fields of `breaker` and `book`), a missing key is
`Absent`, `None`, `Unset` or 0 as the code's `unwrap_or` reads it. `require_auth` is
the choice of caller and leaves no guard where that caller may come at any time.
`ids` and `recipientGrants` count how often an id occurs in the stored vector, so
that "remove the first occurrence" and "rebuild without" stay different. `paid`,
`clawbacks`, `fresh`, `undisturbed`, `payments`, `short` and `log` are auxiliary: no guard
reads them. `owed` and `pruned` are too, but for their bounds `MaxOwed` and `MaxPrunings`. In the later modules `earned`,
`exit`, `signed`, `lapse`, `flagged`; `opening`, `given`, `paid`; `reconfigured`,
`donated`, `committed`, `due`, `unbacked`, `claimed`, `again`; `base`, `grown`, `produced`; `vetoes`, `released`; `below`;
`agreed` and `claims` are; each is named so where it is declared.
`GrantContract`, `YieldTreasuryContract`, `DonorReputationContract` and the pool are plain
structs without `#[contract]`: an entry point that calls them is assumed to pass an
`Err` on, so that it rolls back as elsewhere.

`Safeguards` runs seven contracts that do not call each other. Their interleavings would
only multiply states, so `contract`, chosen in `AllInit`, is the one whose steps are taken.
The hash of `CommitReveal` is its preimage, encoded as the code concatenates it, so two
bids whose encodings coincide have one commitment. Time in `DeadMansSwitch` is the
time since the last activity, which needs no bound.

**Amounts.** Amounts are naturals. `i128` overflow is checked everywhere on these
paths and returns `Err`, so it only disables steps and is left out; the one
unsigned subtraction that is not checked, `switch_ts - last_update_ts`, is the guard
`CanSettle` and the run `settle_traps`. Basis points are parameters: the runs use
BPS = 4 with a validator share of 1/4 and a warm-up floor of 1/4, and a unit of 20
for the breakers, so that roundings happen with one-digit amounts. The theorems
hold for the code's 10000, 500, 2500, 5000, 2000 and 1500.

**What is assumed of the environment.** Soroban forbids re-entry, so
`try_call_on_withdraw` cannot call back. The grant token is not the native token.
Nobody sends grant tokens to the contract after `InitialBalances`: deposits would
only enable more transfers. The ledger starts at timestamp 1: 0 is the code's "not
set" for `effective_timestamp` and `cancellation_initiated_at`. An address that a
constructor takes (grantee, validator, donor) is one of a small set.

**Left out of `GrantStream`.** Confidential claims, in `ConfidentialGrants`, and
`execute_rescue`, in `RescueMultisig`, also take from the grant token balance; SEP-38
values, `emergency_pause` and the views change nothing a guard reads.
`claim_milestone_funds` and `emergency_governance_withdraw` read persistent keys nothing
writes, so they always fail. `PruneFinalizedGrant` also removes milestone records, which
are in `Milestones`.

## 3. Runs

TLC, all exhaustive.

| Run (cfg) | Instance | Asks | |
|---|---|---|---|
| `breakers` (`Breakers.cfg`) | two amounts, two prices, two snapshots, active counts 0 and 7, two disputes, three withdrawals, windows 2 and 3, times 1..4 | is the accumulator the window's total; does one withdrawal at most pass the limit; halt at the threshold; prices and rent beside them | pass |
| `lifecycle` (`Lifecycle.cfg`) | one grant, total 7, rates 2 and 4, warm-up 0 or 2, validator, donor, legal gate, two grantees, times 1..4, symmetric | the accounting of `settle_grant` and of every payment | pass |
| `two_grants` (`TwoGrants.cfg`) | two ids, two grantees, total 4 each, 8 tokens, times 1..3, symmetric; or one grant of 4 at rate 4, 5 tokens, under all breakers and their operators, times 1..2 | indices, audit leaf, cross-grant payments, rescue; refinement of `CircuitBreakers`; payments under an engaged breaker | pass |
| `council` (`Council.cfg`) | four addresses, three councils of three seats, two signatures, two ids | vetoes, executions, rotations | pass |
| `native_funds` (`NativeFunds.cfg`) | one id pruned at most twice, two milestone indices, deposit 2, bounties 1, balance up to 4; three addresses, two vectors of three signers, thresholds 2 and 3, one proposal | are deposits returned once, lost only to a pruning, and covered; does the nonce count; who stands behind a rescue | pass |
| `programs` (`Programs.cfg`) | one id, total 3, rates 1 and 2, two masks of each program, two oracles of which both must agree, a deadline and a window, two tokens of which one is wrapped, 3 tokens held, times 0..3 | what either program books and pays, who agreed to a milestone, what an exit ends | pass |
| `matching` (`Matching.cfg`) | two donors, two projects, two tokens, one pool of 3 that may be opened anew in either, donations of 1 and 2, at most 2 in a token, lists of one or two projects (one repeated), two recorded projects, symmetric | ratings and completions; what a round divides; how far payments reach into donations | pass |
| `safeguards` (`Safeguards.cfg`) | each of seven contracts: amounts 1 to 3 at yields of 40% and 70% a unit; three queued transfers; two keyholders; four changes; four bids; three disputes; two confidential grants, modulus 4 | a property of each, and that a silent admin is replaced | pass |
| `freeze_lifted` (`FreezeLifted.cfg`) | breakers, prices 4, 5 and 8, one sanity oracle | the end of a freeze in the file header | refuted |
| `rolling_window` (`RollingWindow.cfg`) | breakers with four withdrawals, window 2, times 1..6 | the rolling window of the file header | refuted |
| `overpaid` (`Overpaid.cfg`) | as `lifecycle` | distributed at most total_amount | refuted |
| `settle_traps` (`SettleTraps.cfg`) | as `lifecycle` | settling always succeeds | refuted |

**Why the bounds are enough.** In `lifecycle` a total of 7 is passed at rate 4 within
two ticks, so grants complete, overshoot and are trimmed with time left for a
withdrawal, a pause and a clawback; the rate timelock of 1 lets a pending rate fall
due before, at and after a settlement; a balance of 8 lets one overpayment through
and stops the next. A multiplier of 8 units doubles the rate of 2 and is stopped at
`MaxRate` = 4. `two_grants` funds both grants and no third, so a rescue, a
re-creation after purge and a withdrawal beyond the fund all occur. Its second scenario uses one
id and one grantee (`OneGrant`): a grant completes within one tick, its first withdrawal of 2
reaches the drain limit, and the second must wait. The rates of the two scenarios differ, so
that neither adds rate changes to the other (`AtRate`). The window
length of 2 with times up to 4 gives one window after another, and the three
withdrawals fall on both sides of its end, at it, and around a resume. `breakers` takes
the counts where 15% of the active grants decides: none, which never halts, and 7, where
the second dispute does. The council's three vectors are the cases that differ: two that
share members, one in which an address has two seats; two ids suffice for one to be
re-issued after `initialize_council` resets the counter. `native_funds` needs one id,
because deposits are kept apart by key, and a balance of two deposits: a third is
refused and a bounty of 1 already breaks into a stored one. `MaxNonce` = 2 lets both
indices be used. Two prunings (`MaxPrunings`) leave an id whose keys twice still hold the deposit
of an earlier grant, and `MaxOwed` = 3 lets each of these be paid anew and one be overwritten. The second signer vector drops one address, and lists
another twice, which the code does not refuse.

In `programs` a total of 3 is reached at either rate within the clock, so a grant
completes by itself, by expiry or by termination. The second masks are ACTIVE and CANCELLED at once,
and PAUSED and CANCELLED, which the constructors admit. One token is opened empty, one with more than
its total claimable, one with a negative claim, which `add_token_to_grant` does not refuse.
The requests are single, repeated for one token and mixed, of which one part may be
halted or excessive. One id suffices: no operation reads another id's record, and both
programs compete for it. `matching` keeps what the two halves of the module need. Ratings are
checked over projects of one or two milestones, recorded again by either donor, completed and
cancelled, without a pool. Beside a pool only one project, of one milestone, is recorded
(`OneProject`), so that a donor's weight changes between donations; the configuration is
stored by then, and its default multiplier (`Maxima` empty) is kept. Once a round is divided ratings
rest (`Closing`), and what follows are payments, a new round in either token, its donations and its
division; after a payment no round stands for, payments and divisions. `MaxCommitted` = 6 is two
rounds, one more than the 3 tokens held of each kind can pay. A pool of 3 over shares 1 to 6 divides with and without a
remainder. In `safeguards` the numbers make roundings and coincidences happen: three
disputes over two amounts with awards from -1 to 4; two transfers that share an id (1 xored with
a shifted 1 is 0, with `ID_SHIFT` 1) with different maturities; a limit of one change per ledger raised to 2 and
lowered to 0; two bids whose encodings coincide; a claim of exactly the modulus, below it and
above, with nullifiers that expire.

**Fairness.** The contracts are passive: nothing happens unless somebody calls,
and nothing in the code schedules a caller. One component is about that very silence, the
dead man's switch, and there a liveness property is stated. `AllFairness` has two parts.
`Elapse`, weakly fair: ledgers close whether or not anybody calls. `ClaimAdmin`, weakly
fair: a vault that may claim for ever at some point does, which is what a vault is
appointed for; the code lets it, and nobody else must act. Nothing is assumed of the admin:
`SilenceEndsInRecovery` says that either an initialized switch leads to recovery or
activity is recorded again and again. No other liveness is justified, and none is stated.
Deadlock is checked where a breaker operation is always enabled and switched off where the
bounded clock and ids stop the model.

`UnhinderedSpec` (in `lifecycle`, and `GrantNext` in the first scenario of `two_grants`) leaves out
the operators of the breakers. A breaker only disables steps of `GrantNext`, so as long as the
rent buffer is not touched every sequence of grant operations of `Spec` is one of
`UnhinderedSpec`'s; nothing is lost for safety. The first scenario starts with more native tokens
than its bounties can take before the grant tokens are gone.

## 4. Proofs

Every safety invariant and action property the passing runs check is a theorem of its
specification (`Spec`, `HSpec`, `PSpec`, `RSpec`, `MSpec`, `YSpec`, `AllSpec` and so on), for
every value of the constants that satisfies the named assumptions. Those ask that amounts, times
and limits be naturals (positive where the code divides or refuses 0), that markers such as
`None` be nothing else, and that `Ids`, `Oracles`, `Indices`, `Pools`, `Projects` and the
milestones priced in a bid be finite. The runs evaluate them.

* **Sums and recursion** (`SumTheorems`). Several properties compare an amount with a sum over
  grants, transfers or contributions, and `SumFunctionOnSet` of the community modules is a
  recursive fold. The library's induction rules take a predicate as a parameter, which none of
  the provers can instantiate. Here induction is about a set instead: a set of naturals that has
  0 and is closed under +1 is `Nat` (`SetInduction`, from `LeastElement`). From it come
  induction over finite sets, the existence of the fold's recursive function, and what sums do
  when an element is added, changed, renamed, compared or scaled.
* **Accounting** (`GrantStreamProofs`). `IInv == TypeOK /\ GrantsSound`. `GranteeCapped` alone
  is not inductive: a clawback or a cancellation reads all four amounts, and the status decides
  what may still accrue. `Sound(g)` therefore relates the four amounts, the validator and the
  status of one grant. `SettleSound` shows that settling keeps it, from lemmas on quotients, the
  validator's share, the warm-up multiplier, the split, accrual over a rate switch and the cap.
  Each entry point is then one `GrantMove`: a record write that keeps the grant sound.
  `GranteeCapped`, `PromiseBacked` and `CompletedFullyAccounted` follow from `IInv`, and the
  action properties `TerminalStatus` and `LegalGate` from what the moves may do.
* **Payments** (`PaymentsCovered`). `DebitsCovered` says that a step pays no more than it takes
  off what the grant is owed, in the cases it names. `Debited` says so of one record and its
  escrow; each entry point is a settlement followed by one write that is `Debited`, and a purge
  removes a debt that is never negative (`IInv`). Every other grant keeps its record, escrow and
  payments, so no grant is paid from what another is owed.
* **Rescues** (`RescuesLeaveClaims`). `rescue_tokens` compares with a sum over the stored vector
  of ids, the property with one over the grants that can claim; they agree because a stored
  grant is listed once (`IndexConsistent`), and what is claimable lies within its total
  (`IInv`). Only `RescueGrantTokens` moves tokens that are no payment (`OnlyRescuesAreUnpaid`).
* **Indices** (`IndicesExact`). By itself inductive with `TypeOK`.
* **Refinement** (`BreakersRefined`). Every step of `GrantStream` is a `CircuitBreakers` step or
  leaves the breakers alone; `UnhaltedBelowThreshold` then holds of the whole contract.
  `BreakersStopGrantees` follows from the same case split.
* **Breakers** (`CircuitBreakersProofs`). Types and the dispute threshold; and for
  the log of withdrawals `AccumulatorExact` and `LimitPassedOnce`. `HInv` adds two parts to the first: `InWindow`, no logged withdrawal lies after the window in force, without which an
  old one might be counted in the next window; and `Undrained`, the total reaches the limit only
  with the soft pause engaged, and without its last withdrawal not at all.
* **Council** (`SecurityCouncilProofs`). `RotationSound` ties a pending rotation's deadline to
  its proposal; `ActionSound` ties clawbacks to status and timelock. `fresh[id]` keeps who signed
  the action as it is stored now under the present council. `PendingBelowThreshold` needs that
  these are among the stored signatures (`FreshAmongSigned`): `sign_veto` counts at least them, so
  the signature that completes a threshold vetoes (`ThresholdVetoes`).
* **Deposits** (`NativeFundsProofs`). `DepositsAccounted` bounds what is taken for an index and
  neither stored nor returned by the number of prunings. It is not inductive: a second submission
  of a key replaces a stored deposit. `LossesCounted` says how often that can be: a deposit can be
  overwritten only while its milestone is forgotten (`Exposed`), which one pruning makes it and the
  overwriting submission ends, and `submit_milestone_proof` refuses a stored milestone. `DepositsFunded` counts the deposit keys, with the library's facts on
  cardinalities.
* **Rescues** (`NativeFundsProofs`). `MultisigInv` says that payments follow the status
  (`Settled`), that the length of a proposal's approvals is the number of different addresses in
  it (`Counted`), and that ids above the counter are unused.
* **Bit-mask grants** (`OptimizedGrantsProofs`). `IInv` is `TypeOK` and `Sound` of each grant:
  `Booked` bounds what is accounted by the total, `Backed` adds to it what the next settlement
  may bring (without that, `EarnedWithinTotal` is not inductive, since time passes before it is
  booked), `Agreed` says that approvers are listed oracles who signed the stored evidence,
  `Left` is what an exit leaves behind. `SettledSound` serves every operation that settles.
* **Programs** (`ProgramsShareNothing`, `TokensShareNothing`). The composition implements
  `OptimizedGrants` and `MultiTokenGrants`: neither program's operations touch a key that holds
  the other's grant. `ProgramsAreSound` carries the three properties over.
* **Multi-token grants** (`TokenBooksBounded`, `TokenBooksMatch`). `TokenSound`, of one grant
  and one token: what is booked lies within the total or was so at the opening; booked plus due
  is backed by what the rates have given; and the withdrawn amount is the opening's plus what
  was transferred. A withdrawal is a fold over a vector that may name a token repeatedly; along
  its prefixes the difference between the books and the transfers stays.
* **Reputation** (`DonorReputationProofs`). `Counted`: the counter of completed milestones is at
  most the number of recorded ones, so a counter that reaches the total means all are recorded.
  `Owned`: a project's donor lists it, without which a milestone could leave another donor's
  rating stale. `PoolRespectsReputation`: every step of the pool, its lookups included, is a
  step of `DonorReputation` or leaves it alone.
* **Matching pool** (`MatchingIsDivided`, `DonationsAreKept`). `PoolInv` says of each
  stored pool that its round is either undivided and whole or `Divided`: remainder and matches
  make up the amount, and who received more is not matched less. The code's integer square root
  is iterated a fixed number of times and not exact; it is monotone all the same, for any number
  of iterations, and the floors of the shares add up to at most the amount. For each
  token, what was paid in it, what is matched and still due in it and what its rounds have not
  divided add up to at most what was committed in it and what was paid with no round behind it
  (`Owed`, `Covered`): `DonationsKept` is not inductive without the other two. A match whose pool
  changed its token stays due in the old one, and paying it is `unbacked`.
* **Yield treasury and confidential grants** (`SafeguardProofs`). `YInv` adds to
  `TreasuryConserved` that a position's value is the sum of its parts; lemmas on shares and
  ratios give `HealthViewsAgree`. `PInv` adds to `ClaimsWithinCommitment` that nothing was
  claimed of a grant before its creation.
* **Disputes, monitor, speed bump, bids** (`SafeguardProofs`). `EscrowCovered` is inductive with
  types: a ruling takes one term out of the sum. `BurstsDelayed` needs that the counter is the
  number of changes proposed in the ledger it speaks of (`Counted`). `VetoBlocksId` needs
  `VetoesStand`: for each vetoed id the first entry of the queue that has it is marked; entries
  are only appended, so it stays the first, and the loops of the code stop there.
  `AmountBinding` needs `RevealedAsCommitted` and that an encoding starts with the amount,
  whatever costs and salt follow.
* **Side by side** (`ContractsRunAlone`, `SafeguardsHold`). `AllSpec`, the specification of the
  run `safeguards`, implements the specification of each of these six contracts, and so has all
  seven properties.

**Only model-checked.** `SilenceEndsInRecovery` is liveness under fairness, which is out of this
prover's reach; the dead man's switch has no other property. The four refuted statements are
TLC's counterexamples. No module that a theorem depends on declares a RECURSIVE operator.

## 5. Where the code departs from its documents

* `SECURITY_INVARIANTS.md` bounds what is distributed by the grant's amount; cancelling
  a grant twice, or after a clawback, pays the unearned amount again (`overpaid`).
* `MONOTONIC_PROOF.md` assumes a pending switch never lies before the last settlement;
  pausing past it and resuming makes every later settlement trap (`settle_traps`).
* `circuit_breakers.rs` announces a rolling window and keeps a tumbling one (`rolling_window`).
* The same header leaves the end of an oracle freeze to a sanity oracle; the next price near the
  old one ends it (`freeze_lifted`).

Stated as exceptions in the properties, or visible in an action and its comment:

* `docs/SECURITY_COUNCIL.md` says that an action with three signatures is vetoed. After a
  rotation that brings in somebody who had signed, or on an id that
  `initialize_council` hands out again, an action can be Pending with three counting
  signatures until someone else signs: `PendingBelowThreshold` counts the signatures given to the
  action as it is stored now, under the present council. The document speaks of members and the
  code counts seats, so that an address with two seats counts twice.
* `lib.rs:1953` says that every grant's nonce starts at 0. A purge keeps the nonce and the
  milestones, so a grant created again under the id starts where the last one ended and
  is refused its indices; a pruning removes the milestones by nonce, not by index, so
  some may stay. It leaves the deposits, and the next proof for a forgotten index overwrites one:
  `DepositsAccounted` allows one loss of an index for each pruning. Refunds go to the grantee of the day.
* `multi_threshold.rs` and `docs/SECURITY_INVARIANTS.md:105` speak of 3 of 5; the standard
  threshold is 3 of the 10 signers, and `execute_rescue` ignores the allocated funds that `rescue_tokens` and
  `docs/SECURITY_INVARIANTS.md:144` protect.
* The sanity oracle is written under one key and read under another, and the freeze it
  would clear has a third: confirmation never succeeds.
* Claims left at a cancellation, and a Completed grant's remainder below the minimum
  withdrawal, can neither be withdrawn nor purged.
* Returning an escrow to a grant raises its total and also sends the tokens to the
  treasury; an escrow survives the purge of its grant.
* `MONOTONIC_PROOF.md:97` says claimable never decreases with time; an overshooting
  settlement keeps the validator's share whole and cuts the grantee's.
* `SECURITY_INVARIANTS.md:112` calls the signer set immutable; the admin can replace it at any
  time, and approvals of those who left still count.
* Bit-mask grants: `approve_milestone` lifts PAUSED without settling, so the paused time
  is paid, against the comment at `optimized.rs:225`; `EarnedWithinTotal` excepts it (`lapse`). `set_grant_flags`
  can reopen a grant its grantee left; `ExitIsFinal` excepts it (`flagged`). `cancel_grant_bitmask` leaves
  ACTIVE beside CANCELLED; a completion found in a settlement is overwritten by masks computed
  before it; what is claimable at completion is stranded; a new milestone deadline keeps the old
  approvers and evidence; `mark_milestone_met` cannot succeed.
* Multi-token grants: a token may be created with more claimable than its total; `add_token` does
  not settle first, so the new token accrues from the last settlement on, and checks neither
  `withdrawn` nor `claimable`, which may be negative; a token requested
  twice in one vector is reported once; configuring a halted asset anew lifts the halt; a failing
  transfer undoes the whole vector.
* Reputation: recording a project again replaces its metrics and donor and keeps its milestones,
  although `DONOR_REPUTATION_SYSTEM.md:110` has a project funded once per donor; a Cancelled project can
  still complete; milestones may be recorded by anyone.
* Matching pool: initializing a pool again keeps donations, contributions and matches; a
  match may be distributed repeatedly, and in the token of a later round; nobody is asked for the
  matching amount, so that matches are paid from the donations too. `DonationsKept` says how far.
* Yield treasury: `auto_invest` "can be called by anyone" but needs the admin; divesting credits the
  reserve with yield no vault paid out; an emergency withdrawal touches no book; the external vault has no
  rate and always fails.
* Speed bump: ids repeat, and an older entry that is due hides a younger one of its id
  from the veto; the snapshot does not follow payments; initializing again forgets queue and vetoes.
* Dead man's switch: `record_activity` is public, so anybody can put recovery off; there is only one recovery.
* Activity monitor: a Cancelled change can be executed; while disabled, changes are not recorded; only
  the changes beyond the limit wait longer, not, as the header says, all of that ledger. One of its
  event symbols is longer than `symbol_short!` admits, so the file would not compile.
* Sealed bidding: any address opens and closes it; the costs in a bid are not binding, because the
  encoding has no separators; a bid may be revealed again; bidding reopened after reveals takes new commitments.
* Arbitration: a negative award to one party lets the other exceed the amount; what is not awarded stays.
* Confidential grants: a claim of exactly the modulus leaves the commitment as it was; nullifiers live in
  temporary storage that nobody extends, under one key for all grants.

## 6. Not modelled

Reentrancy guard (the entry points do not use it, and the host forbids re-entry); storage keys and
dashboard (no state of their own); the four files of the crate no `mod` reaches; compliance and identity
registries (flags set and read back); the vesting placeholder; the contributed modules, the drafts in
`grant_contracts`, the award and archive sketches (in no crate, partly mocks); the HTTP front (stateless).
Of the modelled components: the SEP-38 values and the pure vesting curves of `lib.rs`, the heartbeat and the manual
rate of the breakers, which have no caller, and the flow history of the tax report.

Worth adding: **ProtectedClawback**, the council composed with `GrantStream`'s `CancelGrant`; the flow
history; safety of the dead man's switch; the succession and upgrade drafts of `grant_contracts`, should
a crate include them.

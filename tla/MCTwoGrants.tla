---------------------------- MODULE MCTwoGrants ----------------------------
(***************************************************************************)
(* GrantStream in two scenarios, that differ in who acts beside the        *)
(* grants. In the first two grants share the contract and nobody operates  *)
(* a breaker. In the second one id and one grantee are used, at a rate of  *)
(* its own, and every breaker and every operator of one acts. operated     *)
(* tells the scenario; it never changes.                                   *)
(***************************************************************************)
EXTENDS MCGrantStream

CONSTANTS
  OperatedBalance, OperatedRate, OperatedTime, OperatedXlm      \* the second's

VARIABLE operated

mcvars == <<vars, operated>>

Unused(g) ==
  ~Stored(g) /\ paid[g] = 0 /\ book.leaf[g] = 0 /\ g \notin book.tombstones

AtRate(rates) ==
  \A g \in Ids : Stored(g) =>
    grant[g].flow_rate \in rates /\ grant[g].pending_rate = 0

OneGrant ==
  /\ time <= OperatedTime /\ breaker.xlm <= OperatedXlm
  /\ AtRate({OperatedRate})
  /\ \E g \in Ids : \A h \in Ids \ {g} : Unused(h)
  /\ \E r \in Recipients : \A g \in Ids, s \in Recipients \ {r} :
       recipientGrants[s][g] = 0 /\ book.flow[s] = 0

(* A contract nobody sends native tokens starts with the most it may have, *)
(* so that its bounties leave the rent buffer alone.                       *)
MCInit ==
  /\ Init
  /\ operated \in BOOLEAN
  /\ operated <=> balance = OperatedBalance
  /\ IF operated THEN breaker.xlm <= OperatedXlm ELSE breaker.xlm = MaxXlm

MCNext ==
  /\ \/ operated /\ Next /\ OneGrant'
     \/ ~operated /\ GrantNext /\ AtRate(Rates \ {OperatedRate})'
  /\ UNCHANGED operated

MCSpec == MCInit /\ [][MCNext]_mcvars

=============================================================================

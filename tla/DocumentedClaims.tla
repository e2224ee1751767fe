-------------------------- MODULE DocumentedClaims --------------------------
(***************************************************************************)
(* What the repository's documents say of GrantStreamContract and its code *)
(* does not do. Each is the property of a run that refutes it.             *)
(***************************************************************************)
EXTENDS GrantStream

(* "The sum of all distributed funds can never exceed the initial grant    *)
(* amount" (SECURITY_INVARIANTS.md), about everything paid for a grant     *)
(* since create_grant.                                                     *)
DistributedWithinTotal ==
  \A g \in Ids : Stored(g) => paid[g] <= grant[g].total_amount

(* The switch to a pending rate lies between the last settlement and now   *)
(* (docs/MONOTONIC_PROOF.md, Lemma 3), so settle_grant always returns.     *)
SettleSucceeds == \A g \in Ids : Stored(g) => Settles(g)

=============================================================================

--------------------------- MODULE MCGrantPrograms --------------------------
(***************************************************************************)
(* Small inputs for GrantPrograms: both oracles listed; masks that leave a *)
(* bit-mask grant ACTIVE, or ACTIVE although CANCELLED, and a multi-token  *)
(* grant ACTIVE, or PAUSED for good; a token opened empty, one beyond its  *)
(* total and one with a negative claim, which only add_token_to_grant      *)
(* takes.                                                                  *)
(***************************************************************************)
EXTENDS GrantPrograms, TLC

AllOracles == {Oracles}
AdminMasks == {{"ACTIVE", "MILESTONE_BASED"},
               {"ACTIVE", "CANCELLED", "MILESTONE_BASED"}}
FirstMasks == {{"ACTIVE"}, {"PAUSED", "CANCELLED"}}

Opened(total, withdrawn, claimable, rate) ==
  [total_amount |-> total, withdrawn |-> withdrawn, claimable |-> claimable, flow_rate |-> rate]
SmallBalances == {Opened(3, 0, 0, 1), Opened(2, 1, 2, 1), Opened(2, 0, -1, 2)}

Request(t, n) == [token |-> t, amount |-> n]
SmallRequests ==
  LET Alone == [token : Tokens, amount : {1, 2}] IN
  {<<r>> : r \in Alone} \cup {<<r, r>> : r \in Alone}
    \cup {<<Request(t, 1), Request(u, 2)>> : t, u \in Tokens}

OracleSymmetry == Permutations(Oracles)

=============================================================================

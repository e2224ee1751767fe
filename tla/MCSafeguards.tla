---------------------------- MODULE MCSafeguards -----------------------------
(* Small instances of the contracts beside the grant stream.               *)
EXTENDS Safeguards

MCConfigs ==
  {[min_reserve_ratio |-> r, max_investment_ratio |-> 5, auto_invest |-> TRUE,
    apy |-> 7, emergency_withdrawal_enabled |-> TRUE] : r \in {0, 3}}

MCInitialConfig == [max_changes |-> 1, mandatory_timelock |-> 2]

MCMonitorConfigs ==
  {[max_changes |-> 2, mandatory_timelock |-> 3], [max_changes |-> 0, mandatory_timelock |-> 2]}

(* The costs of the second bid encode like the salt of the first.          *)
MCBids ==
  {[amount |-> 5, milestone_costs |-> (1 :> 2), salt |-> <<1, 7>>],
   [amount |-> 5, milestone_costs |-> (1 :> 1) @@ (2 :> 7), salt |-> <<>>],
   [amount |-> 1, milestone_costs |-> <<>>, salt |-> <<2, 5, 1, 7>>],
   [amount |-> 2, milestone_costs |-> <<>>, salt |-> <<>>]}

MCAwards == -1..4

=============================================================================

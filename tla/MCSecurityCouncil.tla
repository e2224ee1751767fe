------------------------- MODULE MCSecurityCouncil --------------------------
(***************************************************************************)
(* SecurityCouncil with four addresses and three councils to choose from:  *)
(* two that share two members, and one in which an address has two seats.  *)
(***************************************************************************)
EXTENDS SecurityCouncil

CONSTANTS a1, a2, a3, a4

MCCouncils == {<<a1, a2, a3>>, <<a2, a3, a4>>, <<a1, a1, a4>>}

=============================================================================

---------------------------- MODULE GrantPrograms ---------------------------
(***************************************************************************)
(* The two grant programs of GrantContract in contracts/grant_stream/src:  *)
(* optimized.rs and multi_token.rs keep their grants under the same key    *)
(* DataKey::Grant(id), so that an id belongs to one of them for ever.      *)
(* Each reads the other's record as its own type, which traps.             *)
(***************************************************************************)
EXTENDS OptimizedGrants

CONSTANTS
  Tokens, Wrappable, Balances, TokenRates, TokenMasks, Requests, Funds

VARIABLES
  mgrants, wrapped, balance, opening, given, paid

MT == INSTANCE MultiTokenGrants WITH Rates <- TokenRates, Masks <- TokenMasks

ASSUME TokensAssumption == MT!MultiTokenAssumption

tokenVars == <<mgrants, wrapped, balance, opening, given, paid>>

PInit == Init /\ MT!MInit

OptimizedStep ==
  /\ \E id \in Ids : mgrants[id] = None /\ (AdminNext(id) \/ GranteeNext(id))
  /\ UNCHANGED tokenVars

MultiTokenStep ==
  /\ \E id \in Ids : grants[id] = None /\ MT!MultiTokenNext(id)
  /\ UNCHANGED <<grants, aux>>

(* Only multi_token_withdraw reads the assets' configuration: setting one  *)
(* up before there is a multi-token grant is left out, as it commutes with *)
(* every other step.                                                       *)
AssetStep ==
  /\ \E id \in Ids : mgrants[id] # None
  /\ MT!AssetNext
  /\ UNCHANGED <<grants, aux>>

PNext == OptimizedStep \/ MultiTokenStep \/ AssetStep \/ (Tick /\ MT!MTick)

PSpec == PInit /\ [][PNext]_<<vars, tokenVars>>

(***************************************************************************)
(* Properties.                                                             *)
(***************************************************************************)

(* See TokensWithinTotal and BooksMatchTransfers of MultiTokenGrants.      *)
TokensWithinTotal   == MT!TokensWithinTotal
BooksMatchTransfers == MT!BooksMatchTransfers

=============================================================================

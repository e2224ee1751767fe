----------------------------- MODULE LedgerClock -----------------------------
(***************************************************************************)
(* The ledger's timestamp, as the small contracts that wait for a time see *)
(* it: one number that goes up between transactions. A unit stands for one *)
(* ledger where a contract counts ledgers.                                 *)
(***************************************************************************)
EXTENDS Integers

CONSTANTS
  MaxTime                 \* bound: the ledger clock

VARIABLES
  now                     \* env.ledger().timestamp()

ClockTick ==
  /\ now < MaxTime
  /\ now' = now + 1

=============================================================================

------------------------------ MODULE SpeedBump ------------------------------
(***************************************************************************)
(* contracts/treasury/speed_bump.rs: a transfer of more than a tenth of    *)
(* the treasury is queued for three days, in which the admin may veto it.  *)
(* The queue is a vector searched by id; a vetoed transfer stays in it.    *)
(* ids are the ledger time xored with the shifted amount, so that requests *)
(* may share one.                                                          *)
(***************************************************************************)
EXTENDS LedgerClock, SequencesExt

CONSTANTS
  Uninitialized,          \* no treasury snapshot stored
  DELAY_SECONDS,          \* 72 hours
  THRESHOLD_BPS,          \* 1000, of
  BUMP_BPS,               \* 10000
  ID_SHIFT,               \* 2 to the power of 8
  Treasuries,             \* snapshots an admin reports
  Transfers,              \* amounts approved
  TreasuryFunds,          \* the contract's token balance to begin with
  MaxPending              \* bound: length of the queue

SpeedBumpAssumption ==
  /\ {DELAY_SECONDS, THRESHOLD_BPS, ID_SHIFT, TreasuryFunds, MaxPending} \subseteq Nat
  /\ BUMP_BPS \in Nat \ {0}
  /\ Treasuries \subseteq Nat /\ Transfers \subseteq Nat
  /\ Uninitialized \notin Nat

VARIABLES
  treasury,               \* TotalTreasury
  transfers,              \* PendingTransfers
  held,                   \* what the contract holds of the token
  vetoes,                 \* auxiliary: ids vetoed since initialize
  released                \* auxiliary: the id the last step executed, in a set

bvars == <<now, treasury, transfers, held, vetoes, released>>

BInit ==
  /\ now = 0
  /\ treasury = Uninitialized
  /\ transfers = <<>>
  /\ held = TreasuryFunds
  /\ vetoes = {}
  /\ released = {}

(* The first entry with an id: what the loops of execute_transfer and      *)
(* veto_transfer find.                                                     *)
Entry(id) == SelectInSeq(transfers, LAMBDA t : t.id = id)

(* The exclusive or of two numbers, bit by bit.                            *)
Xor[p \in Nat \X Nat] ==
  IF 0 \in {p[1], p[2]} THEN p[1] + p[2]
  ELSE ((p[1] + p[2]) % 2) + 2 * Xor[<<p[1] \div 2, p[2] \div 2>>]

TransferId(amount) == Xor[<<now, amount * ID_SHIFT>>]

(* Can be called again, by any address, and forgets what is queued.        *)
InitializeBump(balance) ==
  /\ treasury' = balance
  /\ transfers' = <<>>
  /\ vetoes' = {}
  /\ released' = {}
  /\ UNCHANGED <<now, held>>

Pay(amount) ==
  /\ amount <= held
  /\ held' = held - amount

QueueTransfer(amount) ==
  /\ Len(transfers) < MaxPending
  /\ transfers' = Append(transfers,
                         [id |-> TransferId(amount), amount |-> amount,
                          executable_after |-> now + DELAY_SECONDS, vetoed |-> FALSE])

(* The snapshot does not follow what is paid.                              *)
ApproveTransfer(amount) ==
  /\ treasury # Uninitialized
  /\ \/ /\ amount > (treasury * THRESHOLD_BPS) \div BUMP_BPS
        /\ QueueTransfer(amount)
        /\ UNCHANGED held
     \/ /\ amount <= (treasury * THRESHOLD_BPS) \div BUMP_BPS
        /\ Pay(amount)
        /\ UNCHANGED transfers
  /\ released' = {}
  /\ UNCHANGED <<now, treasury, vetoes>>

(* Mutant: the search passes over vetoed entries.                          *)
ExecuteUnvetoed(id) ==
  LET i == SelectInSeq(transfers, LAMBDA t : t.id = id /\ ~t.vetoed) IN
  /\ treasury # Uninitialized
  /\ i # 0
  /\ now >= transfers[i].executable_after
  /\ Pay(transfers[i].amount)
  /\ transfers' = RemoveAt(transfers, i)
  /\ released' = {id}
  /\ UNCHANGED <<now, treasury, vetoes>>

ExecuteTransfer(id) ==
  LET i == Entry(id) IN
  /\ treasury # Uninitialized
  /\ i # 0
  /\ ~transfers[i].vetoed
  /\ now >= transfers[i].executable_after
  /\ Pay(transfers[i].amount)
  /\ transfers' = RemoveAt(transfers, i)
  /\ released' = {id}
  /\ UNCHANGED <<now, treasury, vetoes>>

(* An older entry of the same id that can already be executed hides the    *)
(* younger one from the veto.                                              *)
VetoTransfer(id) ==
  LET i == Entry(id) IN
  /\ treasury # Uninitialized
  /\ i # 0
  /\ now < transfers[i].executable_after
  /\ transfers' = [transfers EXCEPT ![i].vetoed = TRUE]
  /\ vetoes' = vetoes \cup {id}
  /\ released' = {}
  /\ UNCHANGED <<now, treasury, held>>

UpdateTreasuryBalance(balance) ==
  /\ treasury # Uninitialized
  /\ treasury' = balance
  /\ released' = {}
  /\ UNCHANGED <<now, transfers, held, vetoes>>

BTick ==
  /\ ClockTick
  /\ released' = {}
  /\ UNCHANGED <<treasury, transfers, held, vetoes>>

BNext ==
  \/ \E balance \in Treasuries : InitializeBump(balance) \/ UpdateTreasuryBalance(balance)
  \/ \E amount \in Transfers : ApproveTransfer(amount)
  \/ \E i \in DOMAIN transfers :
       ExecuteTransfer(transfers[i].id) \/ VetoTransfer(transfers[i].id)
  \/ BTick

BSpec == BInit /\ [][BNext]_bvars

(* A veto holds for the id, whatever is queued under it before or after:   *)
(* no transfer with a vetoed id is paid until the contract is initialized  *)
(* anew, although ids repeat and execution moves the entries up.           *)
VetoBlocksId == released \cap vetoes = {}

=============================================================================

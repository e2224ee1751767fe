-------------------------- MODULE SecurityCouncil ---------------------------
(***************************************************************************)
(* The Security Council (contracts/grant_stream/src/security_council.rs)   *)
(* and its entry points in lib.rs: governance actions wait out a timelock, *)
(* in which REQUIRED_SIGNATURES seats of the council can veto them, and    *)
(* the council is replaced by a rotation with a timelock of its own.       *)
(*                                                                         *)
(* The council is the vector the code stores: one address may hold several *)
(* seats. No function decides anything by an action's type, target,        *)
(* initiator or parameters, and ActionIds is only ever read back: they are *)
(* left out.                                                               *)
(***************************************************************************)
EXTENDS Naturals, FiniteSets

CONSTANTS
  Addresses,              \* accounts that can be council members
  Councils,               \* vectors of members that may be proposed
  None,                   \* no council, or no council proposed
  COUNCIL_SIZE,           \* 5 in the code
  REQUIRED_SIGNATURES,    \* 3 in the code
  TIMELOCK_DURATION,      \* 48 hours in the code
  KEY_ROTATION_TIMELOCK,  \* 7 days in the code
  MaxActions,             \* bound: action ids
  MaxTime                 \* bound: the last ledger timestamp

ASSUME CouncilAssumption ==
  /\ {COUNCIL_SIZE, REQUIRED_SIGNATURES} \subseteq Nat \ {0}
  /\ {TIMELOCK_DURATION, KEY_ROTATION_TIMELOCK, MaxActions, MaxTime} \subseteq Nat

Seats     == 1..COUNCIL_SIZE
ActionIds == 1..MaxActions

ASSUME CouncilsAssumption ==
  /\ Councils \subseteq [Seats -> Addresses]
  /\ None \notin Councils

VARIABLES
  time,                   \* env.ledger().timestamp()
  members,                \* CouncilMembers, None before initialize_council
  counter,                \* ActionCounter
  action,                 \* PendingAction(id)
  signatures,             \* VetoSignatures(id): who has signed
  rotation,               \* PendingRotation
  clawbacks,              \* auxiliary: cancel_grant calls made under an action
  fresh                   \* auxiliary: who has signed an action as it is stored
                          \* now, under the present council

vars == <<time, members, counter, action, signatures, rotation, clawbacks, fresh>>

(* No function sets the code's status Expired.                             *)
ActionStatus == {"Pending", "Executed", "Vetoed"}

PendingAction ==
  [ created_at    : Nat,
    executable_at : Nat,
    status        : ActionStatus \cup {"Absent"} ]

NoAction == [created_at |-> 0, executable_at |-> 0, status |-> "Absent"]

CouncilRotation ==
  [ proposed_members : Councils \cup {None},
    proposed_at      : Nat,
    executable_at    : Nat,
    executed         : BOOLEAN ]

NoRotation ==
  [proposed_members |-> None, proposed_at |-> 0, executable_at |-> 0, executed |-> TRUE]

TypeOK ==
  /\ time \in 1..(MaxTime + 1)
  /\ members \in Councils \cup {None}
  /\ counter \in 0..MaxActions
  /\ action \in [ActionIds -> PendingAction]
  /\ signatures \in [ActionIds -> SUBSET Addresses]
  /\ rotation \in CouncilRotation
  /\ clawbacks \in [ActionIds -> Nat]
  /\ fresh \in [ActionIds -> SUBSET Addresses]

Init ==
  /\ time = 1
  /\ members = None
  /\ counter = 0
  /\ action = [id \in ActionIds |-> NoAction]
  /\ signatures = [id \in ActionIds |-> {}]
  /\ rotation = NoRotation
  /\ clawbacks = [id \in ActionIds |-> 0]
  /\ fresh = [id \in ActionIds |-> {}]

InStatus(id, status) == action[id].status = status

SetStatus(id, status) == action' = [action EXCEPT ![id].status = status]

(* count_veto_signatures: seats, not addresses, and the present council's. *)
Signed(council, signers) ==
  IF council = None THEN {} ELSE {seat \in Seats : council[seat] \in signers}

CountVetoSignatures(signers) == Cardinality(Signed(members, signers))

ThresholdReached(signers) == CountVetoSignatures(signers) >= REQUIRED_SIGNATURES

(***************************************************************************)
(* The council.                                                            *)
(***************************************************************************)

(* The counter starts again at 0, whatever actions are already stored.     *)
InitializeCouncil(council) ==
  /\ members = None
  /\ members' = council
  /\ counter' = 0
  /\ UNCHANGED <<time, action, signatures, rotation, clawbacks, fresh>>

(* Mutant: a proposal that replaces a pending one inherits its deadline.   *)
ProposeRotationKeepingDeadline(council) ==
  /\ rotation' = [ proposed_members |-> council, proposed_at |-> time,
                   executable_at |-> IF rotation.executed
                                     THEN time + KEY_ROTATION_TIMELOCK
                                     ELSE rotation.executable_at,
                   executed |-> FALSE ]
  /\ UNCHANGED <<time, members, counter, action, signatures, clawbacks, fresh>>

ProposeCouncilRotation(council) ==
  /\ rotation' = [ proposed_members |-> council, proposed_at |-> time,
                   executable_at |-> time + KEY_ROTATION_TIMELOCK, executed |-> FALSE ]
  /\ UNCHANGED <<time, members, counter, action, signatures, clawbacks, fresh>>

(* Actions and their signatures are kept.                                  *)
ExecuteCouncilRotation ==
  /\ ~rotation.executed
  /\ time >= rotation.executable_at
  /\ members' = rotation.proposed_members
  /\ rotation' = [rotation EXCEPT !.executed = TRUE]
  /\ fresh' = [id \in ActionIds |-> {}]
  /\ UNCHANGED <<time, counter, action, signatures, clawbacks>>

(***************************************************************************)
(* Actions.                                                                *)
(***************************************************************************)

(* create_timelocked_action and protected_clawback. No council is needed,  *)
(* and the signatures stored under the id stay.                            *)
CreatePendingAction ==
  LET id == counter + 1
  IN  /\ id \in ActionIds
      /\ counter' = id
      /\ action' = [action EXCEPT ![id] =
           [ created_at |-> time, executable_at |-> time + TIMELOCK_DURATION,
             status |-> "Pending" ]]
      /\ clawbacks' = [clawbacks EXCEPT ![id] = 0]
      /\ fresh' = [fresh EXCEPT ![id] = {}]
      /\ UNCHANGED <<time, members, signatures, rotation>>

(* Mutant: the signatures are counted before the new one is added.         *)
SignVetoCountingFirst(id, signer) ==
  /\ InStatus(id, "Pending")
  /\ signer \notin signatures[id]
  /\ members # None /\ signer \in {members[seat] : seat \in Seats}
  /\ signatures' = [signatures EXCEPT ![id] = @ \cup {signer}]
  /\ IF ThresholdReached(signatures[id]) THEN SetStatus(id, "Vetoed") ELSE UNCHANGED action
  /\ fresh' = [fresh EXCEPT ![id] = @ \cup {signer}]
  /\ UNCHANGED <<time, members, counter, rotation, clawbacks>>

SignVeto(id, signer) ==
  LET signers == signatures[id] \cup {signer}
  IN  /\ InStatus(id, "Pending")
      /\ signer \notin signatures[id]
      /\ members # None /\ signer \in {members[seat] : seat \in Seats}
      /\ signatures' = [signatures EXCEPT ![id] = signers]
      /\ IF ThresholdReached(signers) THEN SetStatus(id, "Vetoed") ELSE UNCHANGED action
      /\ fresh' = [fresh EXCEPT ![id] = @ \cup {signer}]
      /\ UNCHANGED <<time, members, counter, rotation, clawbacks>>

(* Mutants of Execute: a veto is not looked at; a late action expires.     *)
ExecuteVetoed(id) ==
  /\ action[id].status \notin {"Absent", "Executed"}
  /\ time >= action[id].executable_at
  /\ SetStatus(id, "Executed")

(* execute_action.                                                         *)
Execute(id) ==
  /\ action[id].status \notin {"Absent", "Vetoed", "Executed"}
  /\ time >= action[id].executable_at
  /\ SetStatus(id, "Executed")

(* Anyone may consume an action this way; nothing is carried out.          *)
ExecuteTimelockedAction(id) ==
  /\ Execute(id)
  /\ UNCHANGED <<time, members, counter, signatures, rotation, clawbacks, fresh>>

(* Mutant: the action is carried out and not marked.                       *)
ExecuteClawbackUnmarked(id) ==
  /\ InStatus(id, "Pending") /\ time >= action[id].executable_at
  /\ clawbacks' = [clawbacks EXCEPT ![id] = @ + 1]
  /\ UNCHANGED <<time, members, counter, action, signatures, rotation, fresh>>

(* can_execute_action, execute_action and cancel_grant. The grant that is  *)
(* cancelled is the caller's choice, and fails or not on its own account.  *)
ExecuteProtectedClawback(id) ==
  /\ InStatus(id, "Pending") /\ time >= action[id].executable_at
  /\ Execute(id)
  /\ clawbacks' = [clawbacks EXCEPT ![id] = @ + 1]
  /\ UNCHANGED <<time, members, counter, signatures, rotation, fresh>>

Tick ==
  /\ time <= MaxTime
  /\ time' = time + 1
  /\ UNCHANGED <<members, counter, action, signatures, rotation, clawbacks, fresh>>

Next ==
  \/ \E council \in Councils : InitializeCouncil(council)
  \/ \E council \in Councils : ProposeCouncilRotation(council)
  \/ ExecuteCouncilRotation
  \/ CreatePendingAction
  \/ \E id \in ActionIds, signer \in Addresses : SignVeto(id, signer)
  \/ \E id \in ActionIds : ExecuteTimelockedAction(id) \/ ExecuteProtectedClawback(id)
  \/ Tick

Spec == Init /\ [][Next]_vars

(***************************************************************************)
(* Properties.                                                             *)
(***************************************************************************)

(* An action is not left Pending once enough seats of the present council  *)
(* have signed it since that council took office and since the action was  *)
(* stored under its id, whatever rotations and re-used ids came before: no *)
(* member's own signature is lost to what sign_veto kept of the past.      *)
(* Older signatures are not counted here, for nothing but a signature      *)
(* makes sign_veto count, and a rotation or initialize_council can bring a *)
(* threshold of them that nobody notices.                                  *)
PendingBelowThreshold ==
  \A id \in ActionIds : InStatus(id, "Pending") => ~ThresholdReached(fresh[id])

(* A vetoed action is neither executed nor clawed back under, by either    *)
(* entry point and however late, until its id is used for another action.  *)
VetoFinal ==
  [][\A id \in ActionIds :
       InStatus(id, "Vetoed") /\ (counter' = id => counter = id)
         => action'[id] = action[id] /\ clawbacks'[id] = clawbacks[id]]_vars

(* An action carries out at most one clawback, after it was exposed to the *)
(* veto for the whole timelock, and only if it was not used up otherwise.  *)
OneClawback ==
  \A id \in ActionIds :
    clawbacks[id] > 0 =>
      /\ clawbacks[id] = 1
      /\ InStatus(id, "Executed")
      /\ time >= action[id].created_at + TIMELOCK_DURATION

(* A council takes office only after it has been the pending proposal for  *)
(* the rotation timelock: proposing another one starts the wait again.     *)
RotationDelayed ==
  [][members # None /\ members' # members
       => /\ members' = rotation.proposed_members
          /\ time >= rotation.proposed_at + KEY_ROTATION_TIMELOCK]_vars

=============================================================================

----------------------- MODULE SecurityCouncilProofs ------------------------
(***************************************************************************)
(* Theorems of SecurityCouncil, for every council size, threshold and      *)
(* timelock.                                                               *)
(***************************************************************************)
EXTENDS SecurityCouncil, FiniteSetTheorems, TLAPS

USE DEF vars

LEMMA InitTyped == Init => TypeOK
BY CouncilAssumption
   DEF Init, TypeOK, ActionIds, PendingAction, NoAction, CouncilRotation, NoRotation

(* Execute marks a Pending action Executed, and no other.                  *)
LEMMA ExecuteMarks ==
  ASSUME TypeOK, NEW id \in ActionIds, Execute(id)
  PROVE  /\ InStatus(id, "Pending")
         /\ time >= action[id].executable_at
         /\ action' = [action EXCEPT ![id].status = "Executed"]
         /\ action'[id] = [action[id] EXCEPT !.status = "Executed"]
         /\ action' \in [ActionIds -> PendingAction]
BY DEF TypeOK, Execute, SetStatus, InStatus, PendingAction, ActionStatus

(* SignVeto adds one signature, and vetoes exactly when that reaches the   *)
(* threshold.                                                              *)
LEMMA SignMarks ==
  ASSUME TypeOK, NEW id \in ActionIds, NEW signer \in Addresses, SignVeto(id, signer)
  PROVE  /\ InStatus(id, "Pending")
         /\ signatures' \in [ActionIds -> SUBSET Addresses]
         /\ signatures' = [signatures EXCEPT ![id] = @ \cup {signer}]
         /\ fresh' = [fresh EXCEPT ![id] = @ \cup {signer}]
         /\ action' \in [ActionIds -> PendingAction]
         /\ \/ /\ ThresholdReached(signatures'[id])
               /\ action' = [action EXCEPT ![id].status = "Vetoed"]
               /\ action'[id] = [action[id] EXCEPT !.status = "Vetoed"]
            \/ /\ ~ThresholdReached(signatures'[id])
               /\ action' = action
<1>1. /\ InStatus(id, "Pending")
      /\ signatures' = [signatures EXCEPT ![id] = @ \cup {signer}]
      /\ fresh' = [fresh EXCEPT ![id] = @ \cup {signer}]
      /\ signatures'[id] = signatures[id] \cup {signer}
      /\ signatures' \in [ActionIds -> SUBSET Addresses]
  BY DEF TypeOK, SignVeto
<1>2. CASE ThresholdReached(signatures[id] \cup {signer})
  BY <1>1, <1>2 DEF TypeOK, SignVeto, SetStatus, PendingAction, ActionStatus
<1>3. CASE ~ThresholdReached(signatures[id] \cup {signer})
  BY <1>1, <1>3 DEF TypeOK, SignVeto
<1> QED
  BY <1>1, <1>2, <1>3

(* CreatePendingAction stores one action, under the next id.               *)
LEMMA CreateMarks ==
  ASSUME TypeOK, CreatePendingAction
  PROVE  \E id \in ActionIds, new \in PendingAction :
           /\ id = counter + 1 /\ counter' = id
           /\ new.created_at = time
           /\ new.executable_at = time + TIMELOCK_DURATION
           /\ new.status = "Pending"
           /\ action' = [action EXCEPT ![id] = new]
           /\ clawbacks' = [clawbacks EXCEPT ![id] = 0]
           /\ fresh' = [fresh EXCEPT ![id] = {}]
<1> DEFINE id  == counter + 1
           new == [ created_at |-> time, executable_at |-> time + TIMELOCK_DURATION,
                    status |-> "Pending" ]
<1>1. id \in ActionIds
  BY DEF CreatePendingAction
<1>2. new \in PendingAction
  BY CouncilAssumption DEF TypeOK, PendingAction, ActionStatus
<1> QED
  BY <1>1, <1>2 DEF CreatePendingAction

LEMMA TypeStep == TypeOK /\ [Next]_vars => TypeOK'
<1> SUFFICES ASSUME TypeOK, [Next]_vars
             PROVE  TypeOK'
  OBVIOUS
<1>1. ASSUME NEW council \in Councils, InitializeCouncil(council)
      PROVE  TypeOK'
  BY <1>1, CouncilAssumption DEF TypeOK, InitializeCouncil
<1>2. ASSUME NEW council \in Councils, ProposeCouncilRotation(council)
      PROVE  TypeOK'
  BY <1>2, CouncilAssumption DEF TypeOK, ProposeCouncilRotation, CouncilRotation
<1>3. CASE ExecuteCouncilRotation
  BY <1>3 DEF TypeOK, ExecuteCouncilRotation, CouncilRotation
<1>4. CASE CreatePendingAction
  <2>1. PICK id \in ActionIds, new \in PendingAction :
          /\ id = counter + 1 /\ counter' = id
          /\ action' = [action EXCEPT ![id] = new]
          /\ clawbacks' = [clawbacks EXCEPT ![id] = 0]
          /\ fresh' = [fresh EXCEPT ![id] = {}]
    BY <1>4, CreateMarks
  <2> QED
    BY <1>4, <2>1, CouncilAssumption DEF TypeOK, CreatePendingAction, ActionIds
<1>5. ASSUME NEW id \in ActionIds, NEW signer \in Addresses, SignVeto(id, signer)
      PROVE  TypeOK'
  <2>1. /\ action' \in [ActionIds -> PendingAction]
        /\ signatures' \in [ActionIds -> SUBSET Addresses]
    BY <1>5, SignMarks
  <2> QED
    BY <1>5, <2>1 DEF TypeOK, SignVeto
<1>6. ASSUME NEW id \in ActionIds, ExecuteTimelockedAction(id)
      PROVE  TypeOK'
  <2>1. action' \in [ActionIds -> PendingAction]
    BY <1>6, ExecuteMarks DEF ExecuteTimelockedAction
  <2> QED
    BY <1>6, <2>1 DEF TypeOK, ExecuteTimelockedAction
<1>7. ASSUME NEW id \in ActionIds, ExecuteProtectedClawback(id)
      PROVE  TypeOK'
  <2>1. action' \in [ActionIds -> PendingAction]
    BY <1>7, ExecuteMarks DEF ExecuteProtectedClawback
  <2>2. clawbacks' \in [ActionIds -> Nat]
    BY <1>7 DEF TypeOK, ExecuteProtectedClawback
  <2> QED
    BY <1>7, <2>1, <2>2 DEF TypeOK, ExecuteProtectedClawback
<1>8. CASE Tick
  BY <1>8, CouncilAssumption DEF TypeOK, Tick
<1>9. CASE UNCHANGED vars
  BY <1>9 DEF TypeOK
<1> QED
  BY <1>1, <1>2, <1>3, <1>4, <1>5, <1>6, <1>7, <1>8, <1>9 DEF Next

(* Every variable of the council keeps its type; in particular no action   *)
(* is ever Expired, whatever its age.                                      *)
THEOREM TypeCorrect == Spec => []TypeOK
BY InitTyped, TypeStep, PTL DEF Spec

(***************************************************************************)
(* The rotation.                                                           *)
(***************************************************************************)

RotationSound ==
  ~rotation.executed =>
    /\ rotation.proposed_members \in Councils
    /\ rotation.executable_at = rotation.proposed_at + KEY_ROTATION_TIMELOCK

LEMMA RotationStep == TypeOK /\ RotationSound /\ [Next]_vars => RotationSound'
<1> SUFFICES ASSUME TypeOK, RotationSound, [Next]_vars
             PROVE  RotationSound'
  OBVIOUS
<1>1. ASSUME NEW council \in Councils, ProposeCouncilRotation(council)
      PROVE  RotationSound'
  BY <1>1 DEF ProposeCouncilRotation, RotationSound
<1>2. CASE ExecuteCouncilRotation
  <2>1. rotation'.executed
    BY <1>2 DEF TypeOK, CouncilRotation, ExecuteCouncilRotation
  <2> QED
    BY <2>1 DEF RotationSound
<1>3. CASE rotation' = rotation
  BY <1>3 DEF RotationSound
<1> QED
  BY <1>1, <1>2, <1>3
  DEF Next, InitializeCouncil, CreatePendingAction, SignVeto,
      ExecuteTimelockedAction, ExecuteProtectedClawback, Tick

LEMMA RotationSoundHolds == Spec => [](TypeOK /\ RotationSound)
<1>1. Init => RotationSound
  BY DEF Init, RotationSound, NoRotation
<1> QED
  BY <1>1, InitTyped, TypeStep, RotationStep, PTL DEF Spec

(* No council is replaced by one that has not been the pending proposal    *)
(* for the whole rotation timelock.                                        *)
THEOREM RotationWaits == Spec => RotationDelayed
<1> DEFINE Delayed == members # None /\ members' # members
                        => /\ members' = rotation.proposed_members
                           /\ time >= rotation.proposed_at + KEY_ROTATION_TIMELOCK
<1>1. TypeOK /\ RotationSound /\ [Next]_vars => [Delayed]_vars
  <2> SUFFICES ASSUME TypeOK, RotationSound, Next
               PROVE  Delayed
    OBVIOUS
  <2>1. CASE ExecuteCouncilRotation
    BY <2>1 DEF ExecuteCouncilRotation, RotationSound
  <2>2. CASE members' = members
    BY <2>2
  <2>3. CASE members = None
    BY <2>3
  <2> QED
    BY <2>1, <2>2, <2>3
    DEF Next, InitializeCouncil, ProposeCouncilRotation, CreatePendingAction, SignVeto,
        ExecuteTimelockedAction, ExecuteProtectedClawback, Tick
<1> QED
  BY <1>1, RotationSoundHolds, PTL DEF Spec, RotationDelayed

(***************************************************************************)
(* Signatures and the threshold.                                           *)
(***************************************************************************)

(* Nobody signs before there is a council, and what counts as fresh is     *)
(* among what sign_veto counts.                                            *)
FreshAmongSigned ==
  \A id \in ActionIds :
    /\ fresh[id] \subseteq signatures[id]
    /\ members = None => signatures[id] = {}

LEMMA UnsignedIsBelow ==
  ASSUME NEW council
  PROVE  ~(Cardinality(Signed(council, {})) >= REQUIRED_SIGNATURES)
<1>1. Signed(council, {}) = {}
  BY DEF Signed
<1> QED
  BY <1>1, FS_EmptySet, CouncilAssumption

(* More signers hold no fewer seats.                                       *)
LEMMA MoreSigners ==
  ASSUME NEW council, NEW signers, NEW others, signers \subseteq others
  PROVE  Cardinality(Signed(council, signers)) >= REQUIRED_SIGNATURES
           => Cardinality(Signed(council, others)) >= REQUIRED_SIGNATURES
<1>1. IsFiniteSet(Seats)
  BY FS_Interval, CouncilAssumption DEF Seats
<1>2. Signed(council, others) \subseteq Seats
  BY DEF Signed
<1>3. IsFiniteSet(Signed(council, others))
  BY <1>1, <1>2, FS_Subset
<1>4. Signed(council, signers) \subseteq Signed(council, others)
  BY DEF Signed
<1>5. /\ IsFiniteSet(Signed(council, signers))
      /\ Cardinality(Signed(council, signers)) <= Cardinality(Signed(council, others))
  BY <1>3, <1>4, FS_Subset
<1>6. /\ Cardinality(Signed(council, signers)) \in Nat
      /\ Cardinality(Signed(council, others)) \in Nat
  BY <1>3, <1>5, FS_CardinalityType
<1> QED
  BY <1>5, <1>6, CouncilAssumption

LEMMA SignatureStep ==
  TypeOK /\ RotationSound /\ FreshAmongSigned /\ PendingBelowThreshold /\ [Next]_vars
    => FreshAmongSigned' /\ PendingBelowThreshold'
<1> DEFINE Kept == FreshAmongSigned' /\ PendingBelowThreshold'
<1> SUFFICES ASSUME TypeOK, RotationSound, FreshAmongSigned, PendingBelowThreshold,
                    [Next]_vars
             PROVE  Kept
  OBVIOUS
<1> USE DEF InStatus, ThresholdReached, CountVetoSignatures
<1>1. ASSUME NEW council \in Councils, InitializeCouncil(council)
      PROVE  Kept
  <2>1. \A id \in ActionIds : signatures'[id] = {} /\ fresh'[id] = {}
    BY <1>1 DEF InitializeCouncil, FreshAmongSigned
  <2>2. FreshAmongSigned'
    BY <2>1 DEF FreshAmongSigned
  <2>3. PendingBelowThreshold'
    BY <2>1, UnsignedIsBelow DEF PendingBelowThreshold
  <2> QED
    BY <2>2, <2>3
<1>2. ASSUME NEW council \in Councils, ProposeCouncilRotation(council)
      PROVE  Kept
  <2>1. /\ members' = members /\ action' = action
        /\ signatures' = signatures /\ fresh' = fresh
    BY <1>2 DEF ProposeCouncilRotation
  <2> QED
    BY <2>1 DEF FreshAmongSigned, PendingBelowThreshold
<1>3. CASE ExecuteCouncilRotation
  <2>1. \A id \in ActionIds : fresh'[id] = {}
    BY <1>3 DEF ExecuteCouncilRotation
  <2>2. PendingBelowThreshold'
    BY <2>1, UnsignedIsBelow DEF PendingBelowThreshold
  <2>3. members' # None
    BY <1>3, CouncilsAssumption DEF ExecuteCouncilRotation, RotationSound
  <2>4. FreshAmongSigned'
    BY <2>1, <2>3 DEF FreshAmongSigned
  <2> QED
    BY <2>2, <2>4
<1>4. CASE CreatePendingAction
  <2>1. PICK id \in ActionIds, new \in PendingAction :
          /\ action' = [action EXCEPT ![id] = new]
          /\ fresh' = [fresh EXCEPT ![id] = {}]
    BY <1>4, CreateMarks
  <2>2. members' = members /\ signatures' = signatures
    BY <1>4 DEF CreatePendingAction
  <2>3. /\ fresh'[id] = {}
        /\ \A h \in ActionIds \ {id} : action'[h] = action[h] /\ fresh'[h] = fresh[h]
    BY <2>1 DEF TypeOK
  <2>4. FreshAmongSigned'
    BY <2>2, <2>3 DEF FreshAmongSigned
  <2>5. PendingBelowThreshold'
    BY <2>2, <2>3, UnsignedIsBelow DEF PendingBelowThreshold
  <2> QED
    BY <2>4, <2>5
<1>5. ASSUME NEW id \in ActionIds, NEW signer \in Addresses, SignVeto(id, signer)
      PROVE  Kept
  <2>1. /\ signatures' = [signatures EXCEPT ![id] = @ \cup {signer}]
        /\ fresh' = [fresh EXCEPT ![id] = @ \cup {signer}]
        /\ \/ /\ action'[id] = [action[id] EXCEPT !.status = "Vetoed"]
              /\ action' = [action EXCEPT ![id].status = "Vetoed"]
           \/ ~ThresholdReached(signatures'[id]) /\ action' = action
    BY <1>5, SignMarks
  <2>2. members' = members /\ members # None
    BY <1>5 DEF SignVeto
  <2>3. \A h \in ActionIds \ {id} :
          /\ signatures'[h] = signatures[h] /\ action'[h] = action[h]
          /\ fresh'[h] = fresh[h]
    BY <2>1 DEF TypeOK
  <2>4. /\ signatures'[id] = signatures[id] \cup {signer}
        /\ fresh'[id] = fresh[id] \cup {signer}
    BY <2>1 DEF TypeOK
  <2>5. FreshAmongSigned'
    BY <2>2, <2>3, <2>4 DEF FreshAmongSigned
  <2>6. action'[id].status = "Vetoed" \/ ~ThresholdReached(signatures'[id])
    BY <2>1 DEF TypeOK, PendingAction
  <2>7. fresh'[id] \subseteq signatures'[id]
    BY <2>5 DEF FreshAmongSigned
  <2>8. action'[id].status = "Vetoed" \/ ~ThresholdReached(fresh'[id])
    BY <2>6, <2>7, MoreSigners
  <2>9. PendingBelowThreshold'
    BY <2>2, <2>3, <2>8 DEF PendingBelowThreshold
  <2> QED
    BY <2>5, <2>9
<1>6. ASSUME NEW id \in ActionIds,
             ExecuteTimelockedAction(id) \/ ExecuteProtectedClawback(id)
      PROVE  Kept
  <2>1. /\ action'[id] = [action[id] EXCEPT !.status = "Executed"]
        /\ action' = [action EXCEPT ![id].status = "Executed"]
    BY <1>6, ExecuteMarks DEF ExecuteTimelockedAction, ExecuteProtectedClawback
  <2>2. members' = members /\ fresh' = fresh /\ signatures' = signatures
    BY <1>6 DEF ExecuteTimelockedAction, ExecuteProtectedClawback
  <2>3. /\ action'[id].status = "Executed"
        /\ \A h \in ActionIds \ {id} : action'[h] = action[h]
    BY <2>1 DEF TypeOK, PendingAction
  <2> QED
    BY <2>2, <2>3 DEF FreshAmongSigned, PendingBelowThreshold
<1>7. CASE Tick
  BY <1>7 DEF Tick, FreshAmongSigned, PendingBelowThreshold
<1>8. CASE UNCHANGED vars
  BY <1>8 DEF FreshAmongSigned, PendingBelowThreshold
<1> QED
  BY <1>1, <1>2, <1>3, <1>4, <1>5, <1>6, <1>7, <1>8 DEF Next

(* No action stays Pending once the present council has signed it enough,  *)
(* through every sequence of rotations and re-used ids: for every size of  *)
(* the council, every threshold and every vector of members.               *)
THEOREM ThresholdVetoes == Spec => []PendingBelowThreshold
<1>1. Init => FreshAmongSigned /\ PendingBelowThreshold
  BY UnsignedIsBelow
  DEF Init, FreshAmongSigned, PendingBelowThreshold, InStatus, NoAction
<1> QED
  BY <1>1, RotationSoundHolds, SignatureStep, PTL DEF Spec

(***************************************************************************)
(* Executions.                                                             *)
(***************************************************************************)

Unclawed(id) == ~InStatus(id, "Executed") => clawbacks[id] = 0

Timed(id) ==
  /\ ~InStatus(id, "Absent")
       => action[id].executable_at = action[id].created_at + TIMELOCK_DURATION
  /\ InStatus(id, "Executed") => time >= action[id].executable_at

ActionSound ==
  \A id \in ActionIds : Unclawed(id) /\ Timed(id) /\ clawbacks[id] \in 0..1

(* A step that leaves an action and its clawbacks alone keeps it sound.    *)
LEMMA SameActionSound ==
  ASSUME TypeOK, ActionSound, NEW id \in ActionIds,
         action'[id] = action[id], clawbacks'[id] = clawbacks[id],
         time' \in Nat, time' >= time
  PROVE  (Unclawed(id) /\ Timed(id) /\ clawbacks[id] \in 0..1)'
BY DEF TypeOK, ActionSound, Unclawed, Timed, InStatus, PendingAction

LEMMA ExecutionStep == TypeOK /\ ActionSound /\ [Next]_vars => ActionSound'
<1> SUFFICES ASSUME TypeOK, ActionSound, [Next]_vars, NEW h \in ActionIds
             PROVE  (Unclawed(h) /\ Timed(h) /\ clawbacks[h] \in 0..1)'
  BY DEF ActionSound
<1> USE DEF InStatus
<1>0. time' \in Nat /\ time' >= time
  <2>1. time \in Nat
    BY CouncilAssumption DEF TypeOK
  <2>2. time' = time \/ time' = time + 1
    BY DEF Next, vars, InitializeCouncil, ProposeCouncilRotation, ExecuteCouncilRotation,
           CreatePendingAction, SignVeto, ExecuteTimelockedAction,
           ExecuteProtectedClawback, Tick
  <2> QED
    BY <2>1, <2>2
<1>1. CASE action' = action /\ clawbacks' = clawbacks
  BY <1>0, <1>1, SameActionSound
<1>2. CASE CreatePendingAction
  <2>1. PICK id \in ActionIds, new \in PendingAction :
          /\ new.created_at = time
          /\ new.executable_at = time + TIMELOCK_DURATION
          /\ new.status = "Pending"
          /\ action' = [action EXCEPT ![id] = new]
          /\ clawbacks' = [clawbacks EXCEPT ![id] = 0]
    BY <1>2, CreateMarks
  <2>2. CASE h = id
    <3>1. action'[h] = new /\ clawbacks'[h] = 0
      BY <2>1, <2>2 DEF TypeOK
    <3> QED
      BY <2>1, <3>1 DEF Unclawed, Timed
  <2>3. CASE h # id
    <3>1. action'[h] = action[h] /\ clawbacks'[h] = clawbacks[h]
      BY <2>1, <2>3 DEF TypeOK
    <3> QED
      BY <1>0, <3>1, SameActionSound
  <2> QED
    BY <2>2, <2>3
<1>3. ASSUME NEW id \in ActionIds, NEW signer \in Addresses, SignVeto(id, signer)
      PROVE  (Unclawed(h) /\ Timed(h) /\ clawbacks[h] \in 0..1)'
  <2>1. /\ action[id].status = "Pending"
        /\ \/ action' = [action EXCEPT ![id].status = "Vetoed"]
           \/ action' = action
    BY <1>3, SignMarks
  <2>2. clawbacks' = clawbacks
    BY <1>3 DEF SignVeto
  <2>3. CASE h # id \/ action' = action
    <3>1. action'[h] = action[h] /\ clawbacks'[h] = clawbacks[h]
      BY <2>1, <2>2, <2>3 DEF TypeOK
    <3> QED
      BY <1>0, <3>1, SameActionSound
  <2>4. CASE h = id /\ action' = [action EXCEPT ![id].status = "Vetoed"]
    <3>1. action'[h] = [action[h] EXCEPT !.status = "Vetoed"]
      BY <2>4 DEF TypeOK
    <3>2. /\ action'[h].status = "Vetoed"
          /\ action'[h].created_at = action[h].created_at
          /\ action'[h].executable_at = action[h].executable_at
      BY <3>1 DEF TypeOK, PendingAction
    <3>3. clawbacks'[h] = 0 /\ action[h].status = "Pending"
      BY <2>1, <2>2, <2>4 DEF ActionSound, Unclawed
    <3> QED
      BY <3>2, <3>3 DEF ActionSound, Unclawed, Timed
  <2> QED
    BY <2>1, <2>3, <2>4
<1>4. ASSUME NEW id \in ActionIds,
             ExecuteTimelockedAction(id) \/ ExecuteProtectedClawback(id)
      PROVE  (Unclawed(h) /\ Timed(h) /\ clawbacks[h] \in 0..1)'
  <2>1. /\ action[id].status = "Pending"
        /\ time >= action[id].executable_at
        /\ action' = [action EXCEPT ![id].status = "Executed"]
        /\ action'[id] = [action[id] EXCEPT !.status = "Executed"]
    BY <1>4, ExecuteMarks DEF ExecuteTimelockedAction, ExecuteProtectedClawback
  <2>2. /\ time' = time
        /\ \/ clawbacks' = clawbacks
           \/ clawbacks' = [clawbacks EXCEPT ![id] = @ + 1]
    BY <1>4 DEF ExecuteTimelockedAction, ExecuteProtectedClawback
  <2>3. CASE h # id
    <3>1. action'[h] = action[h] /\ clawbacks'[h] = clawbacks[h]
      BY <2>1, <2>2, <2>3 DEF TypeOK
    <3> QED
      BY <1>0, <3>1, SameActionSound
  <2>4. CASE h = id
    <3>1. /\ action'[h].status = "Executed"
          /\ action'[h].created_at = action[h].created_at
          /\ action'[h].executable_at = action[h].executable_at
      BY <2>1, <2>4 DEF TypeOK, PendingAction
    <3>2. clawbacks[h] = 0
      BY <2>1, <2>4 DEF ActionSound, Unclawed
    <3>3. clawbacks'[h] \in 0..1
      BY <2>2, <2>4, <3>2 DEF TypeOK
    <3>4. /\ action[h].executable_at = action[h].created_at + TIMELOCK_DURATION
          /\ time >= action[h].executable_at
      BY <2>1, <2>4 DEF ActionSound, Timed
    <3> QED
      BY <3>1, <3>3, <3>4, <2>2 DEF Unclawed, Timed
  <2> QED
    BY <2>3, <2>4
<1> QED
  BY <1>1, <1>2, <1>3, <1>4
  DEF Next, InitializeCouncil, ProposeCouncilRotation, ExecuteCouncilRotation, Tick

(* An action carries out at most one clawback, and none before its         *)
(* timelock: execute_action and execute_protected_clawback share the       *)
(* Executed status as their only token.                                    *)
THEOREM ClawbackOnce == Spec => []OneClawback
<1>1. Init => ActionSound
  BY DEF Init, ActionSound, Unclawed, Timed, InStatus, NoAction
<1>2. TypeOK /\ ActionSound => OneClawback
  <2> SUFFICES ASSUME TypeOK, ActionSound, NEW id \in ActionIds, clawbacks[id] > 0
               PROVE  /\ clawbacks[id] = 1
                      /\ InStatus(id, "Executed")
                      /\ time >= action[id].created_at + TIMELOCK_DURATION
    BY DEF OneClawback
  <2>1. InStatus(id, "Executed")
    BY DEF ActionSound, Unclawed
  <2>2. time >= action[id].created_at + TIMELOCK_DURATION
    BY <2>1 DEF ActionSound, Timed, InStatus
  <2>3. clawbacks[id] = 1
    BY DEF ActionSound
  <2> QED
    BY <2>1, <2>2, <2>3
<1> QED
  BY <1>1, <1>2, TypeCorrect, ExecutionStep, PTL DEF Spec

(***************************************************************************)
(* Vetoes.                                                                 *)
(***************************************************************************)

(* No entry point moves a vetoed action; only create_pending_action can    *)
(* overwrite it, when the counter comes back to its id.                    *)
THEOREM VetoIsFinal == Spec => VetoFinal
<1> DEFINE Final ==
      \A id \in ActionIds :
        InStatus(id, "Vetoed") /\ (counter' = id => counter = id)
          => action'[id] = action[id] /\ clawbacks'[id] = clawbacks[id]
<1>1. TypeOK /\ [Next]_vars => [Final]_vars
  <2> SUFFICES ASSUME TypeOK, Next, NEW h \in ActionIds,
                      InStatus(h, "Vetoed"), counter' = h => counter = h
               PROVE  action'[h] = action[h] /\ clawbacks'[h] = clawbacks[h]
    OBVIOUS
  <2>1. CASE action' = action /\ clawbacks' = clawbacks
    BY <2>1
  <2>2. CASE CreatePendingAction
    <3>1. PICK id \in ActionIds, new \in PendingAction :
            /\ id = counter + 1 /\ counter' = id
            /\ action' = [action EXCEPT ![id] = new]
            /\ clawbacks' = [clawbacks EXCEPT ![id] = 0]
      BY <2>2, CreateMarks
    <3>2. h # id
      BY <3>1 DEF TypeOK
    <3> QED
      BY <3>1, <3>2 DEF TypeOK
  <2>3. ASSUME NEW id \in ActionIds, NEW signer \in Addresses, SignVeto(id, signer)
        PROVE  action'[h] = action[h] /\ clawbacks'[h] = clawbacks[h]
    <3>1. /\ InStatus(id, "Pending")
          /\ action' = action \/ action' = [action EXCEPT ![id].status = "Vetoed"]
      BY <2>3, SignMarks
    <3>2. clawbacks' = clawbacks
      BY <2>3 DEF SignVeto
    <3> QED
      BY <3>1, <3>2 DEF TypeOK, InStatus
  <2>4. ASSUME NEW id \in ActionIds,
               ExecuteTimelockedAction(id) \/ ExecuteProtectedClawback(id)
        PROVE  action'[h] = action[h] /\ clawbacks'[h] = clawbacks[h]
    <3>1. /\ InStatus(id, "Pending")
          /\ action' = [action EXCEPT ![id].status = "Executed"]
      BY <2>4, ExecuteMarks DEF ExecuteTimelockedAction, ExecuteProtectedClawback
    <3>2. \/ clawbacks' = clawbacks
          \/ clawbacks' = [clawbacks EXCEPT ![id] = @ + 1]
      BY <2>4 DEF ExecuteTimelockedAction, ExecuteProtectedClawback
    <3> QED
      BY <3>1, <3>2 DEF TypeOK, InStatus
  <2> QED
    BY <2>1, <2>2, <2>3, <2>4
    DEF Next, InitializeCouncil, ProposeCouncilRotation, ExecuteCouncilRotation, Tick
<1> QED
  BY <1>1, TypeCorrect, PTL DEF Spec, VetoFinal

=============================================================================

---------------------------- MODULE DeadMansSwitch ---------------------------
(***************************************************************************)
(* contracts/admin/dead_mans_switch.rs: a recovery vault takes over when   *)
(* the admin has shown no activity for half a year. Only the time since    *)
(* LastActivityAt is read, so idle counts that time, up to the period      *)
(* after which more of it makes no difference, and needs no bound.         *)
(***************************************************************************)
EXTENDS Integers

CONSTANTS
  Keyholders,             \* addresses
  Nobody,                 \* no address
  INACTIVITY_PERIOD       \* 180 days

SwitchAssumption ==
  /\ INACTIVITY_PERIOD \in Nat \ {0}
  /\ Nobody \notin Keyholders

VARIABLES
  admin,                  \* PrimaryAdmin
  vault,                  \* RecoveryVault
  idle,                   \* now - LastActivityAt, at most INACTIVITY_PERIOD
  executed                \* RecoveryExecuted

svars == <<admin, vault, idle, executed>>

SInit ==
  /\ admin = Nobody /\ vault = Nobody
  /\ idle = 0 /\ executed = FALSE

InitializeSwitch(a, v) ==
  /\ admin = Nobody
  /\ admin' = a /\ vault' = v
  /\ idle' = 0 /\ executed' = FALSE

Heartbeat ==
  /\ admin # Nobody
  /\ idle' = 0
  /\ UNCHANGED <<admin, vault, executed>>

(* Meant for the contract's own functions, it is public and asks for no    *)
(* authorization: anybody's call puts recovery off.                        *)
RecordActivity ==
  /\ idle' = 0
  /\ UNCHANGED <<admin, vault, executed>>

(* Mutant: claiming counts as activity before the period is looked at.     *)
ClaimAdminRecording ==
  /\ admin # Nobody
  /\ ~executed
  /\ 0 >= INACTIVITY_PERIOD
  /\ admin' = vault
  /\ executed' = TRUE
  /\ idle' = 0
  /\ UNCHANGED <<vault>>

(* LastActivityAt stays what it was.                                       *)
ClaimAdmin ==
  /\ admin # Nobody
  /\ ~executed
  /\ idle >= INACTIVITY_PERIOD
  /\ admin' = vault
  /\ executed' = TRUE
  /\ UNCHANGED <<vault, idle>>

UpdateRecoveryVault(v) ==
  /\ admin # Nobody
  /\ vault' = v
  /\ idle' = 0
  /\ UNCHANGED <<admin, executed>>

Elapse ==
  /\ idle' = IF idle < INACTIVITY_PERIOD THEN idle + 1 ELSE idle
  /\ UNCHANGED <<admin, vault, executed>>

SNext ==
  \/ \E a, v \in Keyholders : InitializeSwitch(a, v)
  \/ Heartbeat
  \/ RecordActivity
  \/ ClaimAdmin
  \/ \E v \in Keyholders : UpdateRecoveryVault(v)
  \/ Elapse

(* If activity ever ceases the vault takes over: neither the admin's last  *)
(* calls nor a replaced vault leave a state from which it cannot. The      *)
(* activity may be anybody's, as record_activity is public.                *)
SilenceEndsInRecovery ==
  (admin # Nobody ~> executed) \/ []<><<idle' = 0>>_svars

=============================================================================

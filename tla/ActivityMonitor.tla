--------------------------- MODULE ActivityMonitor ---------------------------
(***************************************************************************)
(* contracts/admin/governance_activity_monitor.rs: parameter changes wait  *)
(* for a timelock, a longer one when too many were proposed in the same    *)
(* ledger. A unit of the clock is a ledger; what is changed is left out.   *)
(***************************************************************************)
EXTENDS LedgerClock, Sequences, FiniteSets

CONSTANTS
  NotSet,                 \* a storage key that is not set
  STANDARD_TIMELOCK_SECS, \* 24 hours
  INITIAL_CONFIG,         \* 3 changes per ledger, 7 days
  MonitorConfigs,         \* configurations after update_config
  MaxChanges              \* bound: changes recorded

MonitorConfig == [max_changes : Nat, mandatory_timelock : Nat]

Activity == [ledger_number : Nat, change_count : Nat]

MonitorAssumption ==
  /\ STANDARD_TIMELOCK_SECS \in Nat /\ MaxChanges \in Nat
  /\ MonitorConfigs \cup {INITIAL_CONFIG} \subseteq MonitorConfig
  /\ NotSet \notin MonitorConfig \cup Activity

VARIABLES
  settings,               \* MaxChangesPerLedger, MandatoryTimelockSecs
  enabled,                \* Enabled
  changes,                \* Change(id), in the order of ids
  activity                \* CurrentLedgerActivity, without its list of ids

mvars == <<now, settings, enabled, changes, activity>>

MInit ==
  /\ now = 0
  /\ settings = NotSet
  /\ enabled = FALSE
  /\ changes = <<>>
  /\ activity = NotSet

InitializeMonitor ==
  /\ settings = NotSet
  /\ settings' = INITIAL_CONFIG
  /\ enabled' = TRUE
  /\ UNCHANGED <<now, changes, activity>>

LedgerActivity ==
  IF activity # NotSet /\ activity.ledger_number = now
  THEN activity
  ELSE [ledger_number |-> now, change_count |-> 0]

Change(triggers) ==
  [proposed_at   |-> now,
   executable_at |-> now + IF triggers THEN settings.mandatory_timelock
                                       ELSE STANDARD_TIMELOCK_SECS,
   status        |-> IF triggers THEN "MandatoryTimelock" ELSE "Pending"]

(* Mutant: the count is compared before the change is added to it.         *)
RecordParameterChangeLate ==
  /\ enabled
  /\ Len(changes) < MaxChanges
  /\ activity' = [LedgerActivity EXCEPT !.change_count = @ + 1]
  /\ changes' = Append(changes, Change(LedgerActivity.change_count > settings.max_changes))
  /\ UNCHANGED <<now, settings, enabled>>

(* While the monitor is disabled the call succeeds and records nothing.    *)
RecordParameterChange ==
  /\ enabled
  /\ Len(changes) < MaxChanges
  /\ activity' = [LedgerActivity EXCEPT !.change_count = @ + 1]
  /\ changes' = Append(changes, Change(activity'.change_count > settings.max_changes))
  /\ UNCHANGED <<now, settings, enabled>>

(* A Cancelled change is not refused.                                      *)
ExecuteParameterChange(id) ==
  /\ changes[id].status # "Executed"
  /\ now >= changes[id].executable_at
  /\ changes' = [changes EXCEPT ![id].status = "Executed"]
  /\ UNCHANGED <<now, settings, enabled, activity>>

CancelParameterChange(id) ==
  /\ changes[id].status # "Executed"
  /\ changes' = [changes EXCEPT ![id].status = "Cancelled"]
  /\ UNCHANGED <<now, settings, enabled, activity>>

SetEnabled(b) ==
  /\ settings # NotSet
  /\ enabled' = b
  /\ UNCHANGED <<now, settings, changes, activity>>

UpdateMonitorConfig(c) ==
  /\ settings # NotSet
  /\ settings' = c
  /\ UNCHANGED <<now, enabled, changes, activity>>

MonitorTick ==
  /\ ClockTick
  /\ UNCHANGED <<settings, enabled, changes, activity>>

MNext ==
  \/ InitializeMonitor
  \/ RecordParameterChange
  \/ \E id \in DOMAIN changes : ExecuteParameterChange(id) \/ CancelParameterChange(id)
  \/ \E b \in BOOLEAN : SetEnabled(b)
  \/ \E c \in MonitorConfigs : UpdateMonitorConfig(c)
  \/ MonitorTick

MSpec == MInit /\ [][MNext]_mvars

(***************************************************************************)
(* Properties.                                                             *)
(***************************************************************************)

AnyConfig == MonitorConfigs \cup {INITIAL_CONFIG}

(* The changes of a ledger that wait for no mandatory timelock.            *)
Fast(t) ==
  {id \in DOMAIN changes :
     /\ changes[id].proposed_at = t
     /\ \A c \in AnyConfig : changes[id].executable_at < t + c.mandatory_timelock}

(* However recording interleaves with cancelling, disabling and new        *)
(* limits, no ledger has more changes that may be executed before the      *)
(* shortest mandatory timelock ever set than the highest limit ever set.   *)
BurstsDelayed ==
  \A t \in 0..now : \E c \in AnyConfig : Cardinality(Fast(t)) <= c.max_changes

=============================================================================

--------------------------- MODULE OptimizedGrants --------------------------
(***************************************************************************)
(* The bit-mask grants of contracts/grant_stream/src/optimized.rs with the *)
(* grantee's exit of self_terminate.rs: a life cycle of its own, beside    *)
(* the one of lib.rs, in which the status is a set of flags, milestones    *)
(* expire and are approved by oracles, and withdrawals are only booked.    *)
(*                                                                         *)
(* A status mask is the set of its bits. REVOCABLE, AUTO_RENEW and         *)
(* EMERGENCY_PAUSE are left out: nothing reads them. STATUS_RAGE_QUIT and  *)
(* STATUS_SELF_TERMINATED are one bit in the code, hence one flag here.    *)
(***************************************************************************)
EXTENDS Integers, FiniteSets

CONSTANTS
  Ids,                    \* grant ids
  None,                   \* a key that is not stored
  Oracles, OracleSets,    \* oracle keys, and the sets of them an admin lists
  Thresholds,             \* approval thresholds
  Hashes,                 \* evidence hashes
  Totals, Rates, Masks,   \* amounts, flow rates and masks an admin chooses
  Deadlines, Windows,     \* milestone deadlines and dispute windows
  MaxTime                 \* bound: the ledger clock

Flags == {"ACTIVE", "PAUSED", "COMPLETED", "CANCELLED", "MILESTONE_BASED", "RAGE_QUIT"}
Moving == {"ACTIVE", "PAUSED"}
Over   == {"COMPLETED", "CANCELLED"}

Grant == [status_mask : SUBSET Flags, total_amount : Nat, withdrawn : Nat, claimable : Nat,
          flow_rate : Nat, last_update_ts : Nat, deadline : Nat, met : BOOLEAN,
          threshold : Nat, window : Nat, window_end : Nat, evidence : Hashes \cup {None},
          oracles : SUBSET Oracles, approvers : SUBSET Oracles]

ASSUME OptimizedAssumption ==
  /\ IsFiniteSet(Oracles) /\ OracleSets \subseteq SUBSET Oracles
  /\ Thresholds \subseteq Nat
  /\ None \notin Hashes \cup Grant
  /\ Totals \subseteq Nat \ {0} /\ Rates \subseteq Nat
  /\ Masks \subseteq SUBSET Flags
  /\ Deadlines \subseteq Nat /\ Windows \subseteq Nat \ {0}
  /\ MaxTime \in Nat

VARIABLES
  now,                    \* the ledger's timestamp
  grants,                 \* DataKey::Grant(id)
  earned,                 \* auxiliary: what the flow rate gave while ACTIVE
  exit,                   \* auxiliary: how the grantee closed the grant
  signed,                 \* auxiliary: oracle signatures verified
  lapse,                  \* auxiliary: PAUSED was lifted without a settlement
  flagged                 \* auxiliary: set_grant_flags was used

aux  == <<earned, exit, signed, lapse, flagged>>
vars == <<now, grants, aux>>

Stored(id) == grants[id] # None
Has(id, flag) == flag \in grants[id].status_mask

(* An exit records what was booked as withdrawn and what was transferred.  *)
NoExit == [withdrawn |-> 0, transferred |-> 0, kind |-> "Open"]

TypeOK ==
  /\ now \in Nat
  /\ grants \in [Ids -> Grant \cup {None}]
  /\ earned \in [Ids -> Nat]
  /\ exit \in [Ids -> [withdrawn : Nat, transferred : Int,
                       kind : {"Open", "RageQuit", "SelfTerminated"}]]
  /\ signed \in [Ids -> SUBSET (Oracles \X Hashes \X Nat)]
  /\ lapse \in [Ids -> BOOLEAN] /\ flagged \in [Ids -> BOOLEAN]

(* initialize has stored the admin, which it does once.                    *)
Init ==
  /\ now = 1
  /\ grants = [id \in Ids |-> None]
  /\ earned = [id \in Ids |-> 0]
  /\ exit = [id \in Ids |-> NoExit]
  /\ signed = [id \in Ids |-> {}]
  /\ lapse = [id \in Ids |-> FALSE]
  /\ flagged = [id \in Ids |-> FALSE]

(***************************************************************************)
(* validate_status_transition and settle_grant.                            *)
(***************************************************************************)

ValidTransition(current, new) ==
  /\ current \cap Over = {}
  /\ \/ "CANCELLED" \in new
     \/ "ACTIVE" \in current /\ "PAUSED" \in new /\ "ACTIVE" \notin new
     \/ "PAUSED" \in current /\ "ACTIVE" \in new /\ "PAUSED" \notin new
     \/ current \cap Moving # {} /\ "COMPLETED" \in new /\ new \cap Moving = {}
     \/ current = {} /\ "ACTIVE" \in new /\ new \cap {"PAUSED", "COMPLETED"} = {}

Accounted(g) == g.withdrawn + g.claimable
Remaining(g) == g.total_amount - Accounted(g)

Accrues(g, ts) ==
  "ACTIVE" \in g.status_mask /\ ts > g.last_update_ts /\ g.flow_rate > 0

CanSettle(g, ts) ==
  ts >= g.last_update_ts /\ (Accrues(g, ts) => Accounted(g) <= g.total_amount)

Completed(mask) == (mask \cup {"COMPLETED"}) \ {"ACTIVE"}

(* Mutant: what accrues is not capped at what is left of the total.        *)
SettleUncapped(g, ts) ==
  [g EXCEPT !.last_update_ts = ts,
            !.claimable = IF Accrues(g, ts) THEN @ + g.flow_rate * (ts - g.last_update_ts)
                                            ELSE @]

Settle(g, ts) ==
  LET accrued == g.flow_rate * (ts - g.last_update_ts)
      delta   == IF accrued > Remaining(g) THEN Remaining(g) ELSE accrued
  IN  IF Accrues(g, ts)
      THEN [g EXCEPT !.last_update_ts = ts, !.claimable = @ + delta,
                     !.status_mask = IF delta = Remaining(g) THEN Completed(@) ELSE @]
      ELSE [g EXCEPT !.last_update_ts = ts]

(***************************************************************************)
(* The entry points. Every one reads the stored grant and writes it back.  *)
(***************************************************************************)

Write(id, g) == grants' = [grants EXCEPT ![id] = g]

CreateGrant(id, total, rate, mask) ==
  /\ ~Stored(id)
  /\ ValidTransition({}, mask)
  /\ Write(id, [status_mask |-> mask, total_amount |-> total, withdrawn |-> 0,
                claimable |-> 0, flow_rate |-> rate, last_update_ts |-> now,
                deadline |-> 0, met |-> FALSE, threshold |-> 0, window |-> 0,
                window_end |-> 0, evidence |-> None, oracles |-> {}, approvers |-> {}])
  /\ UNCHANGED <<now, aux>>

(* The mask is computed before the settlement and overwrites what it says. *)
CancelGrant(id) ==
  LET g == grants[id] IN
  /\ Stored(id)
  /\ ValidTransition(g.status_mask, g.status_mask \cup {"CANCELLED"})
  /\ CanSettle(g, now)
  /\ Write(id, [Settle(g, now) EXCEPT !.status_mask = g.status_mask \cup {"CANCELLED"},
                                      !.flow_rate = 0])
  /\ UNCHANGED <<now, aux>>

PauseGrant(id) ==
  LET g == grants[id] IN
  /\ Stored(id) /\ Has(id, "ACTIVE")
  /\ CanSettle(g, now)
  /\ Write(id, [Settle(g, now) EXCEPT
                  !.status_mask = (g.status_mask \cup {"PAUSED"}) \ {"ACTIVE"}])
  /\ UNCHANGED <<now, aux>>

ResumeGrant(id) ==
  LET g == grants[id] IN
  /\ Stored(id) /\ Has(id, "PAUSED")
  /\ CanSettle(g, now)
  /\ Write(id, [Settle(g, now) EXCEPT
                  !.status_mask = (g.status_mask \cup {"ACTIVE"}) \ {"PAUSED"}])
  /\ UNCHANGED <<now, aux>>

(* flags_to_set and flags_to_clear together reach any mask.                *)
SetGrantFlags(id, mask) ==
  LET g == grants[id] IN
  /\ Stored(id)
  /\ ValidTransition(g.status_mask, mask)
  /\ CanSettle(g, now)
  /\ Write(id, [Settle(g, now) EXCEPT !.status_mask = mask])
  /\ flagged' = [flagged EXCEPT ![id] = TRUE]
  /\ UNCHANGED <<now, earned, exit, signed, lapse>>

(* The settlement's refusal of a grant that is no longer ACTIVE or PAUSED  *)
(* rolls the call back.                                                    *)
UpdateRate(id, rate) ==
  LET g == Settle(grants[id], now) IN
  /\ Stored(id) /\ grants[id].status_mask \cap Moving # {}
  /\ CanSettle(grants[id], now)
  /\ g.status_mask \cap Moving # {}
  /\ Write(id, [g EXCEPT !.flow_rate = rate])
  /\ UNCHANGED <<now, aux>>

(***************************************************************************)
(* Milestone expiry: applied by process_milestone_expiry and by the views  *)
(* get_grant and claimable_bitmask; in withdraw it only makes the call     *)
(* fail, and is rolled back with it.                                       *)
(***************************************************************************)

Expired(g) ==
  /\ "MILESTONE_BASED" \in g.status_mask
  /\ g.status_mask \cap (Over \cup {"RAGE_QUIT"}) = {}
  /\ g.deadline # 0 /\ now > g.deadline /\ ~g.met

ProcessMilestoneExpiry(id) ==
  LET g  == grants[id]
      ts == IF g.last_update_ts < g.deadline THEN g.deadline ELSE g.last_update_ts
      s  == Settle(g, ts)
  IN
  /\ Stored(id) /\ Expired(g)
  /\ CanSettle(g, ts)
  /\ Write(id, [s EXCEPT !.status_mask = (@ \cup {"CANCELLED"}) \ Moving, !.flow_rate = 0])
  /\ UNCHANGED <<now, aux>>

Withdraw(id, amount) ==
  LET g == Settle(grants[id], now)
      w == [g EXCEPT !.claimable = @ - amount, !.withdrawn = @ + amount]
  IN
  /\ Stored(id) /\ amount > 0
  /\ ~Expired(grants[id]) /\ Has(id, "ACTIVE")
  /\ CanSettle(grants[id], now)
  /\ amount <= g.claimable
  /\ Write(id, IF Accounted(w) = w.total_amount
               THEN [w EXCEPT !.status_mask = Completed(@)] ELSE w)
  /\ UNCHANGED <<now, aux>>

SetMilestoneDeadline(id, deadline) ==
  /\ Stored(id) /\ Has(id, "MILESTONE_BASED")
  /\ Write(id, [grants[id] EXCEPT !.deadline = deadline, !.met = FALSE])
  /\ UNCHANGED <<now, aux>>

(***************************************************************************)
(* Milestone consensus. mark_milestone_met needs a MilestoneEvidence key   *)
(* that nothing writes, so it always fails.                                *)
(***************************************************************************)

ValidOracleSet(oracles, threshold) == threshold \in 1..Cardinality(oracles)

ConfigureMilestoneOracles(id, oracles, threshold, window) ==
  /\ Stored(id) /\ Has(id, "MILESTONE_BASED")
  /\ ValidOracleSet(oracles, threshold)
  /\ Write(id, [grants[id] EXCEPT
       !.oracles = oracles, !.threshold = threshold, !.window = window,
       !.evidence = None, !.window_end = 0, !.approvers = {}, !.met = FALSE])
  /\ UNCHANGED <<now, aux>>

(* Mutant: new evidence keeps the approvals of the evidence it replaces.   *)
SubmitEvidenceKeepingApprovers(id, hash) ==
  /\ Stored(id) /\ Has(id, "MILESTONE_BASED")
  /\ grants[id].threshold # 0
  /\ Write(id, [grants[id] EXCEPT !.evidence = hash,
                                  !.window_end = now + grants[id].window, !.met = FALSE])
  /\ UNCHANGED <<now, aux>>

SubmitMilestoneEvidence(id, hash) ==
  /\ Stored(id) /\ Has(id, "MILESTONE_BASED")
  /\ grants[id].threshold # 0
  /\ Write(id, [grants[id] EXCEPT !.evidence = hash,
                                  !.window_end = now + grants[id].window,
                                  !.approvers = {}, !.met = FALSE])
  /\ UNCHANGED <<now, aux>>

(* The oracle has signed the grant, the evidence and the window's end. A   *)
(* PAUSED grant becomes ACTIVE with its clock where the pause left it.     *)
ApproveMilestone(id, oracle) ==
  LET g    == grants[id]
      all  == g.approvers \cup {oracle}
      met  == Cardinality(all) >= g.threshold
      wake == met /\ Has(id, "PAUSED")
  IN
  /\ Stored(id) /\ Has(id, "MILESTONE_BASED")
  /\ ~g.met
  /\ oracle \in g.oracles \ g.approvers
  /\ g.evidence # None /\ now <= g.window_end
  /\ Write(id, [g EXCEPT
       !.approvers = all, !.met = met,
       !.status_mask = IF wake THEN (@ \cup {"ACTIVE"}) \ {"PAUSED"} ELSE @])
  /\ signed' = [signed EXCEPT ![id] = @ \cup {<<oracle, g.evidence, g.window_end>>}]
  /\ lapse' = [lapse EXCEPT ![id] = @ \/ wake]
  /\ UNCHANGED <<now, earned, exit, flagged>>

ClawbackMilestone(id) ==
  LET g == grants[id] IN
  /\ Stored(id) /\ Has(id, "MILESTONE_BASED")
  /\ g.deadline # 0 /\ now > g.deadline /\ ~g.met
  /\ CanSettle(g, now)
  /\ Write(id, [Settle(g, now) EXCEPT !.claimable = 0])
  /\ UNCHANGED <<now, aux>>

(***************************************************************************)
(* The grantee's two exits.                                                *)
(***************************************************************************)

RageQuit(id) ==
  LET g == Settle(grants[id], now) IN
  /\ Stored(id) /\ Has(id, "PAUSED")
  /\ CanSettle(grants[id], now)
  /\ Write(id, [g EXCEPT !.status_mask = (@ \cup {"COMPLETED", "RAGE_QUIT"}) \ Moving,
                         !.flow_rate = 0, !.withdrawn = @ + g.claimable, !.claimable = 0])
  /\ exit' = [exit EXCEPT ![id] = [withdrawn |-> g.withdrawn + g.claimable,
                                   transferred |-> 0, kind |-> "RageQuit"]]
  /\ UNCHANGED <<now, earned, signed, lapse, flagged>>

(* transfer_to_grantee and refund_to_admin: each does nothing for an amount *)
(* that is not positive.                                                   *)
FinalPayment(amount) == IF amount > 0 THEN amount ELSE 0
Payout(g) == FinalPayment(g.claimable) + FinalPayment(Remaining(g))

MayTerminate(mask) == mask \cap (Over \cup {"RAGE_QUIT"}) = {} /\ mask \cap Moving # {}

(* Mutant: the exit leaves a PAUSED grant PAUSED.                          *)
SelfTerminateKeepingPause(id) ==
  LET g == Settle(grants[id], now) IN
  /\ Stored(id) /\ MayTerminate(grants[id].status_mask)
  /\ CanSettle(grants[id], now)
  /\ Write(id, [g EXCEPT !.status_mask = (@ \cup {"RAGE_QUIT"}) \ {"ACTIVE"},
                         !.flow_rate = 0])
  /\ exit' = [exit EXCEPT ![id] = [withdrawn |-> g.withdrawn,
                                   transferred |-> Payout(g),
                                   kind |-> "SelfTerminated"]]
  /\ UNCHANGED <<now, earned, signed, lapse, flagged>>

(* The claimable amount goes to the grantee and the rest to the admin; the *)
(* grant's books keep the claimable amount as if it were still owed.       *)
SelfTerminate(id) ==
  LET g == Settle(grants[id], now) IN
  /\ Stored(id) /\ MayTerminate(grants[id].status_mask)
  /\ CanSettle(grants[id], now)
  /\ Write(id, [g EXCEPT !.status_mask = (@ \cup {"RAGE_QUIT"}) \ Moving, !.flow_rate = 0])
  /\ exit' = [exit EXCEPT ![id] = [withdrawn |-> g.withdrawn,
                                   transferred |-> Payout(g),
                                   kind |-> "SelfTerminated"]]
  /\ UNCHANGED <<now, earned, signed, lapse, flagged>>

(* A second passes; earned is kept for the properties alone.               *)
Tick ==
  /\ now < MaxTime
  /\ now' = now + 1
  /\ earned' = [id \in Ids |->
       IF Stored(id) /\ Has(id, "ACTIVE") THEN earned[id] + grants[id].flow_rate
                                          ELSE earned[id]]
  /\ UNCHANGED <<grants, exit, signed, lapse, flagged>>

AdminNext(id) ==
  \/ \E total \in Totals, rate \in Rates, mask \in Masks :
       CreateGrant(id, total, rate, mask)
  \/ CancelGrant(id) \/ PauseGrant(id) \/ ResumeGrant(id)
  \/ \E mask \in Masks : SetGrantFlags(id, mask)
  \/ \E rate \in Rates : UpdateRate(id, rate)
  \/ \E deadline \in Deadlines : SetMilestoneDeadline(id, deadline)
  \/ \E oracles \in OracleSets, n \in Thresholds, window \in Windows :
       ConfigureMilestoneOracles(id, oracles, n, window)
  \/ ClawbackMilestone(id)

GranteeNext(id) ==
  \/ \E amount \in 1..MaxTime : Withdraw(id, amount)
  \/ \E hash \in Hashes : SubmitMilestoneEvidence(id, hash)
  \/ \E oracle \in Oracles : ApproveMilestone(id, oracle)
  \/ ProcessMilestoneExpiry(id)
  \/ RageQuit(id) \/ SelfTerminate(id)

Next == Tick \/ \E id \in Ids : AdminNext(id) \/ GranteeNext(id)

Spec == Init /\ [][Next]_vars

(***************************************************************************)
(* Properties.                                                             *)
(***************************************************************************)

(* What the grantee has and may claim is never more than total_amount and  *)
(* than the flow rate gave over the seconds the grant was ACTIVE, through  *)
(* pauses, rate changes, expiry, cancellation and exits. One path lets the *)
(* second part fail: approve_milestone lifts a pause without settling.     *)
EarnedWithinTotal ==
  \A id \in Ids : Stored(id) =>
    /\ Accounted(grants[id]) <= grants[id].total_amount
    /\ ~lapse[id] => Accounted(grants[id]) <= earned[id]

(* A milestone is met only by the threshold of whitelisted oracles, every  *)
(* one of which signed the evidence now stored, with its own window.       *)
ConsensusBehindMilestone ==
  \A id \in Ids : Stored(id) /\ grants[id].met =>
    LET g == grants[id] IN
    Cardinality({o \in g.oracles : <<o, g.evidence, g.window_end>> \in signed[id]})
      >= g.threshold

(* Once the grantee has left, by either exit, nothing more is booked, and  *)
(* a self-termination has paid out exactly what was not withdrawn; the     *)
(* grant is not ACTIVE or PAUSED again. Only set_grant_flags may undo it.  *)
ExitIsFinal ==
  \A id \in Ids : Stored(id) /\ exit[id].kind # "Open" /\ ~flagged[id] =>
    /\ grants[id].status_mask \cap Moving = {}
    /\ grants[id].withdrawn = exit[id].withdrawn
    /\ exit[id].kind = "SelfTerminated" =>
         exit[id].withdrawn + exit[id].transferred = grants[id].total_amount

=============================================================================

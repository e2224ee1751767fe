----------------------------- MODULE Safeguards ------------------------------
(***************************************************************************)
(* The contracts that stand beside the grant stream: the yield treasury,   *)
(* the speed bump, the dead man's switch, the activity monitor, the sealed *)
(* bidding and the arbitration; and the confidential grants, which share   *)
(* with the public ones no more than the balance of a token. None calls    *)
(* another, so that interleaving them adds nothing: contract, chosen to    *)
(* begin with, is the one whose steps are taken.                           *)
(***************************************************************************)
EXTENDS YieldTreasury, SpeedBump, DeadMansSwitch, ActivityMonitor, CommitReveal, Arbitration,
  ConfidentialGrants

ASSUME SafeguardsAssumed ==
  /\ YieldAssumption /\ SpeedBumpAssumption /\ SwitchAssumption /\ MonitorAssumption
  /\ ConfidentialAssumption /\ ArbitrationAssumption /\ BiddingAssumption

VARIABLES
  contract

(* The variables of one contract, all but the clock.                       *)
yonly == <<config, position, reserve, earned, balance, yaux>>
bonly == <<treasury, transfers, held, vetoes, released>>
monly == <<settings, enabled, changes, activity>>
conly == <<bidding, reveal_deadline, commitments, reveals>>

allvars == <<contract, now, yonly, bonly, svars, monly, conly, avars, pvars>>

Contracts == {"yield", "bump", "switch", "monitor", "bids", "arbitration",
              "confidential"}

AllInit ==
  /\ contract \in Contracts
  /\ YInit /\ BInit /\ SInit /\ MInit /\ CInit /\ AInit /\ PInit

YieldStep ==
  contract = "yield" /\ YNext /\ UNCHANGED <<contract, bonly, svars, monly, conly, avars, pvars>>
BumpStep ==
  contract = "bump" /\ BNext /\ UNCHANGED <<contract, yonly, svars, monly, conly, avars, pvars>>
SwitchPart(step) ==
  contract = "switch" /\ step /\ UNCHANGED <<contract, now, yonly, bonly, monly, conly, avars, pvars>>
MonitorStep ==
  contract = "monitor" /\ MNext /\ UNCHANGED <<contract, yonly, bonly, svars, conly, avars, pvars>>
BidsStep ==
  contract = "bids" /\ CNext /\ UNCHANGED <<contract, yonly, bonly, svars, monly, avars, pvars>>
ArbitrationStep ==
  contract = "arbitration" /\ ANext /\ UNCHANGED <<contract, now, yonly, bonly, svars, monly, conly, pvars>>
ConfidentialStep ==
  contract = "confidential" /\ PNext /\ UNCHANGED <<contract, now, yonly, bonly, svars, monly, conly, avars>>

AllNext ==
  \/ YieldStep \/ BumpStep \/ SwitchPart(SNext) \/ MonitorStep \/ BidsStep \/ ArbitrationStep
  \/ ConfidentialStep

(* Time passes, and a vault that may claim does.                           *)
AllFairness == WF_allvars(SwitchPart(Elapse)) /\ WF_allvars(SwitchPart(ClaimAdmin))

AllSpec == AllInit /\ [][AllNext]_allvars /\ AllFairness

=============================================================================

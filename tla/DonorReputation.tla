--------------------------- MODULE DonorReputation --------------------------
(***************************************************************************)
(* contracts/grant_stream/src/donor_reputation.rs: donors are rated by the *)
(* share of their sufficiently funded projects that completed every        *)
(* milestone; the rating is their influence in a matching round. The       *)
(* update history, the total funded and the two configuration values that  *)
(* no function reads are left out. While no configuration is stored the    *)
(* one that initialize stores is read.                                     *)
(***************************************************************************)
EXTENDS Integers, FiniteSets, Sequences

CONSTANTS
  None,                   \* a key that is not stored
  Donors, Projects,       \* donor addresses and project ids
  SCALE, BPS,             \* REPUTATION_SCALE and BASIS_POINTS
  MIN_FUNDING,            \* DEFAULT_MIN_FUNDING_THRESHOLD
  MAX_MULTIPLIER,         \* MAX_REPUTATION_MULTIPLIER
  Thresholds, Maxima,     \* the values update_config is called with
  Fundings,               \* amounts donors fund projects with
  Lengths,                \* numbers of milestones
  MaxFunded               \* bound: projects a donor records

Metrics == [donor : Donors, total_milestones : Nat, completed_milestones : Nat,
            project_status : {"Active", "Completed", "Cancelled"}, funded_amount : Nat]
Reputation == [reputation_score : Nat, success_rate : Nat, influence_multiplier : Nat,
               qualifying_projects : Nat, successful_projects : Nat]

ReputationAssumption ==
  /\ None \notin Metrics \cup Reputation
  /\ SCALE \in Nat \ {0} /\ BPS \in Nat \ {0}
  /\ MIN_FUNDING \in Nat \ {0} /\ MAX_MULTIPLIER \in Nat /\ MAX_MULTIPLIER > SCALE
  /\ Thresholds \subseteq Nat \ {0}
  /\ Maxima \subseteq Nat /\ \A x \in Maxima : x > SCALE
  /\ Fundings \subseteq Nat \ {0} /\ Lengths \subseteq Nat \ {0}
  /\ MaxFunded \in Nat

ASSUME ReputationAssumed == ReputationAssumption

VARIABLES
  config,                 \* ReputationConfig as it is read
  configured,             \* whether it is stored
  metrics,                \* ProjectSuccessMetrics(project)
  milestones,             \* the indices with a ProjectMilestoneRecord
  funded,                 \* DonorFundedProjects(donor)
  reputation,             \* DonorReputation(donor)
  reconfigured            \* auxiliary: update_config was called

repVars == <<config, configured, metrics, milestones, funded, reputation, reconfigured>>

RTypeOK ==
  /\ config \in [min_funding_threshold : Nat \ {0}, max_multiplier : Nat]
  /\ configured \in BOOLEAN
  /\ metrics \in [Projects -> Metrics \cup {None}]
  /\ milestones \in [Projects -> SUBSET Nat]
  /\ funded \in [Donors -> Seq(Projects)]
  /\ reputation \in [Donors -> Reputation \cup {None}]
  /\ reconfigured \in BOOLEAN

RInit ==
  /\ config = [min_funding_threshold |-> MIN_FUNDING, max_multiplier |-> MAX_MULTIPLIER]
  /\ configured = FALSE
  /\ metrics = [p \in Projects |-> None]
  /\ milestones = [p \in Projects |-> {}]
  /\ funded = [d \in Donors |-> <<>>]
  /\ reputation = [d \in Donors |-> None]
  /\ reconfigured = FALSE

(***************************************************************************)
(* calculate_success_rate counts the entries of a donor's list, one        *)
(* project as often as it was recorded, by what m says of it now.          *)
(***************************************************************************)

Qualifying(list, m) ==
  {i \in DOMAIN list : m[list[i]].funded_amount >= config.min_funding_threshold}

Successful(list, m) == {i \in Qualifying(list, m) : m[list[i]].project_status = "Completed"}

SuccessRate(list, m) ==
  IF Qualifying(list, m) = {} THEN 0
  ELSE (Cardinality(Successful(list, m)) * BPS) \div Cardinality(Qualifying(list, m))

Score(rate) == (rate * SCALE) \div BPS

(* calculate_influence_multiplier and, for a donor, calculate_influence;   *)
(* donate takes SCALE for a donor without a reputation.                    *)
Multiplier(score) ==
  LET linear == SCALE + (score * (config.max_multiplier - SCALE)) \div SCALE
  IN  IF linear > config.max_multiplier THEN config.max_multiplier ELSE linear

Influence(d) ==
  IF reputation[d] = None THEN SCALE ELSE Multiplier(reputation[d].reputation_score)

(* update_donor_reputation_internal, of the lists and metrics just stored. *)
(* A donor's first record counts one qualifying project, whatever it is.   *)
Rated(d, list, m) ==
  LET rate  == SuccessRate(list, m)
      first == reputation[d] = None
  IN  [reputation EXCEPT ![d] =
         [reputation_score |-> Score(rate), success_rate |-> rate,
          influence_multiplier |-> Multiplier(Score(rate)),
          qualifying_projects |-> IF first THEN 1 ELSE Cardinality(Qualifying(list, m)),
          successful_projects |-> IF first THEN 0 ELSE Cardinality(Successful(list, m))]]

(***************************************************************************)
(* The entry points.                                                       *)
(***************************************************************************)

Initialize ==
  /\ ~configured
  /\ configured' = TRUE
  /\ UNCHANGED <<config, metrics, milestones, funded, reputation, reconfigured>>

(* An option that is not given leaves its value as it is.                  *)
UpdateConfig(threshold, multiplier) ==
  /\ config' = [min_funding_threshold |-> threshold, max_multiplier |-> multiplier]
  /\ configured' = TRUE /\ reconfigured' = TRUE
  /\ UNCHANGED <<metrics, milestones, funded, reputation>>

(* Mutant: the donor is rated before the project joins the list.           *)
RecordFundedRatedFirst(d, p, amount, total) ==
  LET m == [metrics EXCEPT ![p] =
              [donor |-> d, total_milestones |-> total, completed_milestones |-> 0,
               project_status |-> "Active", funded_amount |-> amount]]
  IN
  /\ Len(funded[d]) < MaxFunded
  /\ metrics' = m
  /\ funded' = [funded EXCEPT ![d] = Append(@, p)]
  /\ reputation' = IF amount >= config.min_funding_threshold THEN Rated(d, funded[d], m)
                                                             ELSE reputation
  /\ UNCHANGED <<config, configured, milestones, reconfigured>>

(* Nothing asks whether the project is recorded already: its metrics are   *)
(* replaced, with its donor, and its milestone records stay.               *)
RecordProjectFunded(d, p, amount, total) ==
  LET m    == [metrics EXCEPT ![p] =
                 [donor |-> d, total_milestones |-> total, completed_milestones |-> 0,
                  project_status |-> "Active", funded_amount |-> amount]]
      list == Append(funded[d], p)
  IN
  /\ Len(funded[d]) < MaxFunded
  /\ metrics' = m
  /\ funded' = [funded EXCEPT ![d] = list]
  /\ reputation' = IF amount >= config.min_funding_threshold THEN Rated(d, list, m)
                                                             ELSE reputation
  /\ UNCHANGED <<config, configured, milestones, reconfigured>>

(* Mutant: a milestone recorded before is counted again.                   *)
RecordMilestoneAgain(p, index) ==
  LET done == metrics[p].completed_milestones + 1
      m == [metrics EXCEPT ![p].completed_milestones = done,
                           ![p].project_status =
                             IF done = metrics[p].total_milestones THEN "Completed" ELSE @]
  IN
  /\ metrics[p] # None
  /\ index < metrics[p].total_milestones
  /\ milestones' = [milestones EXCEPT ![p] = @ \cup {index}]
  /\ metrics' = m
  /\ reputation' = Rated(m[p].donor, funded[m[p].donor], m)
  /\ UNCHANGED <<config, configured, funded, reconfigured>>

(* The status is not read: a Cancelled project may still be completed.     *)
RecordMilestoneCompleted(p, index) ==
  LET done == metrics[p].completed_milestones + 1
      m == [metrics EXCEPT ![p].completed_milestones = done,
                           ![p].project_status =
                             IF done = metrics[p].total_milestones THEN "Completed" ELSE @]
  IN
  /\ metrics[p] # None
  /\ index < metrics[p].total_milestones /\ index \notin milestones[p]
  /\ milestones' = [milestones EXCEPT ![p] = @ \cup {index}]
  /\ metrics' = m
  /\ reputation' = Rated(m[p].donor, funded[m[p].donor], m)
  /\ UNCHANGED <<config, configured, funded, reconfigured>>

RecordProjectFailed(p) ==
  LET m == [metrics EXCEPT ![p].project_status = "Cancelled"] IN
  /\ metrics[p] # None /\ metrics[p].project_status # "Completed"
  /\ metrics' = m
  /\ reputation' = Rated(m[p].donor, funded[m[p].donor], m)
  /\ UNCHANGED <<config, configured, milestones, funded, reconfigured>>

ReputationNext ==
  \/ Initialize
  \/ \E threshold \in Thresholds \cup {config.min_funding_threshold},
        multiplier \in Maxima \cup {config.max_multiplier} :
       UpdateConfig(threshold, multiplier)
  \/ \E d \in Donors, p \in Projects, amount \in Fundings, total \in Lengths :
       RecordProjectFunded(d, p, amount, total)
  \/ \E p \in Projects, n \in Lengths : RecordMilestoneCompleted(p, n - 1)
  \/ \E p \in Projects : RecordProjectFailed(p)

RSpec == RInit /\ [][ReputationNext]_repVars

(***************************************************************************)
(* Properties.                                                             *)
(***************************************************************************)

RecordedOnce(p) ==
  \A d, e \in Donors : \A i \in DOMAIN funded[d], j \in DOMAIN funded[e] :
    funded[d][i] = p /\ funded[e][j] = p => d = e /\ i = j

(* A rating is that of the projects as they stand now. It is stale only    *)
(* after update_config, which rates nobody, and after a project was        *)
(* recorded twice, when another donor's milestones move it.                *)
RateCurrent ==
  \A d \in Donors :
    reputation[d] # None /\ ~reconfigured
      /\ (\A i \in DOMAIN funded[d] : RecordedOnce(funded[d][i]))
    => reputation[d].success_rate = SuccessRate(funded[d], metrics)

(* A project is Completed only with a record of each of its milestones,    *)
(* although the code counts and never looks, and keeps the records of a    *)
(* project that is recorded again.                                         *)
CompletionNeedsEveryMilestone ==
  \A p \in Projects : metrics[p] # None /\ metrics[p].project_status = "Completed" =>
    0..(metrics[p].total_milestones - 1) \subseteq milestones[p]

=============================================================================

----------------------- MODULE DonorReputationProofs -----------------------
(***************************************************************************)
(* Theorems of DonorReputation, by itself and beneath the matching pool: a *)
(* project is completed only with every milestone, and the ratings are     *)
(* those of the projects as they stand. Then those of the pool: a round    *)
(* divides what it has, in the order of the contributions, and pays no     *)
(* more than was committed. They hold for any donors, projects, pools,     *)
(* thresholds and amounts, and any number of rounds of the square root.    *)
(***************************************************************************)
EXTENDS MatchingPool, SumTheorems, SequenceTheorems, TLAPS

Typed ==
  /\ metrics \in [Projects -> Metrics \cup {None}]
  /\ milestones \in [Projects -> SUBSET Nat]
  /\ funded \in [Donors -> Seq(Projects)]
  /\ reputation = [d \in Donors |-> reputation[d]]

(* The milestones of a project that count towards its completion.          *)
Reached(p) == milestones[p] \cap (0..(metrics[p].total_milestones - 1))

(* The code counts no more milestones than are recorded.                   *)
Counted ==
  \A p \in Projects : metrics[p] # None =>
    metrics[p].completed_milestones <= Cardinality(Reached(p))

(* A project's donor has it in the list.                                   *)
Owned ==
  \A p \in Projects : metrics[p] # None =>
    \E i \in DOMAIN funded[metrics[p].donor] : funded[metrics[p].donor][i] = p

(* The new metrics of a project that is funded, and after a milestone.     *)
Fresh(d, amount, total) ==
  [donor |-> d, total_milestones |-> total, completed_milestones |-> 0,
   project_status |-> "Active", funded_amount |-> amount]
Advanced(g) ==
  [g EXCEPT !.completed_milestones = g.completed_milestones + 1,
            !.project_status = IF g.completed_milestones + 1 = g.total_milestones
                               THEN "Completed" ELSE g.project_status]

(***************************************************************************)
(* The actions, as updates of the metrics of one project.                  *)
(***************************************************************************)

LEMMA AdvancedTyped ==
  ASSUME NEW g \in Metrics
  PROVE  /\ Advanced(g) \in Metrics
         /\ Advanced(g).donor = g.donor
         /\ Advanced(g).total_milestones = g.total_milestones
         /\ Advanced(g).completed_milestones = g.completed_milestones + 1
         /\ Advanced(g).project_status = IF g.completed_milestones + 1 = g.total_milestones
                                         THEN "Completed" ELSE g.project_status
<1> DEFINE done   == g.completed_milestones + 1
           status == IF done = g.total_milestones THEN "Completed" ELSE g.project_status
           g1     == [g EXCEPT !.completed_milestones = done]
<1>1. done \in Nat /\ status \in {"Active", "Completed", "Cancelled"}
  BY DEF Metrics
<1>2. Advanced(g) = [g1 EXCEPT !.project_status = status]
  BY DEF Advanced
<1> HIDE DEF done, status
<1>3. g1 \in Metrics
  BY <1>1 DEF Metrics
<1>4. [g1 EXCEPT !.project_status = status] \in Metrics
  <2> HIDE DEF g1
  <2> QED
    BY <1>1, <1>3 DEF Metrics
<1>5. /\ Advanced(g).donor = g.donor
      /\ Advanced(g).total_milestones = g.total_milestones
      /\ Advanced(g).completed_milestones = done
      /\ Advanced(g).project_status = status
  BY <1>2 DEF Metrics
<1> QED
  BY <1>2, <1>4, <1>5 DEF done, status

LEMMA MilestoneStep ==
  ASSUME ReputationAssumption, Typed, NEW p \in Projects, NEW n \in Lengths,
         RecordMilestoneCompleted(p, n - 1)
  PROVE  /\ metrics[p] \in Metrics /\ n - 1 \in Nat
         /\ n - 1 < metrics[p].total_milestones /\ n - 1 \notin milestones[p]
         /\ metrics' = [metrics EXCEPT ![p] = Advanced(metrics[p])]
         /\ milestones' = [milestones EXCEPT ![p] = milestones[p] \cup {n - 1}]
         /\ reputation' = Rated(metrics[p].donor, funded[metrics[p].donor], metrics')
         /\ UNCHANGED <<config, funded, reconfigured>>
<1>1. metrics[p] \in Metrics /\ n - 1 \in Nat
  BY DEF Typed, RecordMilestoneCompleted, ReputationAssumption
<1>2. metrics' = [metrics EXCEPT ![p] = Advanced(metrics[p])]
  BY <1>1 DEF RecordMilestoneCompleted, Advanced, Typed, Metrics
<1>3. metrics'[p].donor = metrics[p].donor
  BY <1>1, <1>2, AdvancedTyped DEF Typed
<1> QED
  BY <1>1, <1>2, <1>3 DEF RecordMilestoneCompleted

LEMMA FailureStep ==
  ASSUME ReputationAssumption, Typed, NEW p \in Projects, RecordProjectFailed(p)
  PROVE  LET h == [metrics[p] EXCEPT !.project_status = "Cancelled"] IN
         /\ metrics[p] \in Metrics /\ h \in Metrics
         /\ h.donor = metrics[p].donor /\ h.total_milestones = metrics[p].total_milestones
         /\ h.completed_milestones = metrics[p].completed_milestones
         /\ h.project_status = "Cancelled"
         /\ metrics' = [metrics EXCEPT ![p] = h]
         /\ reputation' = Rated(metrics[p].donor, funded[metrics[p].donor], metrics')
         /\ UNCHANGED <<config, milestones, funded, reconfigured>>
<1> DEFINE h == [metrics[p] EXCEPT !.project_status = "Cancelled"]
<1>1. metrics[p] \in Metrics
  BY DEF Typed, RecordProjectFailed
<1>2. /\ h \in Metrics /\ h.donor = metrics[p].donor
      /\ h.total_milestones = metrics[p].total_milestones
      /\ h.completed_milestones = metrics[p].completed_milestones
      /\ h.project_status = "Cancelled"
  BY <1>1 DEF Metrics
<1>3. metrics' = [metrics EXCEPT ![p] = h]
  BY <1>1 DEF RecordProjectFailed, Typed, Metrics
<1>4. metrics'[p].donor = metrics[p].donor
  BY <1>2, <1>3 DEF Typed
<1> QED
  BY <1>1, <1>2, <1>3, <1>4 DEF RecordProjectFailed

LEMMA FundedStep ==
  ASSUME ReputationAssumption, Typed, NEW d \in Donors, NEW p \in Projects,
         NEW amount \in Fundings, NEW total \in Lengths,
         RecordProjectFunded(d, p, amount, total)
  PROVE  LET h == Fresh(d, amount, total) IN
         /\ h \in Metrics /\ h.donor = d /\ h.completed_milestones = 0
         /\ h.funded_amount = amount /\ h.project_status = "Active"
         /\ metrics' = [metrics EXCEPT ![p] = h]
         /\ funded' = [funded EXCEPT ![d] = Append(funded[d], p)]
         /\ reputation' = IF amount >= config.min_funding_threshold
                          THEN Rated(d, Append(funded[d], p), metrics') ELSE reputation
         /\ UNCHANGED <<config, milestones, reconfigured>>
<1>1. amount \in Nat /\ total \in Nat
  BY DEF ReputationAssumption
<1>2. /\ Fresh(d, amount, total) \in Metrics /\ Fresh(d, amount, total).donor = d
      /\ Fresh(d, amount, total).completed_milestones = 0
      /\ Fresh(d, amount, total).funded_amount = amount
      /\ Fresh(d, amount, total).project_status = "Active"
  BY <1>1 DEF Fresh, Metrics
<1> QED
  BY <1>2 DEF RecordProjectFunded, Fresh

(* Every step keeps the types, and tells what it did to the metrics.       *)
LEMMA StepTyped ==
  ASSUME ReputationAssumption, Typed, [ReputationNext]_repVars
  PROVE  Typed'
<1>1. ASSUME UNCHANGED <<metrics, milestones, funded, reputation>>
      PROVE  Typed'
  BY <1>1 DEF Typed
<1>2. ASSUME NEW p \in Projects, NEW n \in Lengths, RecordMilestoneCompleted(p, n - 1)
      PROVE  Typed'
  <2>1. /\ metrics[p] \in Metrics /\ n - 1 \in Nat
        /\ metrics' = [metrics EXCEPT ![p] = Advanced(metrics[p])]
        /\ milestones' = [milestones EXCEPT ![p] = milestones[p] \cup {n - 1}]
        /\ funded' = funded
    BY <1>2, MilestoneStep
  <2>2. Advanced(metrics[p]) \in Metrics
    BY <2>1, AdvancedTyped
  <2>3. reputation' = [e \in Donors |-> reputation'[e]]
    BY <1>2, MilestoneStep DEF Typed, Rated
  <2> QED
    BY <2>1, <2>2, <2>3 DEF Typed
<1>3. ASSUME NEW p \in Projects, RecordProjectFailed(p)
      PROVE  Typed'
  <2> DEFINE h == [metrics[p] EXCEPT !.project_status = "Cancelled"]
  <2>1. /\ h \in Metrics /\ metrics' = [metrics EXCEPT ![p] = h]
        /\ milestones' = milestones /\ funded' = funded
    BY <1>3, FailureStep
  <2>2. reputation' = [e \in Donors |-> reputation'[e]]
    BY <1>3, FailureStep DEF Typed, Rated
  <2> HIDE DEF h
  <2> QED
    BY <2>1, <2>2 DEF Typed
<1>4. ASSUME NEW d \in Donors, NEW p \in Projects, NEW amount \in Fundings,
             NEW total \in Lengths, RecordProjectFunded(d, p, amount, total)
      PROVE  Typed'
  <2>1. /\ Fresh(d, amount, total) \in Metrics
        /\ metrics' = [metrics EXCEPT ![p] = Fresh(d, amount, total)]
        /\ milestones' = milestones /\ funded' = [funded EXCEPT ![d] = Append(funded[d], p)]
    BY <1>4, FundedStep
  <2>2. reputation' = [e \in Donors |-> reputation'[e]]
    BY <1>4 DEF RecordProjectFunded, Typed, Rated
  <2>3. Append(funded[d], p) \in Seq(Projects)
    BY DEF Typed
  <2>4. funded' \in [Donors -> Seq(Projects)]
    <3> DEFINE list == Append(funded[d], p)
    <3> HIDE DEF list
    <3> QED
      BY <2>1, <2>3 DEF Typed, list
  <2>5. metrics' \in [Projects -> Metrics \cup {None}]
    BY <2>1 DEF Typed
  <2> QED
    BY <2>1, <2>2, <2>4, <2>5 DEF Typed
<1> QED
  BY <1>1, <1>2, <1>3, <1>4 DEF ReputationNext, Initialize, UpdateConfig, repVars

(***************************************************************************)
(* Completion.                                                             *)
(***************************************************************************)

CompletionInv == Typed /\ Counted /\ CompletionNeedsEveryMilestone

LEMMA ReachedFinite ==
  ASSUME NEW S \in SUBSET Nat, NEW total \in Nat
  PROVE  LET R == S \cap (0..(total - 1)) IN
         /\ IsFiniteSet(R) /\ Cardinality(R) \in Nat
         /\ Cardinality(R) >= total => 0..(total - 1) \subseteq S
<1> DEFINE I == 0..(total - 1)
           R == S \cap I
<1>1. IsFiniteSet(I) /\ Cardinality(I) = total
  <2> DEFINE last == total - 1
  <2>1. last \in Int /\ 0 \in Int
    OBVIOUS
  <2> HIDE DEF last
  <2>2. IsFiniteSet(0..last) /\ Cardinality(0..last) = IF 0 > last THEN 0 ELSE last - 0 + 1
    BY <2>1, FS_Interval
  <2>3. I = 0..last /\ (IF 0 > last THEN 0 ELSE last - 0 + 1) = total
    BY DEF last
  <2> QED
    BY <2>2, <2>3
<1>2. R \subseteq I
  OBVIOUS
<1> HIDE DEF I
<1>3. IsFiniteSet(R) /\ (Cardinality(R) = Cardinality(I) => R = I)
      /\ Cardinality(R) <= Cardinality(I)
  BY <1>1, <1>2, FS_Subset
<1>4. Cardinality(R) \in Nat
  BY <1>3, FS_CardinalityType
<1>5. Cardinality(R) >= total => R = I
  BY <1>1, <1>3, <1>4
<1> QED
  BY <1>3, <1>4, <1>5 DEF I

LEMMA ReachedAdds ==
  ASSUME NEW S \in SUBSET Nat, NEW total \in Nat, NEW index \in Nat, index < total, index \notin S
  PROVE  Cardinality((S \cup {index}) \cap (0..(total - 1)))
           = Cardinality(S \cap (0..(total - 1))) + 1
<1> DEFINE R == S \cap (0..(total - 1))
<1>1. (S \cup {index}) \cap (0..(total - 1)) = R \cup {index} /\ index \notin R
  OBVIOUS
<1>2. IsFiniteSet(R)
  BY ReachedFinite
<1> HIDE DEF R
<1>3. Cardinality(R \cup {index}) = Cardinality(R) + 1
  BY <1>1, <1>2, FS_AddElement
<1> QED
  BY <1>1, <1>3 DEF R

LEMMA CompletionKept ==
  ASSUME ReputationAssumption, CompletionInv, [ReputationNext]_repVars
  PROVE  CompletionInv'
<1>0. Typed /\ Counted /\ CompletionNeedsEveryMilestone /\ Typed'
  BY StepTyped DEF CompletionInv
<1>1. SUFFICES ASSUME NEW q \in Projects, metrics'[q] # None
               PROVE  /\ metrics'[q].completed_milestones <= Cardinality(Reached(q)')
                      /\ metrics'[q].project_status = "Completed" =>
                           0..(metrics'[q].total_milestones - 1) \subseteq milestones'[q]
  BY <1>0 DEF CompletionInv, Counted, CompletionNeedsEveryMilestone
<1>2. ASSUME metrics'[q] = metrics[q], milestones'[q] = milestones[q]
      PROVE  /\ metrics'[q].completed_milestones <= Cardinality(Reached(q)')
             /\ metrics'[q].project_status = "Completed" =>
                  0..(metrics'[q].total_milestones - 1) \subseteq milestones'[q]
  BY <1>0, <1>1, <1>2 DEF Counted, CompletionNeedsEveryMilestone, Reached
<1>3. ASSUME NEW p \in Projects, NEW n \in Lengths, RecordMilestoneCompleted(p, n - 1)
      PROVE  /\ metrics'[q].completed_milestones <= Cardinality(Reached(q)')
             /\ metrics'[q].project_status = "Completed" =>
                  0..(metrics'[q].total_milestones - 1) \subseteq milestones'[q]
  <2> DEFINE g     == metrics[p]
             total == g.total_milestones
             done  == g.completed_milestones
             S     == milestones[p]
             I     == 0..(total - 1)
             T     == S \cup {n - 1}
  <2>1. /\ g \in Metrics /\ n - 1 \in Nat /\ n - 1 < total /\ n - 1 \notin S
        /\ metrics' = [metrics EXCEPT ![p] = Advanced(g)]
        /\ milestones' = [milestones EXCEPT ![p] = T]
    BY <1>0, <1>3, MilestoneStep
  <2>2. CASE q # p
    BY <1>0, <1>2, <2>1, <2>2 DEF Typed
  <2>3. CASE q = p
    <3>1. /\ metrics'[q] = Advanced(g) /\ milestones'[q] = T
          /\ S \in SUBSET Nat /\ g # None
      BY <1>0, <1>1, <1>3, <2>1, <2>3 DEF Typed, RecordMilestoneCompleted
    <3>2. total \in Nat /\ done \in Nat
      BY <2>1 DEF Metrics
    <3>3. /\ Advanced(g).total_milestones = total /\ Advanced(g).completed_milestones = done + 1
          /\ Advanced(g).project_status = IF done + 1 = total THEN "Completed"
                                                              ELSE g.project_status
      BY <2>1, AdvancedTyped
    <3>4. done <= Cardinality(S \cap I)
          /\ (g.project_status = "Completed" => I \subseteq S)
      BY <1>0, <3>1 DEF Counted, CompletionNeedsEveryMilestone, Reached
    <3>5. Cardinality(T \cap I) = Cardinality(S \cap I) + 1
      <4> HIDE DEF total, S
      <4> QED
        BY <2>1, <3>1, <3>2, ReachedAdds
    <3>6. Cardinality(S \cap I) \in Nat
      BY <3>1, <3>2, ReachedFinite
    <3>7. T \in SUBSET Nat
      BY <2>1, <3>1
    <3>8. Cardinality(T \cap I) >= total => I \subseteq T
      <4> HIDE DEF total, T
      <4> QED
        BY <3>2, <3>7, ReachedFinite
    <3> HIDE DEF g, total, done, I, T, S
    <3>9. done + 1 <= Cardinality(T \cap I)
      BY <3>2, <3>4, <3>5, <3>6
    <3>10. Reached(q)' = T \cap I
      BY <3>1, <3>3 DEF Reached, I
    <3>11. metrics'[q].project_status = "Completed" => I \subseteq T
      <4>1. CASE done + 1 = total
        BY <3>8, <3>9, <4>1
      <4>2. CASE done + 1 # total
        BY <3>1, <3>3, <3>4, <4>2 DEF T
      <4> QED
        BY <4>1, <4>2
    <3> QED
      BY <3>1, <3>3, <3>9, <3>10, <3>11 DEF I
  <2> QED
    BY <2>2, <2>3
<1>4. ASSUME NEW p \in Projects, RecordProjectFailed(p)
      PROVE  /\ metrics'[q].completed_milestones <= Cardinality(Reached(q)')
             /\ metrics'[q].project_status = "Completed" =>
                  0..(metrics'[q].total_milestones - 1) \subseteq milestones'[q]
  <2> DEFINE h == [metrics[p] EXCEPT !.project_status = "Cancelled"]
  <2>1. /\ h.total_milestones = metrics[p].total_milestones
        /\ h.completed_milestones = metrics[p].completed_milestones
        /\ h.project_status = "Cancelled" /\ metrics[p] \in Metrics
        /\ metrics' = [metrics EXCEPT ![p] = h] /\ milestones' = milestones
    BY <1>0, <1>4, FailureStep
  <2>2. metrics[p] # None
    BY <1>4 DEF RecordProjectFailed
  <2> HIDE DEF h
  <2>3. CASE q # p
    BY <1>0, <1>2, <2>1, <2>3 DEF Typed
  <2>4. CASE q = p
    <3>1. metrics'[q] = h
      BY <1>0, <2>1, <2>4 DEF Typed
    <3>2. Reached(q)' = Reached(p)
      BY <2>1, <2>4, <3>1 DEF Reached
    <3> QED
      BY <1>0, <2>1, <2>2, <3>1, <3>2 DEF Counted
  <2> QED
    BY <2>3, <2>4
<1>5. ASSUME NEW d \in Donors, NEW p \in Projects, NEW amount \in Fundings,
             NEW total \in Lengths, RecordProjectFunded(d, p, amount, total)
      PROVE  /\ metrics'[q].completed_milestones <= Cardinality(Reached(q)')
             /\ metrics'[q].project_status = "Completed" =>
                  0..(metrics'[q].total_milestones - 1) \subseteq milestones'[q]
  <2> DEFINE h == Fresh(d, amount, total)
  <2>1. /\ h \in Metrics /\ h.completed_milestones = 0 /\ h.project_status = "Active"
        /\ metrics' = [metrics EXCEPT ![p] = h] /\ milestones' = milestones
    BY <1>0, <1>5, FundedStep
  <2> HIDE DEF h
  <2>2. CASE q # p
    BY <1>0, <1>2, <2>1, <2>2 DEF Typed
  <2>3. CASE q = p
    <3>1. metrics'[q] = h
      BY <1>0, <2>1, <2>3 DEF Typed
    <3>2. milestones[q] \in SUBSET Nat /\ h.total_milestones \in Nat
      BY <1>0, <2>1 DEF Typed, Metrics
    <3>3. Reached(q)' = milestones[q] \cap (0..(h.total_milestones - 1))
      BY <2>1, <3>1 DEF Reached
    <3>4. Cardinality(Reached(q)') \in Nat
      BY <3>2, <3>3, ReachedFinite
    <3> QED
      BY <2>1, <3>1, <3>4
  <2> QED
    BY <2>2, <2>3
<1>6. ASSUME UNCHANGED <<metrics, milestones>>
      PROVE  /\ metrics'[q].completed_milestones <= Cardinality(Reached(q)')
             /\ metrics'[q].project_status = "Completed" =>
                  0..(metrics'[q].total_milestones - 1) \subseteq milestones'[q]
  BY <1>2, <1>6
<1> QED
  BY <1>3, <1>4, <1>5, <1>6 DEF ReputationNext, Initialize, UpdateConfig, repVars

(***************************************************************************)
(* The ratings.                                                            *)
(***************************************************************************)

(* What RateCurrent asks before it says anything of a donor.               *)
Undisturbed(d) ==
  reputation[d] # None /\ ~reconfigured /\ \A i \in DOMAIN funded[d] : RecordedOnce(funded[d][i])

RateInv == Typed /\ Owned /\ RateCurrent

(* The rate of a list depends on the projects in it alone.                 *)
LEMMA RateDepends ==
  ASSUME NEW list, NEW m, NEW n, \A i \in DOMAIN list : m[list[i]] = n[list[i]]
  PROVE  SuccessRate(list, m) = SuccessRate(list, n)
<1>1. Qualifying(list, m) = Qualifying(list, n)
  BY DEF Qualifying
<1>2. Successful(list, m) = Successful(list, n)
  BY <1>1 DEF Successful, Qualifying
<1> QED
  BY <1>1, <1>2 DEF SuccessRate

(* A project below the threshold does not move it.                         *)
LEMMA RateIgnores ==
  ASSUME NEW list \in Seq(Projects), NEW p \in Projects, NEW m,
         ~(m[p].funded_amount >= config.min_funding_threshold)
  PROVE  SuccessRate(Append(list, p), m) = SuccessRate(list, m)
<1> DEFINE longer == Append(list, p)
<1>1. /\ DOMAIN longer = DOMAIN list \cup {Len(list) + 1} /\ longer[Len(list) + 1] = p
      /\ \A i \in DOMAIN list : longer[i] = list[i]
  OBVIOUS
<1> HIDE DEF longer
<1>2. Qualifying(longer, m) = Qualifying(list, m)
  BY <1>1 DEF Qualifying
<1>3. Successful(longer, m) = Successful(list, m)
  BY <1>1, <1>2 DEF Successful, Qualifying
<1> QED
  BY <1>2, <1>3 DEF SuccessRate, longer

LEMMA RatedRate ==
  ASSUME Typed, NEW d \in Donors, NEW list, NEW m, NEW e \in Donors
  PROVE  /\ d = e => Rated(d, list, m)[e].success_rate = SuccessRate(list, m)
         /\ d # e => Rated(d, list, m)[e] = reputation[e]
BY DEF Rated, Typed

(* A project stays in the list of its donor, and once two entries share a  *)
(* project they share it for ever.                                         *)
LEMMA ListsGrow ==
  ASSUME Typed, NEW d \in Donors, NEW p \in Projects,
         funded' = funded \/ funded' = [funded EXCEPT ![d] = Append(funded[d], p)],
         NEW e \in Donors
  PROVE  /\ DOMAIN funded[e] \subseteq DOMAIN funded'[e]
         /\ \A i \in DOMAIN funded[e] : funded'[e][i] = funded[e][i]
<1>1. funded[e] \in Seq(Projects) /\ funded[d] \in Seq(Projects)
  BY DEF Typed
<1>2. CASE funded' = funded
  BY <1>2
<1>3. CASE funded' = [funded EXCEPT ![d] = Append(funded[d], p)] /\ e = d
  <2>1. funded'[e] = Append(funded[d], p)
    BY <1>3 DEF Typed
  <2> QED
    BY <1>1, <1>3, <2>1
<1>4. CASE funded' = [funded EXCEPT ![d] = Append(funded[d], p)] /\ e # d
  <2>1. funded'[e] = funded[e]
    BY <1>4 DEF Typed
  <2> QED
    BY <2>1
<1> QED
  BY <1>2, <1>3, <1>4

LEMMA OnceBefore ==
  ASSUME Typed, NEW d \in Donors, NEW p \in Projects,
         funded' = funded \/ funded' = [funded EXCEPT ![d] = Append(funded[d], p)],
         NEW q, RecordedOnce(q)'
  PROVE  RecordedOnce(q)
<1>1. \A e \in Donors : /\ DOMAIN funded[e] \subseteq DOMAIN funded'[e]
                        /\ \A i \in DOMAIN funded[e] : funded'[e][i] = funded[e][i]
  BY ListsGrow
<1>2. SUFFICES ASSUME NEW e \in Donors, NEW f \in Donors,
                      NEW i \in DOMAIN funded[e], NEW j \in DOMAIN funded[f],
                      funded[e][i] = q, funded[f][j] = q
               PROVE  e = f /\ i = j
  BY DEF RecordedOnce
<1>3. /\ i \in DOMAIN funded'[e] /\ funded'[e][i] = q
      /\ j \in DOMAIN funded'[f] /\ funded'[f][j] = q
  BY <1>1, <1>2
<1> QED
  BY <1>3 DEF RecordedOnce

(* A milestone or a failure rates the project's donor; nobody else has the *)
(* project in an undisturbed list.                                         *)
LEMMA RatedOwner ==
  ASSUME RateInv, NEW p \in Projects, NEW h \in Metrics, metrics[p] \in Metrics,
         metrics[p] # None, h.donor = metrics[p].donor,
         metrics' = [metrics EXCEPT ![p] = h],
         reputation' = Rated(metrics[p].donor, funded[metrics[p].donor], metrics'),
         UNCHANGED <<config, funded, reconfigured>>
  PROVE  Owned' /\ RateCurrent'
<1> DEFINE owner == metrics[p].donor
<1>1. Typed /\ Owned /\ RateCurrent /\ owner \in Donors
  BY DEF RateInv, Metrics
<1>2. metrics'[p] = h /\ \A q \in Projects : q # p => metrics'[q] = metrics[q]
  BY <1>1 DEF Typed
<1>3. Owned'
  BY <1>1, <1>2 DEF Owned
<1>4. PICK k \in DOMAIN funded[owner] : funded[owner][k] = p
  BY <1>1 DEF Owned
<1>5. ASSUME NEW d \in Donors, Undisturbed(d)'
      PROVE  reputation'[d].success_rate = SuccessRate(funded'[d], metrics')
  <2>1. CASE d = owner
    BY <1>1, <2>1, RatedRate
  <2>2. CASE d # owner
    <3>1. reputation'[d] = reputation[d]
      BY <1>1, <2>2, RatedRate
    <3>2. Undisturbed(d)
      BY <1>5, <3>1 DEF Undisturbed, RecordedOnce
    <3>3. \A i \in DOMAIN funded[d] : funded[d][i] \in Projects /\ funded[d][i] # p
      <4>1. \A i \in DOMAIN funded[d] : funded[d][i] \in Projects
        BY <1>1 DEF Typed
      <4> QED
        BY <1>1, <1>4, <2>2, <3>2, <4>1 DEF Undisturbed, RecordedOnce
    <3>4. SuccessRate(funded[d], metrics') = SuccessRate(funded[d], metrics)
      <4>1. \A i \in DOMAIN funded[d] : metrics'[funded[d][i]] = metrics[funded[d][i]]
        BY <1>2, <3>3
      <4> QED
        BY <4>1, RateDepends
    <3>5. reputation[d].success_rate = SuccessRate(funded[d], metrics)
      BY <1>1, <3>2 DEF RateCurrent, Undisturbed
    <3> QED
      BY <3>1, <3>4, <3>5
  <2> QED
    BY <2>1, <2>2
<1>6. ASSUME NEW d \in Donors
      PROVE  SuccessRate(funded[d], metrics)' = SuccessRate(funded'[d], metrics')
  BY DEF SuccessRate, Successful, Qualifying
<1>7. RateCurrent'
  BY <1>5, <1>6 DEF RateCurrent, Undisturbed
<1> QED
  BY <1>3, <1>7

LEMMA RatedFunder ==
  ASSUME ReputationAssumption, RateInv, NEW d \in Donors, NEW p \in Projects,
         NEW amount \in Fundings, NEW total \in Lengths,
         RecordProjectFunded(d, p, amount, total)
  PROVE  Owned' /\ RateCurrent'
<1> DEFINE h == Fresh(d, amount, total)
           list == Append(funded[d], p)
<1>1. Typed /\ Owned /\ RateCurrent /\ funded[d] \in Seq(Projects)
  BY DEF RateInv, Typed
<1>2. /\ h \in Metrics /\ h.donor = d /\ h.funded_amount = amount
      /\ metrics' = [metrics EXCEPT ![p] = h]
      /\ funded' = [funded EXCEPT ![d] = list]
      /\ reputation' = IF amount >= config.min_funding_threshold
                       THEN Rated(d, list, metrics') ELSE reputation
      /\ UNCHANGED <<config, reconfigured>>
  BY <1>1, FundedStep
<1>3. /\ metrics'[p] = h /\ \A q \in Projects : q # p => metrics'[q] = metrics[q]
      /\ funded'[d] = list /\ \A e \in Donors : e # d => funded'[e] = funded[e]
  BY <1>1, <1>2 DEF Typed
<1>4. /\ DOMAIN list = DOMAIN funded[d] \cup {Len(funded[d]) + 1}
      /\ list[Len(funded[d]) + 1] = p /\ Len(funded[d]) + 1 \notin DOMAIN funded[d]
      /\ \A i \in DOMAIN funded[d] : list[i] = funded[d][i]
  BY <1>1
<1> HIDE DEF h, list
<1>5. Owned'
  <2> SUFFICES ASSUME NEW q \in Projects, metrics'[q] # None
               PROVE  \E i \in DOMAIN funded'[metrics'[q].donor] :
                        funded'[metrics'[q].donor][i] = q
    BY DEF Owned
  <2>1. CASE q = p
    BY <1>2, <1>3, <1>4, <2>1
  <2>2. CASE q # p
    <3> DEFINE e == metrics[q].donor
    <3>1. metrics'[q] = metrics[q] /\ metrics[q] # None
      BY <1>3, <2>2
    <3>2. e \in Donors
      BY <1>1, <3>1 DEF Typed, Metrics
    <3>3. PICK i \in DOMAIN funded[e] : funded[e][i] = q
      BY <1>1, <3>1 DEF Owned
    <3>4. i \in DOMAIN funded'[e] /\ funded'[e][i] = q
      <4>1. CASE e = d
        BY <1>3, <1>4, <3>3, <4>1
      <4>2. CASE e # d
        BY <1>3, <3>2, <3>3, <4>2
      <4> QED
        BY <4>1, <4>2
    <3> QED
      BY <3>1, <3>4
  <2> QED
    BY <2>1, <2>2
<1>6. ASSUME NEW q, RecordedOnce(q)'
      PROVE  RecordedOnce(q)
  BY <1>1, <1>2, <1>6, OnceBefore DEF list
(* p is in no undisturbed list but as the entry that is appended.          *)
<1>7. ASSUME NEW e \in Donors, Undisturbed(e)'
      PROVE  \A i \in DOMAIN funded[e] : funded[e][i] \in Projects /\ funded[e][i] # p
  <2> SUFFICES ASSUME NEW i \in DOMAIN funded[e]
               PROVE  funded[e][i] \in Projects /\ funded[e][i] # p
    OBVIOUS
  <2>1. funded[e][i] \in Projects
    BY <1>1 DEF Typed
  <2>2. i \in DOMAIN funded'[e] /\ funded'[e][i] = funded[e][i]
    BY <1>3, <1>4
  <2>3. RecordedOnce(funded[e][i])'
    BY <1>7, <2>2 DEF Undisturbed
  <2>4. Len(funded[d]) + 1 \in DOMAIN funded'[d] /\ funded'[d][Len(funded[d]) + 1] = p
    BY <1>3, <1>4
  <2>5. funded[e][i] # p
    BY <1>4, <2>2, <2>3, <2>4 DEF RecordedOnce
  <2> QED
    BY <2>1, <2>5
<1>8. ASSUME NEW e \in Donors, Undisturbed(e)', reputation'[e] = reputation[e]
      PROVE  reputation[e].success_rate = SuccessRate(funded[e], metrics')
  <2>1. Undisturbed(e)
    <3>1. ASSUME NEW i \in DOMAIN funded[e], NEW q, q = funded[e][i]
          PROVE  RecordedOnce(q)
      <4>1. i \in DOMAIN funded'[e] /\ funded'[e][i] = q
        BY <1>3, <1>4, <3>1
      <4>2. RecordedOnce(q)'
        BY <1>8, <4>1 DEF Undisturbed
      <4> QED
        BY <1>6, <4>2
    <3> QED
      BY <1>2, <1>8, <3>1 DEF Undisturbed
  <2>2. reputation[e].success_rate = SuccessRate(funded[e], metrics)
    BY <1>1, <2>1 DEF RateCurrent, Undisturbed
  <2>3. SuccessRate(funded[e], metrics') = SuccessRate(funded[e], metrics)
    BY <1>3, <1>7, <1>8, RateDepends
  <2> QED
    BY <2>2, <2>3
<1>9. ASSUME NEW e \in Donors, Undisturbed(e)'
      PROVE  reputation'[e].success_rate = SuccessRate(funded'[e], metrics')
  <2>1. CASE e = d /\ amount >= config.min_funding_threshold
    BY <1>1, <1>2, <1>3, <2>1, RatedRate
  <2>2. CASE e = d /\ ~(amount >= config.min_funding_threshold)
    <3>1. reputation'[e] = reputation[e]
      BY <1>2, <2>2
    <3>2. ~(metrics'[p].funded_amount >= config.min_funding_threshold)
      BY <1>2, <1>3, <2>2
    <3>3. SuccessRate(Append(funded[d], p), metrics') = SuccessRate(funded[d], metrics')
      BY <1>1, <3>2, RateIgnores
    <3> QED
      BY <1>3, <1>8, <1>9, <2>2, <3>1, <3>3 DEF list
  <2>3. CASE e # d
    <3>1. reputation'[e] = reputation[e]
      BY <1>1, <1>2, <2>3, RatedRate
    <3> QED
      BY <1>3, <1>8, <1>9, <2>3, <3>1
  <2> QED
    BY <2>1, <2>2, <2>3
<1>10. ASSUME NEW e \in Donors
       PROVE  SuccessRate(funded[e], metrics)' = SuccessRate(funded'[e], metrics')
  BY <1>2 DEF SuccessRate, Successful, Qualifying
<1>11. RateCurrent'
  BY <1>9, <1>10 DEF RateCurrent, Undisturbed
<1> QED
  BY <1>5, <1>11

LEMMA RateKept ==
  ASSUME ReputationAssumption, RateInv, [ReputationNext]_repVars
  PROVE  RateInv'
<1>0. Typed /\ Owned /\ RateCurrent /\ Typed'
  BY StepTyped DEF RateInv
<1>1. ASSUME UNCHANGED <<metrics, funded, reputation, config, reconfigured>>
      PROVE  Owned' /\ RateCurrent'
  <2>1. Owned'
    BY <1>0, <1>1 DEF Owned
  <2>2. ASSUME NEW d \in Donors
        PROVE  SuccessRate(funded[d], metrics)' = SuccessRate(funded[d], metrics)
    BY <1>1 DEF SuccessRate, Successful, Qualifying
  <2>3. ASSUME NEW d \in Donors, Undisturbed(d)'
        PROVE  reputation[d].success_rate = SuccessRate(funded[d], metrics)
    <3>1. Undisturbed(d)
      BY <1>1, <2>3 DEF Undisturbed, RecordedOnce
    <3> QED
      BY <1>0, <3>1 DEF RateCurrent, Undisturbed
  <2> QED
    BY <1>1, <2>1, <2>2, <2>3 DEF RateCurrent, Undisturbed
<1>2. ASSUME NEW threshold, NEW multiplier, UpdateConfig(threshold, multiplier)
      PROVE  Owned' /\ RateCurrent'
  BY <1>0, <1>2 DEF UpdateConfig, Owned, RateCurrent
<1>3. ASSUME NEW p \in Projects, NEW n \in Lengths, RecordMilestoneCompleted(p, n - 1)
      PROVE  Owned' /\ RateCurrent'
  <2>1. /\ metrics[p] \in Metrics /\ metrics' = [metrics EXCEPT ![p] = Advanced(metrics[p])]
        /\ reputation' = Rated(metrics[p].donor, funded[metrics[p].donor], metrics')
        /\ UNCHANGED <<config, funded, reconfigured>>
    BY <1>0, <1>3, MilestoneStep
  <2>2. Advanced(metrics[p]) \in Metrics /\ Advanced(metrics[p]).donor = metrics[p].donor
    BY <2>1, AdvancedTyped
  <2>3. metrics[p] # None
    BY <1>3 DEF RecordMilestoneCompleted
  <2> QED
    BY <2>1, <2>2, <2>3, RatedOwner
<1>4. ASSUME NEW p \in Projects, RecordProjectFailed(p)
      PROVE  Owned' /\ RateCurrent'
  <2> DEFINE h == [metrics[p] EXCEPT !.project_status = "Cancelled"]
  <2>1. /\ metrics[p] \in Metrics /\ h \in Metrics /\ h.donor = metrics[p].donor
        /\ metrics' = [metrics EXCEPT ![p] = h]
        /\ reputation' = Rated(metrics[p].donor, funded[metrics[p].donor], metrics')
        /\ UNCHANGED <<config, funded, reconfigured>>
    BY <1>0, <1>4, FailureStep
  <2>2. metrics[p] # None
    BY <1>4 DEF RecordProjectFailed
  <2> HIDE DEF h
  <2> QED
    BY <2>1, <2>2, RatedOwner
<1>5. ASSUME NEW d \in Donors, NEW p \in Projects, NEW amount \in Fundings,
             NEW total \in Lengths, RecordProjectFunded(d, p, amount, total)
      PROVE  Owned' /\ RateCurrent'
  BY <1>5, RatedFunder
<1>6. Owned' /\ RateCurrent'
  BY <1>1, <1>2, <1>3, <1>4, <1>5 DEF ReputationNext, Initialize, repVars
<1> QED
  BY <1>0, <1>6 DEF RateInv

(***************************************************************************)
(* The theorems.                                                           *)
(***************************************************************************)

LEMMA InitiallyTyped == RInit => Typed
BY DEF RInit, Typed

(* record_milestone_completed completes a project only when each of its    *)
(* milestones has a record, over any repeated funding and failure.         *)
THEOREM CompletionSound == RSpec => []CompletionNeedsEveryMilestone
<1>1. RInit => CompletionInv
  BY InitiallyTyped DEF RInit, CompletionInv, Counted, CompletionNeedsEveryMilestone
<1>2. CompletionInv /\ [ReputationNext]_repVars => CompletionInv'
  BY CompletionKept, ReputationAssumed
<1>3. CompletionInv => CompletionNeedsEveryMilestone
  BY DEF CompletionInv
<1> QED
  BY <1>1, <1>2, <1>3, PTL DEF RSpec

(* update_donor_reputation_internal leaves no rating behind the projects   *)
(* it is made of, but after update_config and repeated records.            *)
THEOREM RatingsCurrent == RSpec => []RateCurrent
<1>1. RInit => RateInv
  BY InitiallyTyped DEF RInit, RateInv, Owned, RateCurrent
<1>2. RateInv /\ [ReputationNext]_repVars => RateInv'
  BY RateKept, ReputationAssumed
<1>3. RateInv => RateCurrent
  BY DEF RateInv
<1> QED
  BY <1>1, <1>2, <1>3, PTL DEF RSpec

(* The matching pool reads the ratings and never moves them.               *)
THEOREM PoolRespectsReputation == MSpec => RSpec
<1>1. MInit => RInit
  BY DEF MInit
<1>2. [MNext]_<<repVars, poolVars>> => [ReputationNext]_repVars
  <2> SUFFICES ASSUME [MNext]_<<repVars, poolVars>> PROVE [ReputationNext]_repVars
    OBVIOUS
  <2>1. ASSUME NEW k \in Pools, PoolNext(k)
        PROVE  UNCHANGED repVars
    BY <2>1 DEF PoolNext, InitializePool, OpenRound, Donate, CalculateMatching,
                DistributeMatchedFunds
  <2>2. ASSUME NEW d \in Donors, VerifySep12Identity(d)
        PROVE  UNCHANGED repVars
    BY <2>2 DEF VerifySep12Identity
  <2>3. CASE Tick
    BY <2>3 DEF Tick
  <2> QED
    BY <2>1, <2>2, <2>3 DEF MNext
<1> QED
  BY <1>1, <1>2, PTL DEF MSpec, RSpec

(* So both hold of every round of matching.                                *)
THEOREM PoolRatingsSound == MSpec => [](RateCurrent /\ CompletionNeedsEveryMilestone)
BY PoolRespectsReputation, RatingsCurrent, CompletionSound, PTL

(***************************************************************************)
(* Newton's method. A larger number is not given a smaller root, for any   *)
(* number of rounds: an iterate is never below the root, and the only step *)
(* that goes up, from the root of a number just below a square, ends no    *)
(* higher than the roots of the numbers above.                             *)
(***************************************************************************)

NewtonStep(n, x) == (x + n \div x) \div 2

Above(n, x) == x \in Nat \ {0} /\ n < (x + 1) * (x + 1)

LEMMA Quotient ==
  ASSUME NEW n \in Nat, NEW x \in Nat \ {0}
  PROVE  /\ n \div x \in Nat
         /\ (n \div x) * x <= n /\ n < (n \div x) * x + x
  OBVIOUS

LEMMA QuotientLeast ==
  ASSUME NEW n \in Nat, NEW x \in Nat \ {0}, NEW q \in Nat, q * x <= n
  PROVE  q <= n \div x
<1> DEFINE d == n \div x
<1>1. d \in Nat /\ n < d * x + x
  BY Quotient
<1> HIDE DEF d
<1>2. q * x < (d + 1) * x
  <2>1. (d + 1) * x = d * x + x /\ q * x \in Int /\ d * x \in Int
    BY <1>1
  <2> QED
    BY <1>1, <2>1
<1>3. CASE q >= d + 1
  <2>1. q * x >= (d + 1) * x
    BY <1>1, <1>3
  <2>2. q * x \in Int /\ (d + 1) * x \in Int
    BY <1>1
  <2> QED
    BY <1>2, <2>1, <2>2
<1> QED
  BY <1>1, <1>3 DEF d

LEMMA NewtonAbove ==
  ASSUME NEW n \in Nat \ {0}, NEW x \in Nat \ {0}, Above(n, x)
  PROVE  Above(n, NewtonStep(n, x))
<1> DEFINE q == n \div x
           y == (x + q) \div 2
<1>1. q \in Nat /\ n < q * x + x
  BY Quotient
<1> HIDE DEF q
<1>2. y \in Nat /\ 2 * y + 1 >= x + q
  BY <1>1
<1>3. y >= 1
  <2>1. q >= 1 \/ x >= 2
    <3>1. SUFFICES ASSUME x = 1 PROVE q >= 1
      OBVIOUS
    <3>2. n < q + 1
      BY <1>1, <3>1
    <3> QED
      BY <1>1, <3>2
  <2> QED
    BY <1>1, <1>2, <2>1
<1> HIDE DEF y
<1>4. 4 * n < (x + q + 1) * (x + q + 1)
  <2> DEFINE p == q + 1
  <2>1. p \in Nat /\ q * x + x = p * x
    BY <1>1
  <2> HIDE DEF p
  <2>2. (x - p) * (x - p) >= 0
    <3> DEFINE d == x - p
    <3>1. d \in Int
      BY <2>1
    <3> HIDE DEF d
    <3>2. d * d >= 0
      BY <3>1
    <3> QED
      BY <3>2 DEF d
  <2>3. (x + p) * (x + p) = (x - p) * (x - p) + 4 * (p * x)
    BY <2>1
  <2>4. p * x \in Int /\ (x - p) * (x - p) \in Int
    BY <2>1
  <2>5. 4 * n < (x + p) * (x + p)
    BY <1>1, <2>1, <2>2, <2>3, <2>4
  <2>6. x + q + 1 = x + p
    BY <1>1 DEF p
  <2> QED
    BY <2>5, <2>6
<1>5. (x + q + 1) * (x + q + 1) <= 4 * ((y + 1) * (y + 1))
  <2> DEFINE s == x + q + 1
             t == 2 * (y + 1)
  <2>1. s \in Nat /\ t \in Nat /\ s <= t
    BY <1>1, <1>2
  <2>2. t * t = 4 * ((y + 1) * (y + 1))
    BY <1>2
  <2> HIDE DEF s, t
  <2>3. s * s <= t * t
    <3>1. s * s <= s * t
      BY <2>1
    <3>2. s * t <= t * t
      BY <2>1
    <3>3. s * s \in Int /\ s * t \in Int /\ t * t \in Int
      BY <2>1
    <3> QED
      BY <3>1, <3>2, <3>3
  <2> QED
    BY <2>2, <2>3 DEF s
<1>6. n < (y + 1) * (y + 1)
  <2>1. (x + q + 1) * (x + q + 1) \in Int /\ (y + 1) * (y + 1) \in Int
    BY <1>1, <1>2
  <2> QED
    BY <1>4, <1>5, <2>1
<1> QED
  BY <1>2, <1>3, <1>6 DEF Above, NewtonStep, y, q

LEMMA NewtonMonotone ==
  ASSUME NEW m \in Nat \ {0}, NEW n \in Nat \ {0}, m < n,
         NEW x \in Nat \ {0}, NEW y \in Nat \ {0}, x <= y, Above(m, x)
  PROVE  NewtonStep(m, x) <= NewtonStep(n, y)
<1> DEFINE p == m \div x
           q == n \div y
<1>1. p \in Nat /\ p * x <= m /\ q \in Nat
  BY Quotient
<1>2. ASSUME NEW r \in Nat, r * y <= n
      PROVE  r <= q
  BY <1>2, QuotientLeast
<1> HIDE DEF p, q
<1>3. m < x * x + 2 * x + 1
  <2>1. (x + 1) * (x + 1) = x * x + 2 * x + 1
    OBVIOUS
  <2> QED
    BY <2>1 DEF Above
<1>4. x + p <= y + q \/ (x + p) \div 2 <= (y + q) \div 2
  <2>1. CASE p <= y
    <3> DEFINE d == y - x
    <3>1. d \in Nat /\ y = x + d
      OBVIOUS
    <3> HIDE DEF d
    <3>2. CASE p < d
      BY <1>1, <3>1, <3>2
    <3>3. CASE p >= d
      <4> DEFINE r == p - d
      <4>1. r \in Nat /\ p = r + d
        BY <1>1, <3>1, <3>3
      <4> HIDE DEF r
      <4>2. r * y <= p * x
        <5>1. r <= x
          BY <1>1, <2>1, <3>1, <4>1
        <5>2. r * y = r * x + r * d /\ p * x = r * x + d * x
          BY <3>1, <4>1
        <5>3. r * d <= d * x
          BY <3>1, <4>1, <5>1
        <5>4. r * x \in Int /\ r * d \in Int /\ d * x \in Int
          BY <3>1, <4>1
        <5> QED
          BY <5>2, <5>3, <5>4
      <4>3. r * y \in Int /\ p * x \in Int
        BY <1>1, <4>1
      <4>4. r * y <= n
        BY <1>1, <4>2, <4>3
      <4>5. r <= q
        BY <1>2, <4>1, <4>4
      <4> QED
        BY <1>1, <3>1, <4>1, <4>5
    <3> QED
      BY <1>1, <3>1, <3>2, <3>3
  <2>2. CASE p > y
    <3>1. p <= x + 2
      <4>1. SUFFICES ASSUME p >= x + 3 PROVE FALSE
        BY <1>1
      <4>2. p * x >= (x + 3) * x
        BY <1>1, <4>1
      <4>3. (x + 3) * x = x * x + 3 * x /\ x * x \in Int /\ p * x \in Int
        BY <1>1
      <4> QED
        BY <1>1, <1>3, <4>2, <4>3
    <3>2. y = x \/ (y = x + 1 /\ p = x + 2)
      BY <1>1, <2>2, <3>1
    <3>3. CASE y = x
      <4>1. p * y <= n
        <5>1. p * x \in Int
          BY <1>1
        <5> QED
          BY <1>1, <3>3, <5>1
      <4>2. p <= q
        BY <1>1, <1>2, <4>1
      <4> QED
        BY <1>1, <3>3, <4>2
    <3>4. CASE y = x + 1 /\ p = x + 2
      <4>1. (x + 2) * x = x * x + 2 * x /\ x * x \in Int
        OBVIOUS
      <4>2. n >= x * x + 2 * x + 1
        BY <1>1, <3>4, <4>1
      <4>3. y * y = x * x + 2 * x + 1
        BY <3>4
      <4>4. y <= q
        BY <1>2, <4>2, <4>3
      <4> QED
        BY <1>1, <3>4, <4>4
    <3> QED
      BY <3>2, <3>3, <3>4
  <2> QED
    BY <1>1, <2>1, <2>2
<1> QED
  BY <1>1, <1>4 DEF NewtonStep, p, q

(* The iterates of the root of n.                                          *)
Iterates(n, it) ==
  /\ it \in [0..ISQRT_ROUNDS -> {x \in Nat \ {0} : Above(n, x)}]
  /\ it[0] = IF n \div 2 = 0 THEN 1 ELSE n \div 2
  /\ \A i \in 1..ISQRT_ROUNDS : it[i] = NewtonStep(n, it[i - 1])

LEMMA IterateAt ==
  ASSUME MatchingAssumption, NEW n \in Nat, NEW it, Iterates(n, it), NEW i \in 0..ISQRT_ROUNDS
  PROVE  it[i] \in Nat \ {0} /\ Above(n, it[i])
BY DEF Iterates

LEMMA IsqrtIterates ==
  ASSUME MatchingAssumption, NEW n \in Nat \ {0}
  PROVE  \E it : Iterates(n, it) /\ Isqrt(n) = it[ISQRT_ROUNDS]
<1> DEFINE K == ISQRT_ROUNDS
           X == {x \in Nat \ {0} : Above(n, x)}
           base == IF n \div 2 = 0 THEN 1 ELSE n \div 2
           step == [ix \in (1..K) \X X |-> NewtonStep(n, ix[2])]
           Rule(f) == f = [i \in 0..K |-> IF i = 0 THEN base ELSE
                             LET x == f[i - 1] IN (x + n \div x) \div 2]
<1>1. K \in Nat
  BY DEF MatchingAssumption
<1>2. base \in X
  <2> DEFINE h == n \div 2
  <2>1. h \in Nat /\ n <= 2 * h + 1
    OBVIOUS
  <2> HIDE DEF h
  <2>2. (h + 1) * (h + 1) = h * h + 2 * h + 1 /\ (1 + 1) * (1 + 1) = 4
    BY <2>1
  <2>3. h # 0 => h * h > 0
    BY <2>1
  <2>4. h * h \in Int
    BY <2>1
  <2>5. h # 0 => n < (h + 1) * (h + 1)
    BY <2>1, <2>2, <2>3, <2>4
  <2>6. h = 0 => n < (1 + 1) * (1 + 1)
    BY <2>1, <2>2
  <2> QED
    BY <2>1, <2>5, <2>6 DEF h, Above
<1>3. step \in [(1..K) \X X -> X]
  <2>1. ASSUME NEW x \in X PROVE NewtonStep(n, x) \in X
    <3>1. Above(n, NewtonStep(n, x))
      BY NewtonAbove
    <3> QED
      BY <3>1 DEF Above
  <2> QED
    BY <2>1
<1> HIDE DEF K, X, base
<1>4. PICK it \in [0..K -> X] : Iterated(K, base, step, it)
  <2> HIDE DEF step
  <2> QED
    BY <1>1, <1>2, <1>3, CountedRecursionDefined
<1>5. \A i \in 1..K : it[i] = NewtonStep(n, it[i - 1])
  <2>1. \A i \in 1..K : i - 1 \in 0..K
    BY <1>1
  <2>2. \A i \in 1..K : it[i - 1] \in X
    BY <2>1
  <2> QED
    BY <1>4, <2>2 DEF Iterated
<1>6. Rule(it)
  <2>1. \A i \in 0..K : it[i] = IF i = 0 THEN base ELSE NewtonStep(n, it[i - 1])
    BY <1>1, <1>4, <1>5 DEF Iterated
  <2> QED
    BY <2>1 DEF NewtonStep
<1> DEFINE newton == CHOOSE f : Rule(f)
<1>7. Rule(newton)
  BY <1>6
<1>8. newton = it
  <2> DEFINE A == {i \in Nat : i <= K => newton[i] = it[i]}
  <2>1. newton[0] = it[0] /\ \A i \in 1..K : newton[i] = NewtonStep(n, newton[i - 1])
    <3> HIDE DEF newton
    <3>1. newton[0] = base
      BY <1>1, <1>7
    <3>2. \A i \in 1..K : newton[i] = NewtonStep(n, newton[i - 1])
      BY <1>1, <1>7 DEF NewtonStep
    <3> QED
      BY <1>4, <3>1, <3>2 DEF Iterated
  <2>2. newton = [i \in 0..K |-> newton[i]]
    <3> HIDE DEF newton
    <3> QED
      BY <1>7
  <2> HIDE DEF newton
  <2>3. 0 \in A
    BY <2>1
  <2>4. ASSUME NEW i \in A PROVE i + 1 \in A
    <3>1. SUFFICES ASSUME i + 1 <= K PROVE newton[i + 1] = it[i + 1]
      OBVIOUS
    <3>2. i + 1 \in 1..K /\ (i + 1) - 1 = i /\ newton[i] = it[i]
      BY <1>1, <3>1
    <3> QED
      BY <1>5, <2>1, <3>2
  <2>5. A = Nat
    <3> HIDE DEF A
    <3>1. A \in SUBSET Nat
      BY DEF A
    <3> QED
      BY <2>3, <2>4, <3>1, SetInduction
  <2>6. \A i \in 0..K : newton[i] = it[i]
    BY <1>1, <2>5
  <2> QED
    BY <2>2, <2>6
<1>9. Isqrt(n) = newton[K]
  BY DEF Isqrt, base, K
<1>10. Iterates(n, it)
  BY <1>4, <1>5 DEF Iterates, Iterated, X, base, K
<1> HIDE DEF newton
<1> QED
  BY <1>8, <1>9, <1>10 DEF K

LEMMA IsqrtMonotone ==
  ASSUME MatchingAssumption, NEW m \in Nat, NEW n \in Nat, m <= n
  PROVE  Isqrt(m) \in Nat /\ Isqrt(m) <= Isqrt(n)
<1>1. ISQRT_ROUNDS \in Nat
  BY DEF MatchingAssumption
<1>2. Isqrt(0) = 0
  BY DEF Isqrt
<1>3. ASSUME NEW k \in Nat
      PROVE  Isqrt(k) \in Nat
  <2>1. CASE k = 0
    BY <1>2, <2>1
  <2>2. CASE k # 0
    <3>1. PICK it : Iterates(k, it) /\ Isqrt(k) = it[ISQRT_ROUNDS]
      BY <2>2, IsqrtIterates
    <3>2. ISQRT_ROUNDS \in 0..ISQRT_ROUNDS
      BY <1>1
    <3> QED
      BY <3>1, <3>2, IterateAt
  <2> QED
    BY <2>1, <2>2
<1>4. CASE m = 0 \/ m = n
  BY <1>2, <1>3, <1>4
<1>5. CASE m # 0 /\ m # n
  <2>1. m \in Nat \ {0} /\ n \in Nat \ {0} /\ m < n
    BY <1>5
  <2>2. PICK f : Iterates(m, f) /\ Isqrt(m) = f[ISQRT_ROUNDS]
    BY <2>1, IsqrtIterates
  <2>3. PICK g : Iterates(n, g) /\ Isqrt(n) = g[ISQRT_ROUNDS]
    BY <2>1, IsqrtIterates
  <2> DEFINE A == {i \in Nat : i <= ISQRT_ROUNDS => f[i] <= g[i]}
  <2>4. 0 \in A
    <3> DEFINE a == m \div 2
               b == n \div 2
    <3>1. a \in Nat /\ b \in Nat /\ a <= b
      BY <2>1
    <3>2. f[0] = (IF a = 0 THEN 1 ELSE a) /\ g[0] = (IF b = 0 THEN 1 ELSE b)
      BY <2>2, <2>3 DEF Iterates
    <3> HIDE DEF a, b
    <3>3. f[0] <= g[0]
      BY <3>1, <3>2
    <3> QED
      BY <3>3
  <2>5. ASSUME NEW i \in A PROVE i + 1 \in A
    <3>1. SUFFICES ASSUME i + 1 <= ISQRT_ROUNDS PROVE f[i + 1] <= g[i + 1]
      OBVIOUS
    <3>2. i + 1 \in 1..ISQRT_ROUNDS /\ i \in 0..ISQRT_ROUNDS /\ (i + 1) - 1 = i
      BY <1>1, <3>1
    <3>3. f[i] \in Nat \ {0} /\ g[i] \in Nat \ {0} /\ f[i] <= g[i] /\ Above(m, f[i])
      BY <1>1, <2>1, <2>2, <2>3, <3>1, <3>2, IterateAt
    <3>4. NewtonStep(m, f[i]) <= NewtonStep(n, g[i])
      BY <2>1, <3>3, NewtonMonotone
    <3>5. f[i + 1] = NewtonStep(m, f[i]) /\ g[i + 1] = NewtonStep(n, g[i])
      BY <2>2, <2>3, <3>2 DEF Iterates
    <3> QED
      BY <3>4, <3>5
  <2>6. A = Nat
    <3> HIDE DEF A
    <3>1. A \in SUBSET Nat
      BY DEF A
    <3> QED
      BY <2>4, <2>5, <3>1, SetInduction
  <2>7. f[ISQRT_ROUNDS] <= g[ISQRT_ROUNDS]
    BY <1>1, <2>6
  <2> QED
    BY <1>3, <2>2, <2>3, <2>7
<1> QED
  BY <1>3, <1>4, <1>5

(***************************************************************************)
(* The types of the ratings, and so of a donor's influence.                *)
(***************************************************************************)

RatingsTyped == Typed /\ RTypeOK /\ config.max_multiplier > SCALE

LEMMA RatioTyped ==
  ASSUME NEW a \in Nat, NEW b \in Nat, NEW c \in Nat \ {0}
  PROVE  (a * b) \div c \in Nat
<1>1. a * b \in Nat
  OBVIOUS
<1> DEFINE n == a * b
<1> HIDE DEF n
<1>2. n \div c \in Nat
  BY <1>1, Quotient DEF n
<1> QED
  BY <1>2 DEF n

LEMMA MultiplierTyped ==
  ASSUME ReputationAssumption, config.max_multiplier \in Nat, config.max_multiplier > SCALE,
         NEW score \in Nat
  PROVE  Multiplier(score) \in Nat
<1> DEFINE room == config.max_multiplier - SCALE
           bonus == (score * room) \div SCALE
<1>1. SCALE \in Nat \ {0} /\ room \in Nat
  BY DEF ReputationAssumption
<1> HIDE DEF room
<1>2. bonus \in Nat
  BY <1>1, RatioTyped
<1>3. Multiplier(score) = IF SCALE + bonus > config.max_multiplier
                          THEN config.max_multiplier ELSE SCALE + bonus
  BY DEF Multiplier, room
<1> HIDE DEF bonus
<1> QED
  BY <1>1, <1>2, <1>3

LEMMA InfluenceTyped ==
  ASSUME ReputationAssumption, RatingsTyped, NEW d \in Donors
  PROVE  Influence(d) \in Nat
<1>1. SCALE \in Nat /\ None \notin Reputation
  BY DEF ReputationAssumption
<1>2. config.max_multiplier \in Nat /\ config.max_multiplier > SCALE
  BY DEF RatingsTyped, RTypeOK
<1>3. reputation[d] # None => reputation[d].reputation_score \in Nat
  BY DEF RatingsTyped, RTypeOK, Reputation
<1> QED
  BY <1>1, <1>2, <1>3, MultiplierTyped DEF Influence

LEMMA RatedTyped ==
  ASSUME ReputationAssumption, RatingsTyped, NEW d \in Donors, NEW list \in Seq(Projects), NEW m
  PROVE  Rated(d, list, m) \in [Donors -> Reputation \cup {None}]
<1> DEFINE Q == Qualifying(list, m)
           G == Successful(list, m)
           rate == SuccessRate(list, m)
           first == reputation[d] = None
           rating == [reputation_score |-> Score(rate), success_rate |-> rate,
                      influence_multiplier |-> Multiplier(Score(rate)),
                      qualifying_projects |-> IF first THEN 1 ELSE Cardinality(Q),
                      successful_projects |-> IF first THEN 0 ELSE Cardinality(G)]
<1>1. SCALE \in Nat \ {0} /\ BPS \in Nat \ {0}
  BY DEF ReputationAssumption
<1>2. IsFiniteSet(Q) /\ IsFiniteSet(G)
  <2>1. IsFiniteSet(DOMAIN list)
    <3>1. DOMAIN list = 1..Len(list) /\ Len(list) \in Nat
      BY LenProperties
    <3>2. IsFiniteSet(1..Len(list))
      BY <3>1, FS_Interval
    <3> QED
      BY <3>1, <3>2
  <2>2. Q \subseteq DOMAIN list /\ G \subseteq DOMAIN list
    BY DEF Qualifying, Successful
  <2> HIDE DEF Q, G
  <2> QED
    BY <2>1, <2>2, FS_Subset
<1>3. Cardinality(Q) \in Nat /\ Cardinality(G) \in Nat /\ (Q # {} => Cardinality(Q) # 0)
  <2> HIDE DEF Q, G
  <2> QED
    BY <1>2, FS_CardinalityType, FS_EmptySet
<1>4. rate \in Nat
  <2>1. rate = IF Q = {} THEN 0 ELSE (Cardinality(G) * BPS) \div Cardinality(Q)
    BY DEF SuccessRate
  <2> HIDE DEF Q, G, rate
  <2>2. CASE Q = {}
    BY <2>1, <2>2
  <2>3. CASE Q # {}
    <3>1. (Cardinality(G) * BPS) \div Cardinality(Q) \in Nat
      BY <1>1, <1>3, <2>3, RatioTyped
    <3> QED
      BY <2>1, <2>3, <3>1
  <2> QED
    BY <2>2, <2>3
<1> HIDE DEF Q, G, rate
<1>5. Score(rate) \in Nat
  BY <1>1, <1>4, RatioTyped DEF Score
<1>6. Multiplier(Score(rate)) \in Nat
  <2>1. config.max_multiplier \in Nat /\ config.max_multiplier > SCALE
    BY DEF RatingsTyped, RTypeOK
  <2> DEFINE score == Score(rate)
  <2> HIDE DEF score
  <2> QED
    BY <1>5, <2>1, MultiplierTyped DEF score
<1>7. rating \in Reputation
  BY <1>3, <1>4, <1>5, <1>6 DEF Reputation
<1>8. Rated(d, list, m) = [reputation EXCEPT ![d] = rating]
  BY DEF Rated, Q, G, rate
<1> HIDE DEF rating
<1> QED
  BY <1>7, <1>8 DEF RatingsTyped, RTypeOK

LEMMA RatingsStayTyped ==
  ASSUME ReputationAssumption, RatingsTyped, [ReputationNext]_repVars
  PROVE  RatingsTyped'
<1>1. Typed /\ RTypeOK /\ Typed'
  BY StepTyped DEF RatingsTyped
<1>2. ASSUME config' = config, reconfigured' = reconfigured, configured' = configured,
             reputation' \in [Donors -> Reputation \cup {None}]
      PROVE  RatingsTyped'
  BY <1>1, <1>2 DEF RatingsTyped, RTypeOK, Typed
<1>3. CASE UNCHANGED repVars
  BY <1>1, <1>2, <1>3 DEF repVars, RTypeOK
<1>4. CASE Initialize
  BY <1>1, <1>4 DEF Initialize, RatingsTyped, RTypeOK, Typed
<1>5. ASSUME NEW threshold \in Thresholds \cup {config.min_funding_threshold},
             NEW multiplier \in Maxima \cup {config.max_multiplier},
             UpdateConfig(threshold, multiplier)
      PROVE  RatingsTyped'
  <2>1. threshold \in Nat \ {0} /\ multiplier \in Nat /\ multiplier > SCALE
    BY DEF RatingsTyped, RTypeOK, ReputationAssumption
  <2>2. config' = [min_funding_threshold |-> threshold, max_multiplier |-> multiplier]
    BY <1>5 DEF UpdateConfig
  <2>3. /\ config' \in [min_funding_threshold : Nat \ {0}, max_multiplier : Nat]
        /\ config'.max_multiplier = multiplier
    BY <2>1, <2>2
  <2>4. reputation' = reputation /\ configured' \in BOOLEAN /\ reconfigured' \in BOOLEAN
    BY <1>5 DEF UpdateConfig
  <2> QED
    BY <1>1, <2>1, <2>3, <2>4 DEF RatingsTyped, RTypeOK, Typed
<1>6. ASSUME NEW d \in Donors, NEW p \in Projects, NEW amount \in Fundings,
             NEW total \in Lengths, RecordProjectFunded(d, p, amount, total)
      PROVE  RatingsTyped'
  <2>1. /\ reputation' = IF amount >= config.min_funding_threshold
                         THEN Rated(d, Append(funded[d], p), metrics') ELSE reputation
        /\ UNCHANGED <<config, reconfigured>> /\ configured' = configured
    BY <1>1, <1>6, FundedStep DEF RecordProjectFunded
  <2>2. Append(funded[d], p) \in Seq(Projects)
    BY <1>1 DEF Typed
  <2>3. Rated(d, Append(funded[d], p), metrics') \in [Donors -> Reputation \cup {None}]
    BY <2>2, RatedTyped
  <2>4. reputation \in [Donors -> Reputation \cup {None}]
    BY <1>1 DEF RTypeOK
  <2>5. reputation' \in [Donors -> Reputation \cup {None}]
    BY <2>1, <2>3, <2>4, Zenon
  <2> QED
    BY <1>2, <2>1, <2>5
<1>7. ASSUME NEW p \in Projects, metrics[p] \in Metrics,
             reputation' = Rated(metrics[p].donor, funded[metrics[p].donor], metrics')
      PROVE  reputation' \in [Donors -> Reputation \cup {None}]
  <2>1. metrics[p].donor \in Donors
    BY <1>7 DEF Metrics
  <2>2. funded[metrics[p].donor] \in Seq(Projects)
    BY <1>1, <2>1 DEF Typed
  <2>3. Rated(metrics[p].donor, funded[metrics[p].donor], metrics')
          \in [Donors -> Reputation \cup {None}]
    BY <2>1, <2>2, RatedTyped
  <2> QED
    BY <1>7, <2>3
<1>8. ASSUME NEW p \in Projects, NEW n \in Lengths, RecordMilestoneCompleted(p, n - 1)
      PROVE  RatingsTyped'
  <2>1. /\ metrics[p] \in Metrics /\ UNCHANGED <<config, reconfigured>>
        /\ reputation' = Rated(metrics[p].donor, funded[metrics[p].donor], metrics')
    BY <1>1, <1>8, MilestoneStep
  <2>2. configured' = configured
    BY <1>8 DEF RecordMilestoneCompleted
  <2>3. reputation' \in [Donors -> Reputation \cup {None}]
    BY <1>7, <2>1
  <2> QED
    BY <1>2, <2>1, <2>2, <2>3
<1>9. ASSUME NEW p \in Projects, RecordProjectFailed(p)
      PROVE  RatingsTyped'
  <2>1. /\ metrics[p] \in Metrics /\ UNCHANGED <<config, reconfigured>>
        /\ reputation' = Rated(metrics[p].donor, funded[metrics[p].donor], metrics')
    BY <1>1, <1>9, FailureStep
  <2>2. configured' = configured
    BY <1>9 DEF RecordProjectFailed
  <2>3. reputation' \in [Donors -> Reputation \cup {None}]
    BY <1>7, <2>1
  <2> QED
    BY <1>2, <2>1, <2>2, <2>3
<1> QED
  BY <1>3, <1>4, <1>5, <1>6, <1>8, <1>9 DEF ReputationNext

(***************************************************************************)
(* The shares of a ballot fit in what there is to divide, and follow what  *)
(* the projects received.                                                  *)
(***************************************************************************)

LEMMA RatioMonotone ==
  ASSUME NEW a \in Nat, NEW b \in Nat, a <= b, NEW c \in Nat, NEW d \in Nat \ {0}
  PROVE  (a * c) \div d <= (b * c) \div d
<1> DEFINE m == a * c
           n == b * c
           q == m \div d
<1>1. m \in Nat /\ n \in Nat /\ m <= n
  OBVIOUS
<1> HIDE DEF m, n
<1>2. q \in Nat /\ q * d <= m
  BY <1>1, Quotient
<1> HIDE DEF q
<1>3. q * d <= n
  <2>1. q * d \in Int
    BY <1>2
  <2> QED
    BY <1>1, <1>2, <2>1
<1>4. q <= n \div d
  BY <1>1, <1>2, <1>3, QuotientLeast
<1> QED
  BY <1>4 DEF q, m, n

LEMMA RootTyped ==
  ASSUME ReputationAssumption, MatchingAssumption, NEW key, contributions[key] \in Contribution
  PROVE  Root(key) \in Nat
<1> DEFINE n == contributions[key].total * SCALE
<1>1. contributions[key].total \in Nat /\ SCALE \in Nat
  BY DEF Contribution, ReputationAssumption
<1>2. \A a, b \in Nat : a * b \in Nat
  OBVIOUS
<1>3. n \in Nat /\ n <= n
  BY <1>1, <1>2
<1> HIDE DEF n
<1>4. Isqrt(n) \in Nat
  BY <1>3, IsqrtMonotone
<1> QED
  BY <1>4 DEF Root, n

LEMMA RootMonotone ==
  ASSUME ReputationAssumption, MatchingAssumption,
         NEW key, contributions[key] \in Contribution,
         NEW other, contributions[other] \in Contribution,
         contributions[key].total <= contributions[other].total
  PROVE  Root(key) <= Root(other)
<1> DEFINE a == contributions[key].total
           b == contributions[other].total
           m == a * SCALE
           n == b * SCALE
<1>1. a \in Nat /\ b \in Nat /\ SCALE \in Nat /\ a <= b
  BY DEF Contribution, ReputationAssumption
<1> HIDE DEF a, b
<1>2. m \in Nat /\ n \in Nat /\ m <= n
  BY <1>1
<1> HIDE DEF m, n
<1>3. Isqrt(m) <= Isqrt(n)
  BY <1>2, IsqrtMonotone
<1> QED
  BY <1>3 DEF Root, m, n, a, b

LEMMA SharesFit ==
  ASSUME ReputationAssumption, MatchingAssumption, NEW k \in Pools,
         NEW ballot \in Seq(Projects), pool[k].remaining_match_amount \in Nat,
         \A i \in DOMAIN ballot : contributions[<<k, ballot[i]>>] \in Contribution
  PROVE  LET share == [i \in DOMAIN ballot |-> Share(k, ballot[i], ballot)] IN
         /\ IsFiniteSet(DOMAIN ballot)
         /\ \A i \in DOMAIN ballot : share[i] \in Nat
         /\ SumFunction(share) \in Nat
         /\ SumFunction(share) <= pool[k].remaining_match_amount
         /\ \A i, j \in DOMAIN ballot :
              contributions[<<k, ballot[i]>>].total <= contributions[<<k, ballot[j]>>].total
                => share[i] <= share[j]
<1> DEFINE D == DOMAIN ballot
           rest == pool[k].remaining_match_amount
           root == [i \in D |-> Root(<<k, ballot[i]>>)]
           all == SumFunctionOnSet(root, D)
           share == [i \in D |-> Share(k, ballot[i], ballot)]
<1>1. IsFiniteSet(D)
  <2>1. D = 1..Len(ballot) /\ Len(ballot) \in Nat
    BY LenProperties
  <2>2. IsFiniteSet(1..Len(ballot))
    BY <2>1, FS_Interval
  <2> QED
    BY <2>1, <2>2
<1>2. \A i \in D : root[i] \in Nat
  BY RootTyped
<1>3. SumFunction(root) = all /\ SumFunction(share) = SumFunctionOnSet(share, D)
  BY DEF SumFunction
<1>4. \A i \in D : share[i] = IF all = 0 THEN 0 ELSE (root[i] * rest) \div all
  BY <1>3 DEF Share
<1>5. \A i, j \in D :
        contributions[<<k, ballot[i]>>].total <= contributions[<<k, ballot[j]>>].total
          => root[i] <= root[j]
  BY RootMonotone
<1>6. rest \in Nat
  OBVIOUS
<1> HIDE DEF D, rest, root, share
<1>7. all \in Nat
  BY <1>1, <1>2, SumNat
<1> HIDE DEF all
<1>8. \A i \in D : share[i] \in Nat
  BY <1>2, <1>4, <1>6, <1>7, RatioTyped
<1>9. SumFunctionOnSet(share, D) \in Nat
  BY <1>1, <1>8, SumNat
<1>10. SumFunctionOnSet(share, D) <= rest
  <2>1. CASE all = 0
    <3>1. \A i \in D : share[i] = 0
      BY <1>4, <2>1
    <3>2. SumFunctionOnSet(share, D) = 0
      BY <1>1, <3>1, SumZero
    <3> QED
      BY <1>6, <3>2
  <2>2. CASE all # 0
    <3> DEFINE whole == [i \in D |-> root[i] * rest]
               part == [i \in D |-> share[i] * all]
               sum == SumFunctionOnSet(share, D)
    <3>1. \A m, n \in Nat : m * n \in Nat
      OBVIOUS
    <3>2. \A i \in D : whole[i] \in Int /\ part[i] \in Int
      BY <1>2, <1>6, <1>7, <1>8, <3>1
    <3>3. ASSUME NEW i \in D PROVE part[i] <= whole[i]
      <4>1. share[i] = whole[i] \div all /\ whole[i] \in Nat
        BY <1>2, <1>4, <1>6, <2>2, <3>1
      <4>2. part[i] = share[i] * all
        OBVIOUS
      <4> HIDE DEF whole, part
      <4>3. all \in Nat \ {0}
        BY <1>7, <2>2
      <4>4. (whole[i] \div all) * all <= whole[i]
        BY <4>1, <4>3, Quotient
      <4> QED
        BY <4>1, <4>2, <4>4
    <3>4. SumFunctionOnSet(whole, D) = all * rest
      <4>1. \A i \in D : root[i] \in Int /\ whole[i] = root[i] * rest
        BY <1>2
      <4>2. rest \in Int
        BY <1>6
      <4> HIDE DEF whole
      <4> QED
        BY <1>1, <4>1, <4>2, SumScale DEF all
    <3>5. SumFunctionOnSet(part, D) = sum * all
      <4>1. \A i \in D : share[i] \in Int /\ part[i] = share[i] * all
        BY <1>8
      <4>2. all \in Int
        BY <1>7
      <4> HIDE DEF part
      <4> QED
        BY <1>1, <4>1, <4>2, SumScale
    <3> HIDE DEF whole, part
    <3>6. SumFunctionOnSet(part, D) <= SumFunctionOnSet(whole, D)
      BY <1>1, <3>2, <3>3, SumLeq
    <3>7. sum \in Nat /\ sum * all <= all * rest
      BY <1>9, <3>4, <3>5, <3>6
    <3> HIDE DEF sum
    <3>8. ASSUME sum > rest PROVE FALSE
      <4>1. sum * all >= (rest + 1) * all
        BY <1>6, <1>7, <3>7, <3>8
      <4>2. (rest + 1) * all = all * rest + all /\ all * rest \in Int /\ sum * all \in Int
        BY <1>6, <1>7, <3>7
      <4> QED
        BY <1>7, <2>2, <3>7, <4>1, <4>2
    <3>9. sum <= rest
      BY <1>6, <3>7, <3>8
    <3> QED
      BY <3>9 DEF sum
  <2> QED
    BY <2>1, <2>2
<1>11. ASSUME NEW i \in D, NEW j \in D, root[i] <= root[j]
       PROVE  share[i] <= share[j]
  <2>1. CASE all = 0
    BY <1>4, <2>1
  <2>2. CASE all # 0
    <3>1. (root[i] * rest) \div all <= (root[j] * rest) \div all
      BY <1>2, <1>6, <1>7, <1>11, <2>2, RatioMonotone
    <3> QED
      BY <1>4, <2>2, <3>1
  <2> QED
    BY <2>1, <2>2
<1>12. \A i, j \in D :
         contributions[<<k, ballot[i]>>].total <= contributions[<<k, ballot[j]>>].total
           => share[i] <= share[j]
  BY <1>5, <1>11
<1>13. SumFunction(share) \in Nat /\ SumFunction(share) <= rest
  BY <1>3, <1>9, <1>10
<1> QED
  BY <1>1, <1>8, <1>12, <1>13 DEF D, share, rest

(***************************************************************************)
(* The invariant of the pools: what the properties say of a round, while   *)
(* it is open too; and, token by token, the matching amounts cover what    *)
(* was paid, the matches still part and what the open rounds have to        *)
(* divide, apart from what was paid when nothing was part.                  *)
(***************************************************************************)

Matches(k) == SumFunctionOnSet([p \in pool[k].projects |-> matched[<<k, p>>]], pool[k].projects)

Divided(k) ==
  IF pool[k].is_finalized
  THEN /\ now > pool[k].round_ends_at
       /\ pool[k].remaining_match_amount + pool[k].total_matched_distributed
            = pool[k].total_match_amount
       /\ Matches(k) <= pool[k].total_matched_distributed
       /\ \A p, q \in pool[k].projects :
            contributions[<<k, p>>].total <= contributions[<<k, q>>].total
              => matched[<<k, p>>] <= matched[<<k, q>>]
  ELSE pool[k].remaining_match_amount = pool[k].total_match_amount

Unclaimed(t) == [key \in Keys |-> IF due[key] = t THEN matched[key] ELSE 0]
Undivided(t) ==
  [k \in Pools |-> IF pool[k] = None \/ pool[k].is_finalized \/ pool[k].token # t THEN 0
                   ELSE pool[k].remaining_match_amount]

Paid(t) == Funds + donated[t] - balance[t]
Owed(t) == Paid(t) + SumFunctionOnSet(Unclaimed(t), Keys) + SumFunctionOnSet(Undivided(t), Pools)
Covered == \A t \in Tokens : Owed(t) <= committed[t] + unbacked[t]

PoolInv ==
  /\ RatingsTyped /\ MTypeOK
  /\ \A k \in Pools : pool[k] # None => Divided(k)
  /\ Covered

LEMMA OwedTyped ==
  ASSUME MatchingAssumption, MTypeOK, NEW t \in Tokens
  PROVE  /\ IsFiniteSet(Keys) /\ IsFiniteSet(Pools)
         /\ \A key \in Keys : Unclaimed(t)[key] \in Nat
         /\ \A k \in Pools : Undivided(t)[k] \in Nat
         /\ SumFunctionOnSet(Unclaimed(t), Keys) \in Nat
         /\ SumFunctionOnSet(Undivided(t), Pools) \in Nat
         /\ Funds \in Nat /\ donated[t] \in Nat /\ balance[t] \in Nat /\ Paid(t) \in Int
         /\ committed[t] \in Nat /\ unbacked[t] \in Nat
<1>1. IsFiniteSet(Keys) /\ IsFiniteSet(Pools)
  BY FS_Product DEF MatchingAssumption, Keys
<1>2. \A key \in Keys : Unclaimed(t)[key] \in Nat
  BY DEF MTypeOK, Unclaimed, MatchingAssumption
<1>3. \A k \in Pools : Undivided(t)[k] \in Nat
  BY DEF MTypeOK, Undivided, Pool
<1>4. Funds \in Nat /\ donated[t] \in Nat /\ balance[t] \in Nat
      /\ committed[t] \in Nat /\ unbacked[t] \in Nat
  BY DEF MTypeOK, MatchingAssumption
<1>5. Paid(t) \in Int
  BY <1>4 DEF Paid
<1> QED
  BY <1>1, <1>2, <1>3, <1>4, <1>5, SumNat

(* What only depends on the variables of the rounds.                       *)
LEMMA RoundsKept ==
  ASSUME MatchingAssumption, PoolInv, RatingsTyped', MTypeOK',
         UNCHANGED <<pool, matched, due, unbacked, committed>>,
         \A k \in Pools, p \in Projects :
           pool[k] # None /\ pool[k].is_finalized =>
             contributions'[<<k, p>>] = contributions[<<k, p>>],
         now' >= now, \A t \in Tokens : Paid(t)' = Paid(t)
  PROVE  PoolInv'
<1>1. \A k \in Pools : pool[k] # None => Divided(k)'
  <2> SUFFICES ASSUME NEW k \in Pools, pool[k] # None
               PROVE  Divided(k)'
    OBVIOUS
  <2>1. Divided(k) /\ pool[k] \in Pool
    BY DEF PoolInv, MTypeOK
  <2>2. pool' = pool /\ matched' = matched
    OBVIOUS
  <2>3. now \in Nat /\ now' \in Nat /\ pool[k].round_ends_at \in Nat
        /\ pool[k].projects \subseteq Projects
    BY <2>1 DEF PoolInv, MTypeOK, Pool
  <2>4. now > pool[k].round_ends_at => now' > pool[k].round_ends_at
    BY <2>3
  <2>5. pool[k].is_finalized => \A p \in pool[k].projects :
          contributions'[<<k, p>>] = contributions[<<k, p>>]
    BY <2>3
  <2>6. Matches(k)' = Matches(k)
    BY <2>2 DEF Matches
  <2> QED
    BY <2>1, <2>2, <2>4, <2>5, <2>6 DEF Divided
<1>2. ASSUME NEW t \in Tokens
      PROVE  Owed(t)' <= (committed[t] + unbacked[t])'
  <2>1. Unclaimed(t)' = Unclaimed(t) /\ Undivided(t)' = Undivided(t) /\ Paid(t)' = Paid(t)
    BY DEF Unclaimed, Undivided
  <2>2. Owed(t)' = Owed(t)
    BY <2>1 DEF Owed
  <2>3. Owed(t) <= committed[t] + unbacked[t]
    BY DEF PoolInv, Covered
  <2> QED
    BY <2>2, <2>3
<1> QED
  BY <1>1, <1>2 DEF PoolInv, Covered

LEMMA InitializeKeeps ==
  ASSUME MatchingAssumption, PoolInv, NEW k \in Pools, NEW token \in Tokens,
         NEW total \in MatchAmounts, NEW duration \in Durations, NEW sep12 \in Sep12,
         NEW limit \in Limits, InitializePool(k, token, total, duration, sep12, limit)
  PROVE  PoolInv'
<1> DEFINE new == [token |-> token, total_match_amount |-> total, remaining_match_amount |-> total,
                   round_ends_at |-> now + duration, requires_sep12 |-> sep12, limit |-> limit,
                   is_finalized |-> FALSE, total_matched_distributed |-> 0, projects |-> {}]
<1>1. RatingsTyped /\ MTypeOK /\ RTypeOK
  BY DEF PoolInv, MTypeOK
<1>2. /\ pool' = [pool EXCEPT ![k] = new]
      /\ committed' = [committed EXCEPT ![token] = @ + total]
      /\ UNCHANGED <<repVars, now, verified, donation, contributions, matched,
                     balance, donated, due, unbacked>>
  BY DEF InitializePool, OpenRound
<1>3. total \in Nat /\ duration \in Nat /\ sep12 \in BOOLEAN /\ limit \in Nat \X Nat /\ now \in Nat
  BY <1>1 DEF MatchingAssumption, MTypeOK
<1>4. new \in Pool /\ new # None /\ ~new.is_finalized /\ new.token = token
      /\ new.remaining_match_amount = total /\ new.total_match_amount = total
  <2>1. new \in Pool
    BY <1>3 DEF Pool
  <2> QED
    BY <2>1 DEF MatchingAssumption
<1> HIDE DEF new
<1>5. MTypeOK'
  <2>1. pool' \in [Pools -> Pool \cup {None}]
    BY <1>1, <1>2, <1>4 DEF MTypeOK
  <2>2. committed' \in [Tokens -> Nat]
    BY <1>1, <1>2, <1>3 DEF MTypeOK
  <2>3. RTypeOK'
    BY <1>1, <1>2 DEF RTypeOK, repVars
  <2> QED
    BY <1>1, <1>2, <2>1, <2>2, <2>3 DEF MTypeOK
<1>6. RatingsTyped'
  BY <1>1, <1>2 DEF RatingsTyped, RTypeOK, Typed, repVars
<1>7. pool'[k] = new /\ \A other \in Pools : other # k => pool'[other] = pool[other]
  BY <1>1, <1>2 DEF MTypeOK
<1>8. ASSUME NEW other \in Pools, pool'[other] # None
      PROVE  Divided(other)'
  <2>1. CASE other = k
    BY <1>4, <1>7, <2>1 DEF Divided
  <2>2. CASE other # k
    <3>1. pool'[other] = pool[other] /\ Divided(other)
      BY <1>7, <1>8, <2>2 DEF PoolInv
    <3>2. Matches(other)' = Matches(other)
      BY <1>2, <3>1 DEF Matches
    <3> QED
      BY <1>2, <3>1, <3>2 DEF Divided
  <2> QED
    BY <2>1, <2>2
<1>9. ASSUME NEW t \in Tokens
      PROVE  Owed(t)' <= (committed[t] + unbacked[t])'
  <2> DEFINE f    == Undivided(t)
             g    == Undivided(t)'
             more == IF t = token THEN total ELSE 0
             old  == SumFunctionOnSet(f, Pools)
             next == SumFunctionOnSet(g, Pools)
             claims == SumFunctionOnSet(Unclaimed(t), Keys)
  <2>1. Unclaimed(t)' = Unclaimed(t) /\ Paid(t)' = Paid(t) /\ unbacked'[t] = unbacked[t]
    BY <1>2 DEF Unclaimed, Paid
  <2>2. committed'[t] = committed[t] + more
    BY <1>1, <1>2, <1>3 DEF MTypeOK
  <2>3. g[k] = more /\ \A other \in Pools \ {k} : g[other] = f[other]
    BY <1>4, <1>7 DEF Undivided
  <2>4. /\ IsFiniteSet(Pools) /\ \A x \in Pools : f[x] \in Nat
        /\ old \in Nat /\ claims \in Nat /\ Paid(t) \in Int
        /\ committed[t] \in Nat /\ unbacked[t] \in Nat
    BY <1>1, OwedTyped
  <2>5. more \in Nat
    BY <1>3
  <2>6. /\ Owed(t) = Paid(t) + claims + old
        /\ Owed(t)' = Paid(t) + claims + next
    BY <2>1 DEF Owed
  <2>7. Owed(t) <= committed[t] + unbacked[t]
    BY DEF PoolInv, Covered
  <2> HIDE DEF f, g, more
  <2>8. next = old + g[k] - f[k]
    <3>1. \A x \in Pools : f[x] \in Int /\ g[x] \in Int
      BY <2>3, <2>4, <2>5
    <3>2. \A x \in Pools \ {k} : g[x] = f[x]
      BY <2>3
    <3> QED
      BY <2>4, <3>1, <3>2, SumChange
  <2> HIDE DEF old, next, claims
  <2>9. next <= old + more /\ next \in Int
    BY <2>3, <2>4, <2>5, <2>8
  <2> QED
    BY <2>1, <2>2, <2>4, <2>5, <2>6, <2>7, <2>9
<1> QED
  BY <1>5, <1>6, <1>8, <1>9 DEF PoolInv, Covered

LEMMA DonateKeeps ==
  ASSUME ReputationAssumption, MatchingAssumption, PoolInv, NEW k \in Pools,
         NEW p \in Projects, NEW d \in Donors, NEW amount \in Donations, Donate(k, p, d, amount)
  PROVE  PoolInv'
<1> DEFINE key == <<k, p>>
           token == pool[k].token
           old == IF contributions[key] = None THEN [total |-> 0, unique_donors |-> 0]
                                               ELSE contributions[key]
           new == IF <<key, d>> \in donation THEN 0 ELSE 1
           more == [total |-> old.total + (amount * Influence(d)) \div SCALE,
                    unique_donors |-> old.unique_donors + new]
<1>1. RatingsTyped /\ MTypeOK /\ RTypeOK
  BY DEF PoolInv, MTypeOK
<1>2. /\ contributions' = [contributions EXCEPT ![key] = more]
      /\ donation' = donation \cup {<<key, d>>}
      /\ balance' = [balance EXCEPT ![token] = @ + amount]
      /\ donated' = [donated EXCEPT ![token] = @ + amount]
      /\ now <= pool[k].round_ends_at /\ pool[k] # None
      /\ UNCHANGED <<repVars, now, pool, verified, matched, committed, due, unbacked>>
  BY DEF Donate
<1>3. key \in Keys /\ amount \in Nat
  BY DEF Keys, MatchingAssumption
<1>4. more \in Contribution
  <2>1. old \in Contribution
    BY <1>1, <1>3 DEF MTypeOK, Contribution
  <2>2. Influence(d) \in Nat /\ SCALE \in Nat \ {0}
    BY <1>1, InfluenceTyped DEF ReputationAssumption
  <2>3. (amount * Influence(d)) \div SCALE \in Nat
    BY <1>3, <2>2, RatioTyped
  <2> DEFINE gain == (amount * Influence(d)) \div SCALE
  <2> HIDE DEF old, gain
  <2>4. old.total + gain \in Nat /\ old.unique_donors + new \in Nat
    BY <2>1, <2>3 DEF Contribution, gain
  <2> QED
    BY <2>4 DEF Contribution, gain
<1> HIDE DEF more, key
<1>5. MTypeOK'
  <2>1. contributions' \in [Keys -> Contribution \cup {None}]
    BY <1>1, <1>2, <1>3, <1>4 DEF MTypeOK
  <2>2. donation' \subseteq Keys \X Donors
    BY <1>1, <1>2, <1>3 DEF MTypeOK
  <2>4. balance' \in [Tokens -> Nat] /\ donated' \in [Tokens -> Nat]
    <3>1. balance \in [Tokens -> Nat] /\ donated \in [Tokens -> Nat] /\ token \in Tokens
      BY <1>1, <1>2 DEF MTypeOK, Pool
    <3> HIDE DEF token
    <3> QED
      BY <1>2, <1>3, <3>1
  <2>3. RTypeOK'
    BY <1>1, <1>2 DEF RTypeOK, repVars
  <2> QED
    BY <1>1, <1>2, <2>1, <2>2, <2>3, <2>4 DEF MTypeOK
<1>6. RatingsTyped'
  BY <1>1, <1>2 DEF RatingsTyped, RTypeOK, Typed, repVars
<1>7. ASSUME NEW other \in Pools, NEW q \in Projects, pool[other] # None,
             pool[other].is_finalized
      PROVE  contributions'[<<other, q>>] = contributions[<<other, q>>]
  <2>1. other # k
    <3>1. SUFFICES ASSUME other = k PROVE FALSE
      OBVIOUS
    <3>2. now > pool[k].round_ends_at
      BY <1>7, <3>1 DEF PoolInv, Divided
    <3>3. now \in Nat /\ pool[k].round_ends_at \in Nat
      BY <1>1, <1>2 DEF MTypeOK, Pool
    <3> QED
      BY <1>2, <3>2, <3>3
  <2>2. <<other, q>> # key /\ <<other, q>> \in Keys
    BY <2>1 DEF key, Keys
  <2> QED
    BY <1>1, <1>2, <2>2 DEF MTypeOK
<1>8. now' >= now
  BY <1>1, <1>2 DEF MTypeOK
<1>9. ASSUME NEW t \in Tokens PROVE Paid(t)' = Paid(t)
  <2>1. Funds \in Nat /\ balance[t] \in Nat /\ donated[t] \in Nat
    BY <1>1, OwedTyped
  <2>2. CASE t = token
    <3>1. balance'[t] = balance[t] + amount /\ donated'[t] = donated[t] + amount
      BY <1>1, <1>2, <2>2 DEF MTypeOK
    <3> QED
      BY <1>3, <2>1, <3>1 DEF Paid
  <2>3. CASE t # token
    <3>1. balance'[t] = balance[t] /\ donated'[t] = donated[t]
      BY <1>1, <1>2, <2>3 DEF MTypeOK
    <3> QED
      BY <3>1 DEF Paid
  <2> QED
    BY <2>2, <2>3
<1> QED
  BY <1>2, <1>5, <1>6, <1>7, <1>8, <1>9, RoundsKept

LEMMA CalculateKeeps ==
  ASSUME ReputationAssumption, MatchingAssumption, PoolInv, NEW k \in Pools,
         NEW ballot \in Ballots, CalculateMatching(k, ballot)
  PROVE  PoolInv'
<1> DEFINE D     == DOMAIN ballot
           share == [i \in D |-> Share(k, ballot[i], ballot)]
           rest  == pool[k].remaining_match_amount
           sum   == SumFunction(share)
           given == IF sum > rest THEN rest ELSE sum
           keys  == {<<k, ballot[i]>> : i \in D}
           P     == {ballot[i] : i \in D}
           new   == [pool[k] EXCEPT !.remaining_match_amount = rest - given,
                                    !.is_finalized = TRUE,
                                    !.total_matched_distributed = given,
                                    !.projects = {key[2] : key \in keys}]
<1>1. RatingsTyped /\ MTypeOK /\ RTypeOK /\ ballot \in Seq(Projects)
  BY DEF PoolInv, MTypeOK, MatchingAssumption
<1>2. /\ pool[k] # None /\ now > pool[k].round_ends_at /\ ~pool[k].is_finalized
      /\ \A key \in keys : contributions[key] # None
      /\ matched' = [key \in Keys |-> IF key \in keys THEN Share(k, key[2], ballot)
                                                      ELSE matched[key]]
      /\ pool' = [pool EXCEPT ![k] = new]
      /\ due' = [key \in Keys |-> IF key \in keys THEN pool[k].token ELSE due[key]]
      /\ UNCHANGED <<repVars, now, verified, donation, contributions,
                     balance, donated, committed, unbacked>>
  BY DEF CalculateMatching
<1>3. pool[k] \in Pool /\ rest \in Nat /\ rest = pool[k].total_match_amount
  <2>1. pool[k] \in Pool
    BY <1>1, <1>2 DEF MTypeOK
  <2>2. Divided(k)
    BY <1>2 DEF PoolInv
  <2> QED
    BY <1>2, <2>1, <2>2 DEF Divided, Pool
<1>4. \A i \in D : ballot[i] \in Projects /\ <<k, ballot[i]>> \in Keys
  BY <1>1, ElementOfSeq, LenProperties DEF Keys
<1>5. \A i \in D : contributions[<<k, ballot[i]>>] \in Contribution
  BY <1>1, <1>2, <1>4 DEF MTypeOK
<1>6. /\ IsFiniteSet(D) /\ \A i \in D : share[i] \in Nat
      /\ sum \in Nat /\ sum <= rest
      /\ \A i, j \in D :
           contributions[<<k, ballot[i]>>].total <= contributions[<<k, ballot[j]>>].total
             => share[i] <= share[j]
  BY <1>1, <1>3, <1>5, SharesFit
<1>7. sum = SumFunctionOnSet(share, D)
  BY DEF SumFunction
<1>8. given = sum
  <2> HIDE DEF sum, rest
  <2> QED
    BY <1>3, <1>6
<1>9. {key[2] : key \in keys} = P /\ P \subseteq Projects /\ keys \subseteq Keys
  <2>1. P \subseteq Projects /\ keys \subseteq Keys
    BY <1>4
  <2>2. ASSUME NEW p \in {key[2] : key \in keys} PROVE p \in P
    <3>1. PICK key \in keys : p = key[2]
      OBVIOUS
    <3>2. PICK i \in D : key = <<k, ballot[i]>>
      OBVIOUS
    <3> QED
      BY <3>1, <3>2
  <2>3. ASSUME NEW i \in D PROVE ballot[i] \in {key[2] : key \in keys}
    <3>1. <<k, ballot[i]>> \in keys /\ <<k, ballot[i]>>[2] = ballot[i]
      OBVIOUS
    <3> HIDE DEF keys
    <3> QED
      BY <3>1
  <2>4. P \subseteq {key[2] : key \in keys}
    BY <2>3
  <2> QED
    BY <2>1, <2>2, <2>4
<1>10. \A i \in D : /\ matched'[<<k, ballot[i]>>] = share[i]
                    /\ <<k, ballot[i]>> \in keys
  BY <1>2, <1>4
<1>11. /\ new \in Pool /\ new # None /\ new.is_finalized /\ new.projects = P
       /\ new.remaining_match_amount = rest - sum /\ new.total_matched_distributed = sum
       /\ new.total_match_amount = rest /\ new.round_ends_at = pool[k].round_ends_at
  <2> DEFINE Q == {key[2] : key \in keys}
  <2>1. Q = P /\ Q \in SUBSET Projects
    BY <1>9
  <2>2. rest - given \in Nat /\ given \in Nat
    <3> HIDE DEF sum, rest, given
    <3> QED
      BY <1>3, <1>6, <1>8
  <2>3. new = [pool[k] EXCEPT !.remaining_match_amount = rest - given, !.is_finalized = TRUE,
                              !.total_matched_distributed = given, !.projects = Q]
    OBVIOUS
  <2> HIDE DEF new, Q, P, given, sum, rest
  <2>4. new \in Pool
    BY <1>3, <2>1, <2>2, <2>3 DEF Pool
  <2> QED
    BY <1>3, <1>8, <2>1, <2>3, <2>4 DEF Pool, MatchingAssumption
<1>12. pool'[k] = new /\ \A other \in Pools : other # k => pool'[other] = pool[other]
  BY <1>1, <1>2 DEF MTypeOK
<1> HIDE DEF new
<1>13. \A key \in keys : matched'[key] \in Nat
  BY <1>6, <1>10
<1>14. \A key \in Keys \ keys : matched'[key] = matched[key]
  BY <1>2
<1>15. MTypeOK'
  <2>1. pool' \in [Pools -> Pool \cup {None}]
    BY <1>1, <1>2, <1>11 DEF MTypeOK
  <2>2. matched' \in [Keys -> Nat \cup {None}]
    <3>1. \A key \in Keys : matched'[key] \in Nat \cup {None}
      BY <1>1, <1>13, <1>14 DEF MTypeOK
    <3>2. matched' = [key \in Keys |-> matched'[key]]
      BY <1>2
    <3> QED
      BY <3>1, <3>2
  <2>3. due' \in [Keys -> Tokens \cup {None}]
        /\ \A key \in Keys : due'[key] # None => matched'[key] # None
    <3>1. pool[k].token \in Tokens
      BY <1>3 DEF Pool
    <3>2. \A key \in Keys : due'[key] = IF key \in keys THEN pool[k].token ELSE due[key]
      BY <1>2
    <3>3. \A key \in keys : matched'[key] # None
      BY <1>13 DEF MatchingAssumption
    <3>4. \A key \in Keys \ keys : due'[key] # None => matched'[key] # None
      BY <1>1, <1>14, <3>2 DEF MTypeOK
    <3>5. \A key \in Keys : due'[key] \in Tokens \cup {None}
      BY <1>1, <3>1, <3>2 DEF MTypeOK
    <3> HIDE DEF keys
    <3>6. due' = [key \in Keys |-> due'[key]]
      BY <1>2
    <3> QED
      BY <3>3, <3>4, <3>5, <3>6
  <2>4. RTypeOK'
    BY <1>1, <1>2 DEF RTypeOK, repVars
  <2> HIDE DEF keys
  <2> QED
    BY <1>1, <1>2, <2>1, <2>2, <2>3, <2>4 DEF MTypeOK
<1>16. RatingsTyped'
  BY <1>1, <1>2 DEF RatingsTyped, RTypeOK, Typed, repVars
<1>17. Divided(k)'
  <2> DEFINE f == [p \in P |-> matched'[<<k, p>>]]
  <2>1. SumFunctionOnSet(f, P) <= sum
    <3>1. \A i \in D : f[ballot[i]] \in Nat /\ share[i] = f[ballot[i]]
      BY <1>6, <1>10
    <3> HIDE DEF f, share, D
    <3>2. SumFunctionOnSet(f, {ballot[i] : i \in D}) <= SumFunctionOnSet(share, D)
      BY <1>6, <3>1, SumImage
    <3> QED
      BY <1>7, <3>2
  <2>2. Matches(k)' <= sum
    BY <1>11, <1>12, <2>1 DEF Matches
  <2>3. (rest - sum) + sum = rest
    <3> HIDE DEF sum, rest
    <3> QED
      BY <1>3, <1>6
  <2>4. ASSUME NEW p \in P, NEW q \in P,
               contributions[<<k, p>>].total <= contributions[<<k, q>>].total
        PROVE  matched'[<<k, p>>] <= matched'[<<k, q>>]
    <3>1. PICK i \in D : p = ballot[i]
      OBVIOUS
    <3>2. PICK j \in D : q = ballot[j]
      OBVIOUS
    <3>3. share[i] <= share[j]
      BY <1>6, <2>4, <3>1, <3>2
    <3> HIDE DEF share
    <3> QED
      BY <1>10, <3>1, <3>2, <3>3
  <2>5. now' = now /\ contributions' = contributions
    BY <1>2
  <2> HIDE DEF f, P, sum, rest
  <2> QED
    BY <1>2, <1>11, <1>12, <2>2, <2>3, <2>4, <2>5 DEF Divided
<1>18. ASSUME NEW other \in Pools, other # k, pool'[other] # None
       PROVE  Divided(other)'
  <2>1. pool'[other] = pool[other] /\ Divided(other) /\ pool[other] \in Pool
    BY <1>1, <1>12, <1>18 DEF PoolInv, MTypeOK
  <2>2. \A p \in Projects : matched'[<<other, p>>] = matched[<<other, p>>]
    <3>1. \A p \in Projects : <<other, p>> \in Keys \ keys
      BY <1>18 DEF Keys
    <3> QED
      BY <1>14, <3>1
  <2>3. pool[other].projects \subseteq Projects
    BY <2>1 DEF Pool
  <2>4. Matches(other)' = Matches(other)
    BY <2>1, <2>2, <2>3 DEF Matches
  <2> HIDE DEF keys
  <2> QED
    BY <1>2, <2>1, <2>2, <2>3, <2>4 DEF Divided
<1>19. ASSUME NEW t \in Tokens
       PROVE  Owed(t)' <= (committed[t] + unbacked[t])'
  <2> DEFINE f == Unclaimed(t)
             g == Unclaimed(t)'
             h == [key \in Keys |-> IF key \in keys THEN Share(k, key[2], ballot) ELSE 0]
             b == [key \in Keys |-> f[key] + h[key]]
             u == Undivided(t)
             v == Undivided(t)'
  <2>1. /\ IsFiniteSet(Keys) /\ IsFiniteSet(Pools)
        /\ \A key \in Keys : f[key] \in Nat
        /\ \A other \in Pools : u[other] \in Nat
        /\ SumFunctionOnSet(f, Keys) \in Nat /\ SumFunctionOnSet(u, Pools) \in Nat
        /\ Paid(t) \in Int /\ committed[t] \in Nat /\ unbacked[t] \in Nat
    BY <1>1, OwedTyped
  <2>2. /\ \A key \in Keys : g[key] \in Nat
        /\ \A other \in Pools : v[other] \in Nat
        /\ SumFunctionOnSet(g, Keys) \in Nat /\ SumFunctionOnSet(v, Pools) \in Nat
    <3>1. /\ \A key \in Keys : Unclaimed(t)[key]' \in Nat
          /\ \A other \in Pools : Undivided(t)[other]' \in Nat
      BY <1>15 DEF MTypeOK, Unclaimed, Undivided, Pool, MatchingAssumption
    <3> HIDE DEF keys
    <3>2. (\A key \in Keys : g[key] \in Nat) /\ (\A other \in Pools : v[other] \in Nat)
      BY <3>1 DEF Keys
    <3> HIDE DEF f, g, u, v
    <3> QED
      BY <2>1, <3>2, SumNat
  <2>3. \A i \in D : h[<<k, ballot[i]>>] = share[i]
    BY <1>4
  <2>4. \A key \in Keys : h[key] \in Nat
    BY <1>6, <2>3
  <2>5. SumFunctionOnSet(h, Keys) <= sum
    <3>1. SumFunctionOnSet(h, Keys) = SumFunctionOnSet(h, keys)
      <4>1. \A key \in Keys \ keys : h[key] = 0
        OBVIOUS
      <4>2. \A key \in Keys : h[key] \in Int
        BY <2>4
      <4> HIDE DEF h, keys
      <4> QED
        BY <1>9, <2>1, <4>1, <4>2, SumRestrict
    <3> DEFINE at == [i \in D |-> <<k, ballot[i]>>]
    <3>2. keys = {at[i] : i \in D}
      OBVIOUS
    <3>3. \A i \in D : h[at[i]] \in Nat /\ share[i] = h[at[i]]
      BY <1>6, <2>3
    <3> HIDE DEF h, at, share, D
    <3>4. SumFunctionOnSet(h, {at[i] : i \in D}) <= SumFunctionOnSet(share, D)
      BY <1>6, <3>3, SumImage
    <3> QED
      BY <1>7, <3>1, <3>2, <3>4
  <2>6. Paid(t)' = Paid(t) /\ committed'[t] = committed[t] /\ unbacked'[t] = unbacked[t]
    BY <1>2 DEF Paid
  <2>7. /\ Owed(t) = Paid(t) + SumFunctionOnSet(f, Keys) + SumFunctionOnSet(u, Pools)
        /\ Owed(t)' = Paid(t) + SumFunctionOnSet(g, Keys) + SumFunctionOnSet(v, Pools)
    BY <2>6 DEF Owed
  <2>8. /\ v[k] = 0 /\ u[k] = IF pool[k].token = t THEN rest ELSE 0
        /\ \A other \in Pools \ {k} : v[other] = u[other]
    BY <1>2, <1>11, <1>12 DEF Undivided
  <2>9. ASSUME NEW key \in Keys
        PROVE  g[key] <= IF pool[k].token = t THEN b[key] ELSE f[key]
    <3>1. CASE key \in keys
      <4>1. due'[key] = pool[k].token
        BY <1>2, <3>1
      <4>2. CASE pool[k].token = t
        <5>1. g[key] = h[key]
          <6>1. PICK i \in D : key = <<k, ballot[i]>>
            BY <3>1
          <6>2. matched'[key] = share[i]
            BY <1>10, <6>1
          <6>3. g[key] = matched'[key]
            BY <4>1, <4>2 DEF Unclaimed
          <6> QED
            BY <2>3, <6>1, <6>2, <6>3
        <5>2. b[key] = f[key] + h[key]
          OBVIOUS
        <5> HIDE DEF g, h, f, b
        <5> QED
          BY <2>1, <2>4, <4>2, <5>1, <5>2
      <4>3. CASE pool[k].token # t
        <5>1. g[key] = 0
          BY <4>1, <4>3 DEF Unclaimed
        <5> HIDE DEF g, f
        <5> QED
          BY <2>1, <4>3, <5>1
      <4> QED
        BY <4>2, <4>3
    <3>2. CASE key \notin keys
      <4>1. matched'[key] = matched[key] /\ due'[key] = due[key]
        BY <1>2, <1>14, <3>2
      <4>2. g[key] = f[key] /\ h[key] = 0 /\ b[key] = f[key] + h[key]
        BY <3>2, <4>1 DEF Unclaimed
      <4> HIDE DEF g, h, f, b
      <4> QED
        BY <2>1, <4>2
    <3> QED
      BY <3>1, <3>2
  <2>10. \A key \in Keys : b[key] \in Int /\ b[key] = f[key] + h[key]
    <3> HIDE DEF f, h
    <3> QED
      BY <2>1, <2>4
  <2> HIDE DEF f, g, h, b, u, v, sum, rest
  <2>11. SumFunctionOnSet(b, Keys) = SumFunctionOnSet(f, Keys) + SumFunctionOnSet(h, Keys)
    <3>1. \A key \in Keys : f[key] \in Int /\ h[key] \in Int /\ b[key] = f[key] + h[key]
      BY <2>1, <2>4, <2>10
    <3> QED
      BY <2>1, <3>1, SumOfSums
  <2>12. SumFunctionOnSet(v, Pools) = SumFunctionOnSet(u, Pools) + v[k] - u[k]
    <3>1. \A x \in Pools : u[x] \in Int /\ v[x] \in Int
      BY <2>1, <2>2
    <3>2. \A x \in Pools \ {k} : v[x] = u[x]
      BY <2>8
    <3> QED
      BY <2>1, <3>1, <3>2, SumChange
  <2>13. SumFunctionOnSet(h, Keys) \in Nat
    BY <2>1, <2>4, SumNat
  <2>14. Owed(t)' <= Owed(t)
    <3>1. CASE pool[k].token = t
      <4>1. \A key \in Keys : g[key] \in Int /\ b[key] \in Int /\ g[key] <= b[key]
        BY <2>2, <2>9, <2>10, <3>1
      <4>2. SumFunctionOnSet(g, Keys) <= SumFunctionOnSet(b, Keys)
        BY <2>1, <4>1, SumLeq
      <4> QED
        BY <1>3, <1>6, <2>1, <2>2, <2>5, <2>7, <2>8, <2>11, <2>12, <2>13, <3>1, <4>2
    <3>2. CASE pool[k].token # t
      <4>1. \A key \in Keys : g[key] \in Int /\ f[key] \in Int /\ g[key] <= f[key]
        BY <2>1, <2>2, <2>9, <3>2
      <4>2. SumFunctionOnSet(g, Keys) <= SumFunctionOnSet(f, Keys)
        BY <2>1, <4>1, SumLeq
      <4> QED
        BY <2>1, <2>2, <2>7, <2>8, <2>12, <3>2, <4>2
    <3> QED
      BY <3>1, <3>2
  <2>15. Owed(t) \in Int /\ Owed(t)' \in Int
    BY <2>1, <2>2, <2>7
  <2>16. Owed(t) <= committed[t] + unbacked[t]
    BY DEF PoolInv, Covered
  <2> QED
    BY <2>1, <2>6, <2>14, <2>15, <2>16
<1> QED
  BY <1>15, <1>16, <1>17, <1>18, <1>19 DEF PoolInv, Covered

LEMMA DistributeKeeps ==
  ASSUME MatchingAssumption, PoolInv, NEW k \in Pools, NEW p \in Projects,
         DistributeMatchedFunds(k, p)
  PROVE  PoolInv'
<1> DEFINE key == <<k, p>>
           token == pool[k].token
           amount == matched[key]
           backed == due[key] = token
<1>1. RatingsTyped /\ MTypeOK /\ RTypeOK /\ key \in Keys
  BY DEF PoolInv, MTypeOK, Keys
<1>2. /\ pool[k] # None /\ amount # None /\ amount <= balance[token]
      /\ balance' = [balance EXCEPT ![token] = @ - amount]
      /\ due' = IF backed THEN [due EXCEPT ![key] = None] ELSE due
      /\ unbacked' = IF backed THEN unbacked ELSE [unbacked EXCEPT ![token] = @ + amount]
      /\ UNCHANGED <<repVars, now, pool, verified, donation, contributions, matched,
                     donated, committed>>
  BY DEF DistributeMatchedFunds
<1>3. token \in Tokens /\ amount \in Nat /\ balance[token] \in Nat
  BY <1>1, <1>2 DEF MTypeOK, Pool
<1>4. /\ balance' \in [Tokens -> Nat] /\ unbacked' \in [Tokens -> Nat]
      /\ due' \in [Keys -> Tokens \cup {None}]
      /\ \A x \in Keys : due'[x] # None => matched'[x] # None
  <2>1. balance[token] - amount \in Nat
    <3> HIDE DEF amount, token
    <3> QED
      BY <1>2, <1>3
  <2>2. unbacked[token] \in Nat /\ unbacked[token] + amount \in Nat
    <3>1. unbacked[token] \in Nat
      BY <1>1, <1>3 DEF MTypeOK
    <3> HIDE DEF amount, token
    <3> QED
      BY <1>3, <3>1
  <2>3. \A x \in Keys : due'[x] = IF backed /\ x = key THEN None ELSE due[x]
    BY <1>1, <1>2 DEF MTypeOK
  <2> HIDE DEF amount, token, key, backed
  <2>4. due' \in [Keys -> Tokens \cup {None}]
    BY <1>1, <1>2 DEF MTypeOK
  <2>5. \A x \in Keys : due'[x] # None => matched'[x] # None
    BY <1>1, <1>2, <2>3 DEF MTypeOK
  <2> QED
    BY <1>1, <1>2, <2>1, <2>2, <2>4, <2>5 DEF MTypeOK
<1>5. MTypeOK'
  <2>1. RTypeOK'
    BY <1>1, <1>2 DEF RTypeOK, repVars
  <2> HIDE DEF key, token, amount, backed
  <2> QED
    BY <1>1, <1>2, <1>4, <2>1 DEF MTypeOK
<1>6. RatingsTyped'
  BY <1>1, <1>2 DEF RatingsTyped, RTypeOK, Typed, repVars
<1>7. ASSUME NEW other \in Pools, pool'[other] # None
      PROVE  Divided(other)'
  <2>1. Divided(other) /\ pool' = pool /\ now' = now /\ matched' = matched
        /\ contributions' = contributions
    BY <1>2, <1>7 DEF PoolInv
  <2> QED
    BY <2>1 DEF Divided, Matches
<1>8. ASSUME NEW t \in Tokens
      PROVE  Owed(t)' <= (committed[t] + unbacked[t])'
  <2> DEFINE f == Unclaimed(t)
             g == Unclaimed(t)'
             spent == IF t = token THEN amount ELSE 0
             freed == IF t = token /\ backed THEN amount ELSE 0
  <2>1. /\ IsFiniteSet(Keys) /\ \A x \in Keys : f[x] \in Nat
        /\ SumFunctionOnSet(f, Keys) \in Nat /\ SumFunctionOnSet(Undivided(t), Pools) \in Nat
        /\ Funds \in Nat /\ donated[t] \in Nat /\ balance[t] \in Nat
        /\ committed[t] \in Nat /\ unbacked[t] \in Nat
    BY <1>1, OwedTyped
  <2>2. balance'[t] = balance[t] - spent /\ donated'[t] = donated[t]
    <3>1. CASE t = token
      BY <1>1, <1>2, <3>1 DEF MTypeOK
    <3>2. CASE t # token
      <4>1. balance'[t] = balance[t]
        BY <1>1, <1>2, <3>2 DEF MTypeOK
      <4> QED
        BY <1>2, <2>1, <3>2, <4>1
    <3> QED
      BY <3>1, <3>2
  <2>3. /\ committed'[t] = committed[t]
        /\ unbacked'[t] = unbacked[t] + spent - freed
    <3>1. CASE t = token /\ ~backed
      <4>1. unbacked'[t] = unbacked[t] + amount
        BY <1>1, <1>2, <3>1 DEF MTypeOK
      <4> HIDE DEF amount, backed, token
      <4> QED
        BY <1>2, <1>3, <2>1, <3>1, <4>1
    <3>2. CASE t # token \/ backed
      <4>1. unbacked'[t] = unbacked[t]
        BY <1>1, <1>2, <3>2 DEF MTypeOK
      <4> HIDE DEF amount, backed, token
      <4> QED
        BY <1>2, <1>3, <2>1, <3>2, <4>1
    <3> QED
      BY <3>1, <3>2
  <2>4. f[key] - freed = g[key] /\ \A x \in Keys \ {key} : g[x] = f[x]
    <3>1. \A x \in Keys : due'[x] = IF backed /\ x = key THEN None ELSE due[x]
      BY <1>1, <1>2 DEF MTypeOK
    <3>2. t # None
      BY DEF MatchingAssumption
    <3>3. \A x \in Keys \ {key} : g[x] = f[x]
      <4> HIDE DEF key, backed
      <4> QED
        BY <1>2, <3>1 DEF Unclaimed
    <3>4. f[key] = IF due[key] = t THEN amount ELSE 0
      BY <1>1 DEF Unclaimed
    <3>5. g[key] = IF ~backed /\ due[key] = t THEN amount ELSE 0
      BY <1>1, <1>2, <3>1, <3>2 DEF Unclaimed
    <3>6. freed = IF backed /\ due[key] = t THEN amount ELSE 0
      OBVIOUS
    <3> HIDE DEF f, g, freed, amount, backed, key
    <3>7. f[key] - freed = g[key]
      BY <1>3, <3>4, <3>5, <3>6
    <3> QED
      BY <3>3, <3>7
  <2>5. spent \in Nat /\ freed \in Nat
    BY <1>3
  <2>6. /\ Owed(t) = (Funds + donated[t] - balance[t])
                     + SumFunctionOnSet(f, Keys) + SumFunctionOnSet(Undivided(t), Pools)
        /\ Owed(t)' = (Funds + donated'[t] - balance'[t])
                      + SumFunctionOnSet(g, Keys) + SumFunctionOnSet(Undivided(t), Pools)
    <3>1. Undivided(t)' = Undivided(t)
      BY <1>2 DEF Undivided
    <3> QED
      BY <3>1 DEF Owed, Paid
  <2> HIDE DEF f, g, key, token, amount, backed, spent, freed
  <2>7. SumFunctionOnSet(g, Keys) = SumFunctionOnSet(f, Keys) + g[key] - f[key]
    <3>1. \A x \in Keys : f[x] \in Int /\ g[x] \in Int
      BY <2>1, <2>4, <2>5
    <3> QED
      BY <1>1, <2>1, <2>4, <3>1, SumChange
  <2>8. Owed(t) <= committed[t] + unbacked[t]
    BY DEF PoolInv, Covered
  <2>9. f[key] \in Nat /\ g[key] \in Int /\ f[key] - g[key] = freed
    BY <1>1, <2>1, <2>4, <2>5
  <2> QED
    BY <2>1, <2>2, <2>3, <2>5, <2>6, <2>7, <2>8, <2>9
<1> QED
  BY <1>5, <1>6, <1>7, <1>8 DEF PoolInv, Covered

LEMMA PoolInvariantHolds == MSpec => []PoolInv
<1>0. ReputationAssumption /\ MatchingAssumption
  BY ReputationAssumed, MatchingAssumed
<1>1. MInit => PoolInv
  <2> SUFFICES ASSUME MInit PROVE PoolInv
    OBVIOUS
  <2>1. RInit
    BY DEF MInit
  <2>2. Typed
    BY <2>1, InitiallyTyped
  <2>3. RTypeOK /\ config.max_multiplier > SCALE
    BY <1>0, <2>1, <2>2 DEF RInit, RTypeOK, Typed, ReputationAssumption
  <2>4. MTypeOK
    BY <1>0, <2>3 DEF MInit, MTypeOK, MatchingAssumption, Keys
  <2>5. \A k \in Pools : pool[k] = None
    BY DEF MInit
  <2>6. ASSUME NEW t \in Tokens PROVE Owed(t) <= committed[t] + unbacked[t]
    <3>1. IsFiniteSet(Keys) /\ IsFiniteSet(Pools) /\ Funds \in Nat
      BY <1>0, <2>4, OwedTyped
    <3>2. \A key \in Keys : Unclaimed(t)[key] = 0
      BY <1>0 DEF Unclaimed, MInit, MatchingAssumption
    <3>3. \A k \in Pools : Undivided(t)[k] = 0
      BY <2>5 DEF Undivided
    <3>4. SumFunctionOnSet(Unclaimed(t), Keys) = 0 /\ SumFunctionOnSet(Undivided(t), Pools) = 0
      BY <3>1, <3>2, <3>3, SumZero
    <3>5. Paid(t) = 0 /\ committed[t] = 0 /\ unbacked[t] = 0
      BY <3>1 DEF MInit, Paid
    <3> QED
      BY <3>4, <3>5 DEF Owed
  <2> QED
    BY <2>2, <2>3, <2>4, <2>5, <2>6 DEF PoolInv, RatingsTyped, Covered
<1>2. PoolInv /\ [MNext]_<<repVars, poolVars>> => PoolInv'
  <2> SUFFICES ASSUME PoolInv, [MNext]_<<repVars, poolVars>> PROVE PoolInv'
    OBVIOUS
  <2>1. RatingsTyped /\ MTypeOK /\ RTypeOK /\ now \in Nat
    BY DEF PoolInv, MTypeOK
  <2>2. ASSUME UNCHANGED <<now, pool, donation, contributions, matched, money>>,
               verified' \subseteq Donors, RatingsTyped'
        PROVE  PoolInv'
    <3>1. MTypeOK'
      BY <2>1, <2>2 DEF MTypeOK, money, RatingsTyped
    <3>2. now' >= now
      BY <2>1, <2>2
    <3>3. UNCHANGED <<pool, matched, due, unbacked, committed, contributions, balance, donated>>
      BY <2>2 DEF money
    <3>4. \A t \in Tokens : Paid(t)' = Paid(t)
      BY <3>3 DEF Paid
    <3> QED
      BY <1>0, <2>2, <3>1, <3>2, <3>3, <3>4, RoundsKept
  <2>3. ASSUME UNCHANGED repVars PROVE RatingsTyped'
    BY <2>1, <2>3 DEF RatingsTyped, RTypeOK, Typed, repVars
  <2>4. CASE UNCHANGED <<repVars, poolVars>>
    <3>1. UNCHANGED <<now, pool, donation, contributions, matched, money>>
          /\ verified' \subseteq Donors
      BY <2>1, <2>4 DEF poolVars, MTypeOK
    <3> QED
      BY <2>2, <2>3, <2>4, <3>1
  <2>5. CASE ReputationNext /\ UNCHANGED poolVars
    <3>1. RatingsTyped'
      BY <1>0, <2>1, <2>5, RatingsStayTyped
    <3>2. UNCHANGED <<now, pool, donation, contributions, matched, money>>
          /\ verified' \subseteq Donors
      BY <2>1, <2>5 DEF poolVars, MTypeOK
    <3> QED
      BY <2>2, <3>1, <3>2
  <2>6. ASSUME NEW d \in Donors, VerifySep12Identity(d) PROVE PoolInv'
    <3>1. UNCHANGED <<now, pool, donation, contributions, matched, money>>
          /\ verified' \subseteq Donors /\ UNCHANGED repVars
      BY <2>1, <2>6 DEF VerifySep12Identity, MTypeOK
    <3> QED
      BY <2>2, <2>3, <3>1
  <2>7. CASE Tick
    <3>1. /\ now' = now + 1
          /\ UNCHANGED <<repVars, pool, verified, donation, contributions, matched, money>>
      BY <2>7 DEF Tick
    <3>2. RatingsTyped' /\ MTypeOK'
      BY <2>1, <2>3, <3>1 DEF MTypeOK, money, RatingsTyped
    <3>3. now' >= now
      BY <2>1, <3>1
    <3>4. UNCHANGED <<pool, matched, due, unbacked, committed, contributions, balance, donated>>
      BY <3>1 DEF money
    <3>5. \A t \in Tokens : Paid(t)' = Paid(t)
      BY <3>4 DEF Paid
    <3> QED
      BY <1>0, <3>2, <3>3, <3>4, <3>5, RoundsKept
  <2>8. ASSUME NEW k \in Pools, PoolNext(k) PROVE PoolInv'
    BY <1>0, <2>8, InitializeKeeps, DonateKeeps, CalculateKeeps, DistributeKeeps DEF PoolNext
  <2> QED
    BY <2>4, <2>5, <2>6, <2>7, <2>8 DEF MNext
<1> QED
  BY <1>1, <1>2, PTL DEF MSpec

(* A finalized round divides exactly its matching amount, its matches fit  *)
(* in what was given out, and who received more is not matched less, for   *)
(* any ballot and any number of Newton's iterations.                       *)
THEOREM MatchingIsDivided == MSpec => []MatchingDivided
<1>1. PoolInv => MatchingDivided
  BY DEF PoolInv, Divided, Matches, MatchingDivided
<1> QED
  BY <1>1, PoolInvariantHolds, PTL

(* Of the donations in a token the contract still holds all but what the   *)
(* rounds in that token promised beyond its funds, what was paid of a      *)
(* match twice and what was paid of a match divided in another token.      *)
THEOREM DonationsAreKept == MSpec => []DonationsKept
<1>1. PoolInv => DonationsKept
  <2> SUFFICES ASSUME PoolInv, NEW t \in Tokens
               PROVE  donated[t] <= balance[t] + Uncollected(t) + unbacked[t]
    BY DEF DonationsKept
  <2>1. MTypeOK /\ Owed(t) <= committed[t] + unbacked[t]
    BY DEF PoolInv, Covered
  <2>2. /\ SumFunctionOnSet(Unclaimed(t), Keys) \in Nat
        /\ SumFunctionOnSet(Undivided(t), Pools) \in Nat
        /\ Funds \in Nat /\ donated[t] \in Nat /\ balance[t] \in Nat
        /\ committed[t] \in Nat /\ unbacked[t] \in Nat
    BY <2>1, MatchingAssumed, OwedTyped
  <2>3. Funds + donated[t] - balance[t] <= committed[t] + unbacked[t]
    BY <2>1, <2>2 DEF Owed, Paid
  <2> QED
    BY <2>2, <2>3 DEF Uncollected
<1> QED
  BY <1>1, PoolInvariantHolds, PTL

(* Every variable of the pools and of the ratings keeps its type.          *)
THEOREM PoolTypeCorrect == MSpec => []MTypeOK
<1>1. PoolInv => MTypeOK
  BY DEF PoolInv
<1> QED
  BY <1>1, PoolInvariantHolds, PTL


=============================================================================

--------------------------- MODULE MCMatchingPool ---------------------------
(***************************************************************************)
(* Small inputs for MatchingPool. What is checked of reputations needs     *)
(* projects recorded again and by others; what is checked of pools needs a *)
(* donor whose reputation changes between donations. Beside a pool, only   *)
(* one project, of one milestone, is recorded, and the configuration is    *)
(* stored.                                                                 *)
(***************************************************************************)
EXTENDS MatchingPool, TLC

SmallLimits  == {<<1, 3>>}
SmallBallots == {<<p>> : p \in Projects} \cup {<<p, q>> : p, q \in Projects}

Recorded == Cardinality({<<d, i>> \in Donors \X (1..MaxFunded) : i <= Len(funded[d])})
AnyPool  == \E k \in Pools : pool[k] # None

OneProject ==
  /\ Recorded <= 1 /\ ~reconfigured
  /\ \A p \in Projects : metrics[p] # None =>
       metrics[p].total_milestones = 1 /\ metrics[p].funded_amount = MIN_FUNDING

(* Once a round is divided, ratings change no more and only payments, a    *)
(* new round, its donations and its division follow; once a payment is     *)
(* unbacked, only payments and divisions.                                  *)
Closing ==
  LET divided == \E k \in Pools : pool[k] # None /\ pool[k].is_finalized
      later   == \E key \in Keys : matched[key] # None
      astray  == \E t \in Tokens : unbacked[t] > 0
  IN
  /\ later => UNCHANGED <<repVars, verified>>
  /\ divided => UNCHANGED now
  /\ astray => UNCHANGED <<donated, committed>>

MCNext ==
  /\ MNext
  /\ (AnyPool \/ now > 0)' => OneProject' /\ configured
  /\ verified' # {} => AnyPool
  /\ Closing

Interchangeable == Permutations(Donors) \cup Permutations(Projects) \cup Permutations(Tokens)

MCSpec == MInit /\ [][MCNext]_<<repVars, poolVars>>

=============================================================================

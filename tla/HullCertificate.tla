---------------------------- MODULE HullCertificate ----------------------------
(***************************************************************************)
(* hull_certificate.py: decisions about the hull that hold for every       *)
(* energy inside simultaneous intervals, and the order statistic that      *)
(* calibrates a radius.  A phase is a record [x, lo, hi]; phases are named *)
(* by their position.                                                      *)
(***************************************************************************)
EXTENDS HullGeometry

-------------------------------------------------------------------------------
(* RobustHullDecisionCertifier.                                             *)

\* The mixtures of other phases that have the composition of phase k: what the
\* linear program chooses from.
Mixtures(phases, k) ==
  LET xs == [i \in DOMAIN phases |-> phases[i].x]
      others == (DOMAIN phases) \ {k}
  IN  {d \in Decompositions(xs, xs[k]) : DOMAIN d \subseteq others}
      \union {[i \in {j} |-> Scale] : j \in {i \in others : xs[i] = xs[k]}}

\* competing_hull_energy at one endpoint; only when there is a mixture.
EndpointHull(phases, k, energy) ==
  Min({DecompositionEnergy(d, energy) : d \in Mixtures(phases, k)})

\* Faulty variant: the hull of the opposite endpoint is compared with.
CertifyOptimistic(phases, k, tolerance) ==
  LET lower == EndpointHull(phases, k, [i \in DOMAIN phases |-> phases[i].lo])
      upper == EndpointHull(phases, k, [i \in DOMAIN phases |-> phases[i].hi])
  IN  IF Mixtures(phases, k) = {} THEN "abstain"
      ELSE IF Scale * phases[k].hi - upper <= tolerance THEN "stable"
      ELSE IF Scale * phases[k].lo - lower > tolerance THEN "unstable"
      ELSE "abstain"

\* certify
Certify(phases, k, tolerance) ==
  LET lower == EndpointHull(phases, k, [i \in DOMAIN phases |-> phases[i].lo])
      upper == EndpointHull(phases, k, [i \in DOMAIN phases |-> phases[i].hi])
  IN  IF Mixtures(phases, k) = {} THEN "abstain"
      ELSE IF Scale * phases[k].hi - lower <= tolerance THEN "stable"
      ELSE IF Scale * phases[k].lo - upper > tolerance THEN "unstable"
      ELSE "abstain"

-------------------------------------------------------------------------------
(* certify_epsilon_optimal_actions: actions are the domain of values, a     *)
(* function to records [lo, hi].                                            *)

Guaranteed(values, epsilon) ==
  LET bestUpper == Max({values[a].hi : a \in DOMAIN values})
  IN  {a \in DOMAIN values : values[a].lo >= bestUpper - epsilon}

Possible(values, epsilon) ==
  LET bestLower == Max({values[a].lo : a \in DOMAIN values})
  IN  {a \in DOMAIN values : values[a].hi >= bestLower - epsilon}

-------------------------------------------------------------------------------

\* clustered_conformal_quantile with alpha = 1 - level/100, for a function from
\* clusters to scores: the smallest score that enough clusters do not exceed.
\* It refuses scores that are too few.
ConformalQuantile(scores, level) ==
  LET n == Cardinality(DOMAIN scores)
      order == ((n + 1) * level + 99) \div 100
      within(v) == {k \in DOMAIN scores : scores[k] <= v}
  IN  IF order > n THEN "too few clusters"
      ELSE Min({v \in {scores[k] : k \in DOMAIN scores} : Cardinality(within(v)) >= order})

===============================================================================

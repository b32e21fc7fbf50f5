-------------------------- MODULE CalibrationCoreset --------------------------
(***************************************************************************)
(* The planners of coreset.py: which of the observed cards a bounded       *)
(* memory keeps when one card arrives, and which it would pick from the    *)
(* whole archive.  Cards are numbers, ordered like their IDs.              *)
(*                                                                         *)
(* The posterior is a table: p[S][q] is the probability, in units of 1/U,  *)
(* that query q is stable once the cards S are fitted.  Every risk, gain,  *)
(* regret and divergence is computed from it as the code does, in integers.*)
(***************************************************************************)
EXTENDS Integers, Sequences, SequencesExt, FiniteSets, FiniteSetsExt

CONSTANTS
  Cards,           \* card IDs
  Queries,         \* queries that are still unanswered at some time
  Capacity,        \* cards a memory may hold
  U,               \* unit of probabilities
  FalseStable, FalseUnstable,   \* decision costs
  Boundary,        \* boundary weight of each query
  MinGain,         \* min_admission_gain
  MinImprovement,  \* min_risk_improvement
  Divergence,      \* proper divergence of two probabilities
  LogDivergence,   \* the logarithmic one of the constraint
  RegretLimit, LogLimit         \* max_decision_regret, max_log_divergence

ASSUME CoresetAssumption ==
  /\ Cards \subseteq Nat /\ IsFiniteSet(Cards) /\ IsFiniteSet(Queries)
  /\ Capacity \in Nat /\ {U, FalseStable, FalseUnstable} \subseteq Nat \ {0}
  /\ Boundary \in [Queries -> Nat \ {0}]
  /\ MinGain \in Nat /\ MinImprovement \in Nat
  /\ {RegretLimit, LogLimit} \subseteq Nat \ {0}
  /\ \A D \in {Divergence, LogDivergence} :
       /\ D \in [(0..U) \X (0..U) -> Nat]
       /\ \A w \in (0..U) \X (0..U) : D[w] = 0 <=> w[1] = w[2]

Total(F(_), S) == MapThenSumSet(F, S)

\* Tuples of IDs in the order in which Python compares them.
Before(s, t) ==
  \E i \in 1..Len(t) :
    /\ \A j \in 1..(i - 1) : j <= Len(s) /\ s[j] = t[j]
    /\ i > Len(s) \/ s[i] < t[i]

FirstOf(tuples) == CHOOSE s \in tuples : \A t \in tuples \ {s} : Before(s, t)

\* sorted() of a set of IDs.
Ordered(ids) == SetToSortSeq(ids, <)

-------------------------------------------------------------------------------
(* Risks and gains.                                                         *)

\* min of the two expected costs of a decision at probability p.
DecisionRisk(p) ==
  IF FalseStable * (U - p) < FalseUnstable * p THEN FalseStable * (U - p) ELSE FalseUnstable * p

\* weighted_decision_risk of the posterior that the cards S give.
JointRisk(post, pool, S) ==
  Total(LAMBDA q : Boundary[q] * DecisionRisk(post[S][q]), pool)

\* One entry of the gain matrix: the baseline risk less the risk after one
\* witness, never below zero.
Gain(post, q, card) ==
  LET drop == DecisionRisk(post[{}][q]) - DecisionRisk(post[{card}][q])
  IN  Boundary[q] * (IF drop > 0 THEN drop ELSE 0)

\* value: every query counts its best selected witness.
Value(post, pool, S) ==
  IF S = {} THEN 0 ELSE Total(LAMBDA q : Max({Gain(post, q, c) : c \in S}), pool)

MarginalGain(post, pool, S, card) ==
  IF card \in S THEN 0 ELSE Value(post, pool, S \union {card}) - Value(post, pool, S)

-------------------------------------------------------------------------------
(* One arrival: the current tuple, the arrived card, and what may follow.   *)

\* _candidate_subsets without the rejection: the card is appended while there
\* is room, then it takes the place of one card.
Proposals(current, card) ==
  IF Capacity = 0 THEN {}
  ELSE IF Len(current) < Capacity THEN {Append(current, card)}
  ELSE {[current EXCEPT ![i] = card] : i \in 1..Len(current)}

\* FacilityLocationCoresetPlanner.preview_admit: the best proposal, the first
\* of several, if it improves by more than the minimum.
FacilityAdmits(post, pool, current, card) ==
  LET value(s) == Value(post, pool, ToSet(s))
      best == {s \in Proposals(current, card) :
                 \A t \in Proposals(current, card) : value(t) <= value(s)}
  IN  IF best = {} \/ value(FirstOf(best)) - value(current) <= MinGain THEN current ELSE FirstOf(best)

\* JointPosteriorRiskOneSwapPlanner.preview_admit, the same for the risk of
\* the posterior that the kept cards give together.
JointAdmits(post, pool, current, card) ==
  LET risk(s) == JointRisk(post, pool, ToSet(s))
      best == {s \in Proposals(current, card) :
                 \A t \in Proposals(current, card) : risk(s) <= risk(t)}
  IN  IF best = {} \/ risk(current) - risk(FirstOf(best)) <= MinImprovement THEN current
      ELSE FirstOf(best)

\* compare_facility_and_joint_objectives: one walk over the rows of the
\* neighborhood in the order of the evicted position, the current row first,
\* with a running best for each objective.
Compared(post, pool, current, card) ==
  LET rows == <<current>> \o
        (IF Capacity = 0 THEN <<>>
         ELSE IF Len(current) < Capacity THEN <<Append(current, card)>>
         ELSE [i \in 1..Len(current) |-> [current EXCEPT ![i] = card]])
      better(score(_), best, row) ==
        \/ score(rows[row]) > score(rows[best])
        \/ /\ score(rows[row]) = score(rows[best])
           /\ best # 1 /\ Before(rows[row], rows[best])
      walk(score(_)) ==
        FoldLeft(LAMBDA best, row : IF better(score, best, row) THEN row ELSE best,
                 1, [i \in 1..Len(rows) |-> i])
      facility(s) == Value(post, pool, ToSet(s))
      negativeRisk(s) == 0 - JointRisk(post, pool, ToSet(s))
      kept(score(_), least) ==
        IF score(rows[walk(score)]) - score(current) <= least THEN current ELSE rows[walk(score)]
  IN  [facility |-> kept(facility, MinGain), joint |-> kept(negativeRisk, MinImprovement)]

-------------------------------------------------------------------------------
(* Projection of a reference posterior onto fewer cards.                    *)

\* reference_weights, with the floor of 0.05 and scaled to integers.
ReferenceWeight(p) ==
  FalseStable * FalseUnstable * U + 19 * (FalseStable + FalseUnstable) * DecisionRisk(p)

\* reference_decision_regret: the cost, at the reference probability, of the
\* decision taken at p, above the best one.
DecisionRegret(reference, p) ==
  LET saysStable == p * (FalseStable + FalseUnstable) >= FalseStable * U
  IN  (IF saysStable THEN FalseStable * (U - reference) ELSE FalseUnstable * reference)
        - DecisionRisk(reference)

\* A sum over the pool, weighted by the reference.
Weighted(post, pool, ref, Of(_, _), S) ==
  Total(LAMBDA q : ReferenceWeight(post[ref][q]) * Of(post[ref][q], post[S][q]), pool)

ProperDivergence(post, pool, ref, S) ==
  Weighted(post, pool, ref, LAMBDA r, p : Divergence[<<r, p>>], S)

\* _violation of both constraints, each relative to its limit; both limits
\* are positive here and brought to a common denominator.
Violation(post, pool, ref, S) ==
  LET over(value, limit) == IF value > limit THEN value - limit ELSE 0
      regret == Weighted(post, pool, ref, DecisionRegret, S)
      log == Weighted(post, pool, ref, LAMBDA r, p : LogDivergence[<<r, p>>], S)
  IN  over(regret, RegretLimit) * LogLimit + over(log, LogLimit) * RegretLimit

\* PosteriorProjectionScorer.score: the feasible candidate of least divergence,
\* or, when none is feasible, the one of least violation.
Projected(post, pool, ref, candidates) ==
  LET feasible == {S \in candidates : Violation(post, pool, ref, S) = 0}
      key(S) == <<Violation(post, pool, ref, S), ProperDivergence(post, pool, ref, S)>>
      better(S, T) ==
        \/ Before(key(S), key(T))
        \/ key(S) = key(T) /\ Before(Ordered(S), Ordered(T))
      eligible == IF feasible = {} THEN candidates ELSE feasible
  IN  CHOOSE S \in eligible : \A T \in eligible \ {S} : better(S, T)

\* PosteriorProjectionOneSwapPlanner.preview_admit: the reference is the
\* posterior of the current cards and the new one together.
ProjectionAdmits(post, pool, current, card) ==
  LET tuples == {current} \union Proposals(current, card)
      chosen == Projected(post, pool, ToSet(current) \union {card}, {ToSet(s) : s \in tuples})
  IN  CHOOSE s \in tuples : ToSet(s) = chosen

\* ExactArchivePosteriorProjectionPlanner.select, without reactivation costs.
ProjectedArchive(post, pool, archive) ==
  Projected(post, pool, archive, {S \in SUBSET archive : Cardinality(S) <= Capacity})

-------------------------------------------------------------------------------

\* select_from_archive_greedy; a round that stops leaves nothing for later
\* rounds to do.
Greedy(post, pool, archive) ==
  LET pick(S) ==
        LET rest == archive \ S IN
        IF rest = {} THEN S
        ELSE LET most == Max({MarginalGain(post, pool, S, c) : c \in rest})
                 first == Min({c \in rest : MarginalGain(post, pool, S, c) = most})
             IN  IF most <= MinGain THEN S ELSE S \union {first}
  IN  FoldLeft(LAMBDA S, i : pick(S), {}, [i \in 1..Capacity |-> i])
===============================================================================

----------------------------- MODULE HullLookahead -----------------------------
(***************************************************************************)
(* The posterior policies of protocol_acquisition.py that look ahead along *)
(* the delayed labels: Delta-Hull, the knowledge gradient, Hull-ENS and    *)
(* its safe gate, the selective gate and the anchored rollout, with the    *)
(* one-step comparators.                                                   *)
(*                                                                         *)
(* The posterior is a set of equally likely samples; Monte Carlo means are *)
(* taken at their limit, the sum over the set.  A labelled belief L maps   *)
(* every sample to the members of its complete hull, so that probabilities *)
(* become counts.  Calls are those of SourceRollout.                       *)
(***************************************************************************)
EXTENDS SourceRollout

Labelled(c, samples) == [s \in samples |-> Membership(c.xs, s, c.references)]

\* Conditioning on the revealed energy of a query.
Given(L, a, energy) == [s \in {t \in DOMAIN L : t[a] = energy} |-> L[s]]

Energies(L, a) == {s[a] : s \in DOMAIN L}

\* final_stability_probabilities, times the number of samples
Votes(L, a) == Cardinality({s \in DOMAIN L : a \in L[s]})

BestVotes(L, A, k) ==
  Max({SumOver([a \in T |-> Votes(L, a)]) : T \in kSubset(k, A)})

\* delta_hull_active_search with _stable_policy_argmax
DeltaAction(c, L) == BestById(c, Queries(c), LAMBDA a : Votes(L, a))

-------------------------------------------------------------------------------
(* _hull_ens_core: after the first answer, the best batch.                  *)

\* Faulty variant: the whole budget is spent again after the first query.
FutureWithWholeBudget(c, L, a) ==
  LET rest == Queries(c) \ {a}
      k == Min({c.horizon, Cardinality(rest)})
  IN  IF c.horizon <= 1 \/ k = 0 THEN 0
      ELSE SumOver([e \in Energies(L, a) |-> BestVotes(Given(L, a, e), rest, k)])

\* expected_future_values
Future(c, L, a) ==
  LET rest == Queries(c) \ {a}
      k == Min({c.horizon - 1, Cardinality(rest)})
  IN  IF c.horizon <= 1 \/ k = 0 THEN 0
      ELSE SumOver([e \in Energies(L, a) |-> BestVotes(Given(L, a, e), rest, k)])

EnsScore(c, L, a) == Votes(L, a) + Future(c, L, a)

\* hull_ens
EnsAction(c, L) == BestById(c, Queries(c), LAMBDA a : EnsScore(c, L, a))

\* information_values: how much the best of the others gains by the answer.
Information(c, L, a) ==
  LET rest == Queries(c) \ {a}
  IN  IF c.horizon <= 1 \/ rest = {} THEN 0
      ELSE SumOver([e \in Energies(L, a) |-> BestVotes(Given(L, a, e), rest, 1)])
             - BestVotes(L, rest, 1)

\* protocol_hull_knowledge_gradient: the horizon is two when the budget pays.
GradientScore(c, L, a) ==
  LET rest == Queries(c) \ {a}
  IN  Votes(L, a) + (IF c.horizon >= 2 /\ rest # {}
                     THEN SumOver([e \in Energies(L, a) |-> BestVotes(Given(L, a, e), rest, 1)])
                     ELSE 0)

GradientAction(c, L) == BestById(c, Queries(c), LAMBDA a : GradientScore(c, L, a))

-------------------------------------------------------------------------------
(* delta_hull_anchored_rollout                                              *)

\* Membership of the queries that remain when the selected ones have become
\* references of a reduced problem.
LabelsAfter(c, sample, selected) ==
  LET rest == InOrder(Queries(c) \ selected)
      pick(f) == [k \in DOMAIN rest |-> f[rest[k]]]
      phases == ActivePhases(c, sample, selected)
  IN  {rest[k] : k \in Membership(pick(c.xs), pick(sample), phases)}

\* _conditioned_posterior_subset
Agreeing(L, sample, selected) == {s \in DOMAIN L : \A a \in selected : s[a] = sample[a]}

\* Delta-Hull on the conditioned posterior.
AnchoredNext(c, L, sample, selected) ==
  LET reduced == [s \in Agreeing(L, sample, selected) |-> LabelsAfter(c, s, selected)]
  IN  BestById(c, Queries(c) \ selected, LAMBDA a : Votes(reduced, a))

AnchoredSelection(c, L, sample, first, horizon) ==
  LET next(S) == IF S = Queries(c) THEN {} ELSE {AnchoredNext(c, L, sample, S)}
      last == Min({c.horizon, horizon}) - 1
      after[k \in 0..last] == IF k = 0 THEN {first} ELSE after[k - 1] \union next(after[k - 1])
  IN  after[last]

AnchoredScore(c, L, a, horizon) ==
  SumOver([s \in DOMAIN L |-> Cardinality(AnchoredSelection(c, L, s, a, horizon) \intersect L[s])])

\* rollout_horizon is two.
AnchoredAction(c, L) == BestById(c, Queries(c), LAMBDA a : AnchoredScore(c, L, a, 2))

-------------------------------------------------------------------------------
(* The gates relative to Delta-Hull.                                        *)

\* two_step_information_value caps the budget at two queries.
TwoStep(c) == [c EXCEPT !.horizon = Min({c.horizon, 2})]

\* Faulty variant: the gate looks at the whole campaign, the rollout does not.
HeadroomOfWholeHorizon(c, L) ==
  EnsScore(c, L, EnsAction(c, L)) - EnsScore(c, L, DeltaAction(c, L))

Headroom(c, L) ==
  EnsScore(TwoStep(c), L, EnsAction(TwoStep(c), L)) - EnsScore(TwoStep(c), L, DeltaAction(c, L))

\* selective_delta_hull: the gate of selective_planning.py subtracts the error
\* of the headroom, whose size is left open, and the penalties.
SelectiveActions(c, L, penalty) ==
  {DeltaAction(c, L)}
  \union (IF Headroom(c, L) > penalty THEN {AnchoredAction(c, L)} ELSE {})

\* _top_k_union: the best by probability and the best by information.
TopUnion(c, L, k) ==
  LET best(Value(_)) ==
        {a \in Queries(c) :
           Cardinality({b \in Queries(c) \ {a} :
             Value(b) > Value(a) \/ (Value(b) = Value(a) /\ c.rank[b] < c.rank[a])}) < k}
  IN  best(LAMBDA a : Votes(L, a)) \union best(LAMBDA a : Information(c, L, a))

\* safe_hull_ens: an action must beat Delta-Hull by more than the radius.
SafeAction(c, L, k, radius) ==
  LET delta == DeltaAction(c, L)
      improving == {a \in TopUnion(c, L, k) \ {delta} :
                      EnsScore(c, L, a) - EnsScore(c, L, delta) > c.horizon * radius}
  IN  IF improving = {} THEN delta
      ELSE BestById(c, improving, LAMBDA a : EnsScore(c, L, a))

-------------------------------------------------------------------------------
(* One-step comparators.                                                    *)

SampleSum(L, a) == SumOver([s \in DOMAIN L |-> s[a]])

\* matched_local_hull_probability
LocalVotes(c, L, a) == Cardinality({s \in DOMAIN L : Scale * s[a] <= c.hull[a]})

\* posterior_mean_target_margin, times the number of samples
MeanMargin(c, L, a) == Cardinality(DOMAIN L) * c.hull[a] - Scale * SampleSum(L, a)

\* complete_pool_posterior_mean_hull_margin on the sums
CompletePoolMargin(c, L, a) ==
  LET n == Cardinality(DOMAIN L)
  IN  0 - LeaveOneOutMargin(c.xs, [b \in Queries(c) |-> SampleSum(L, b)],
                            [k \in DOMAIN c.references |->
                               [c.references[k] EXCEPT !.e = n * c.references[k].e]], a)

\* protocol_hull_risk_reduction: by the law of total variance the reduction is
\* the spread of the conditional means of the hull; samples divide Scale.
RiskReduction(c, L, a) ==
  LET hull == [s \in DOMAIN L |-> FinalHull(c.xs, s, c.references)]
      squared(S, x) == LET sum == SumOver([s \in S |-> hull[s][x]])
                       IN  (Scale \div Cardinality(S)) * sum * sum
  IN  SumOver([x \in EvaluationCompositions(c.xs, c.references) |->
        SumOver([e \in Energies(L, a) |-> squared(DOMAIN Given(L, a, e), x)]) - squared(DOMAIN L, x)])

===============================================================================

----------------------------- MODULE PolicyDispatch -----------------------------
(***************************************************************************)
(* protocol_policy_worker.py in the closed loop: in every round the worker *)
(* receives the queries that are left, the hull of what is known and the   *)
(* history, and its policy selects one; the answer extends all three.      *)
(*                                                                         *)
(* The posterior is a finite set of equally likely samples of the pool,    *)
(* the worlds of the system, and conditioning keeps those that agree with  *)
(* the history (samples that agree on what is left are one sample).        *)
(***************************************************************************)
EXTENDS HullLookahead

CONSTANTS
  Systems,     \* records [xs, source, rank, references, worlds, supported, budget]
  Policies,    \* the policies of the command line that are run
  Thresholds,  \* conformal thresholds
  Radii        \* certificate radii of the safe gate

\* The ids of the queries are different, a threshold is a quantile of absolute
\* errors, and the runner builds the first hull from the references alone.  The
\* task is built from compounds and from references of the elements whose
\* formation energy is zero.  Scale is a multiple of all numbers of samples, so
\* that the mean hull energy of samples is a number of its units, too.
ASSUME DispatchAssumption ==
  /\ Thresholds \subseteq Nat /\ Radii \subseteq Nat
  /\ \A s \in Systems :
       /\ s.xs \in Seq(Compositions \ Elements) /\ s.budget \in Nat
       /\ {s.source, s.rank} \union s.worlds \subseteq [1..Len(s.xs) -> Int]
       /\ IsInjective(s.rank) /\ IsFiniteSet(s.worlds)
       /\ \A n \in 1..Cardinality(s.worlds) : Scale % n = 0
       /\ s.references \in Seq([x : Compositions, e : Int])
       /\ Elements \subseteq {s.references[i].x : i \in 1..Len(s.references)}
       /\ \A i \in 1..Len(s.references) : s.references[i].x \in Elements => s.references[i].e = 0

VARIABLES
  system,
  policy,
  truth,      \* what the oracle answers: one of the worlds
  revealed,   \* queries in the order of their selection
  deviated,   \* conformal_deviation_used
  error       \* the worker has died of an exception

vars == <<system, policy, truth, revealed, deviated, error>>

Remaining == (DOMAIN system.xs) \ ToSet(revealed)

\* The queries that are left after the history q, in the order of the pool.
LeftAfter(s, q) == InOrder((DOMAIN s.xs) \ ToSet(q))

\* A function of the pool at the queries that are left.
VisibleAfter(s, q, f) == [k \in DOMAIN LeftAfter(s, q) |-> f[LeftAfter(s, q)[k]]]

\* causal_hull_phases: the references and what was answered, in that order.
CausalPhases(s, q, w) ==
  s.references \o [k \in DOMAIN q |-> [x |-> s.xs[q[k]], e |-> w[q[k]]]]

\* The payload of a round after the history q that the world w has answered.
CallWith(s, left, phases) ==
  LET visible(f) == [k \in DOMAIN left |-> f[left[k]]]
  IN  [xs |-> visible(s.xs), source |-> visible(s.source), rank |-> visible(s.rank),
       references |-> phases,
       hull |-> CurrentHull(visible(s.xs), phases),
       horizon |-> Min({s.budget - (Len(s.xs) - Len(left)), Len(left)})]

CallAfter(s, q, w) == CallWith(s, LeftAfter(s, q), CausalPhases(s, q, w))

\* protocol_target_energy_posterior and _sample_gaussian
SamplesAfter(s, q, w) ==
  {VisibleAfter(s, q, v) : v \in {v \in s.worlds : \A k \in ToSet(q) : v[k] = w[k]}}

Left == LeftAfter(system, revealed)
Call == CallAfter(system, revealed, truth)
Samples == SamplesAfter(system, revealed, truth)

-------------------------------------------------------------------------------
(* select                                                                   *)

RidgePolicies == {"ridge_margin", "ridge_uncertainty", "ridge_predicted_final_margin"}

SourcePolicies == {"random", "source_margin", "source_online_offset", "source_online_affine"}
                    \union RidgePolicies

\* _source_affine: least squares through two answers at least; here by the
\* line of the first two, the only history that the bounds reach.
AffineAction(c) ==
  LET source(k) == system.source[revealed[k]]
      answer(k) == truth[revealed[k]]
      run == source(2) - source(1)
      rise == answer(2) - answer(1)
      sign == IF run > 0 THEN 1 ELSE -1
  IN  IF Len(revealed) < 2 \/ run = 0
      THEN SourceAction(c)
      ELSE BestById(c, Queries(c), LAMBDA a :
             sign * (run * c.hull[a] - Scale * (rise * (c.source[a] - source(1)) + run * answer(1))))

\* posterior_current_hull_probability: the square of the distance to the hull
\* in standard deviations, with its sign; a cross product compares two.
CurrentHullAction(c, L) ==
  LET n == Cardinality(DOMAIN L)
      mean(a) == MeanMargin(c, L, a)
      square(a) == IF mean(a) >= 0 THEN mean(a) * mean(a) ELSE -(mean(a) * mean(a))
      spread(a) == n * SumOver([s \in DOMAIN L |-> s[a] * s[a]]) - SampleSum(L, a) * SampleSum(L, a)
      variance(a) == IF spread(a) = 0 THEN 1 ELSE Scale * Scale * Scale * spread(a)
      left(a, b) == square(a) * variance(b)
  IN  CHOOSE a \in Queries(c) : \A b \in Queries(c) \ {a} :
        left(a, b) > left(b, a) \/ (left(a, b) = left(b, a) /\ c.rank[a] < c.rank[b])

MarginPolicies == {"posterior_mean_target_margin", "complete_pool_posterior_mean_hull_margin",
                   "posterior_current_hull_probability"}

\* The policies that return before a hull is sampled.
MarginAction(p, c, L) ==
  CASE p = "posterior_mean_target_margin" -> BestById(c, Queries(c), LAMBDA a : MeanMargin(c, L, a))
    [] p = "complete_pool_posterior_mean_hull_margin" ->
         BestById(c, Queries(c), LAMBDA a : CompletePoolMargin(c, L, a))
    [] p = "posterior_current_hull_probability" -> CurrentHullAction(c, L)

RolloutPolicies ==
  {"ungated_source_rollout", "source_rollout_delta_hull", "constrained_dual_horizon_source_rollout",
   "independent_confirmation_source_rollout", "diagonal_ic_sarr", "independent_mc_ic_sarr",
   "conformal_source_rollout_delta_hull"}

\* The source rollouts; the draws of their blocks are left open.
StreamActions(p, c, streams) ==
  CASE p = "ungated_source_rollout" -> {UngatedAction(c, s) : s \in streams}
    [] p = "source_rollout_delta_hull" -> {SarrAction(c, s) : s \in streams}
    [] p = "constrained_dual_horizon_source_rollout" -> {DualAction(c, s) : s \in streams}

\* The runner has told whether the one deviation is used up.
DeviateOnceActions(c, streams) ==
  IF deviated THEN {SourceAction(c)}
  ELSE UNION {ConformalActions(c, s, r) : s \in streams, r \in Thresholds}

\* The confirmed rollouts, by what their two stages are drawn from.
ConfirmedFromSamples(c, samples) == ConfirmedActions(c, Streams(c, samples))
ConfirmedVariants(p, c, samples) ==
  CASE p = "independent_mc_ic_sarr" -> ConfirmedActions(c, IndependentStreams(c, samples))
    [] p = "diagonal_ic_sarr" -> ConfirmedActions(c, Streams(c, Diagonal(c, samples)))

RolloutActions(p, c, samples) ==
  CASE p \in {"independent_mc_ic_sarr", "diagonal_ic_sarr"} -> ConfirmedVariants(p, c, samples)
    [] p = "independent_confirmation_source_rollout" -> ConfirmedFromSamples(c, samples)
    [] p = "conformal_source_rollout_delta_hull" -> DeviateOnceActions(c, Streams(c, samples))
    [] OTHER -> StreamActions(p, c, Streams(c, samples))

\* The policies that rank sampled memberships.
HullActions(p, c, L) ==
  CASE p = "delta_hull_active_search" -> {DeltaAction(c, L)}
    [] p = "matched_local_hull_probability" -> {BestById(c, Queries(c), LAMBDA a : LocalVotes(c, L, a))}
    [] p = "safe_hull_ens" -> {SafeAction(c, L, 2, r) : r \in Radii}

TwoQueryRollout(c, L) == AnchoredAction(c, L)

RiskAction(c, L) == BestById(c, Queries(c), LAMBDA a : RiskReduction(c, L, a))

\* The entropy of the hull is real arithmetic and its choice left open.
EntropyActions(c) == Queries(c)

\* The policies that need a frozen transport model.
HullPolicies ==
  MarginPolicies \union RolloutPolicies
    \union {"delta_hull_active_search", "matched_local_hull_probability", "hull_ens", "safe_hull_ens",
            "delta_hull_anchored_rollout", "protocol_hull_risk_reduction",
            "protocol_hull_knowledge_gradient", "cal_style_hull_entropy"}

\* The choices of the option --policy.
ASSUME PolicyAssumption == Policies \subseteq SourcePolicies \union HullPolicies

\* What a hull policy makes of the posterior.
PosteriorActions(p, c, samples, L) ==
  CASE p \in MarginPolicies -> {MarginAction(p, c, L)}
    [] p \in RolloutPolicies -> RolloutActions(p, c, samples)
    [] p = "delta_hull_anchored_rollout" -> {TwoQueryRollout(c, L)}
    [] p = "protocol_hull_risk_reduction" -> {RiskAction(c, L)}
    [] p = "cal_style_hull_entropy" -> EntropyActions(c)
    [] p = "protocol_hull_knowledge_gradient" -> {GradientAction(c, L)}
    [] OTHER -> HullActions(p, c, L)

\* Outside the elements of the transport model a hull policy orders by source.
ActionsFrom(p, c, samples, L) ==
  CASE p \in {"random"} \union RidgePolicies -> Queries(c)
    [] p \in {"source_margin", "source_online_offset"} -> {SourceAction(c)}
    [] p = "source_online_affine" -> {AffineAction(c)}
    [] p \in HullPolicies -> IF system.supported THEN PosteriorActions(p, c, samples, L) ELSE {SourceAction(c)}

Actions(p, c) == ActionsFrom(p, c, Samples, Labelled(c, Samples))

\* hull_ens has selected, but its diagnostics read a variable that only the
\* other branches assign, and the worker always asks for diagnostics.
Raises(p) == p = "hull_ens" /\ system.supported

-------------------------------------------------------------------------------

Init ==
  /\ system \in Systems /\ policy \in Policies /\ truth \in system.worlds
  /\ revealed = <<>> /\ deviated = FALSE /\ error = FALSE

CanPay == ~error /\ Remaining # {} /\ Len(revealed) < system.budget

\* The worker answers and the runner reveals what it asked for.
Respond ==
  /\ CanPay /\ ~Raises(policy)
  /\ \E c \in {Call} : \E a \in Actions(policy, c) :
       /\ revealed' = Append(revealed, Left[a])
       /\ deviated' = (deviated \/ (policy = "conformal_source_rollout_delta_hull"
                                      /\ a # SourceAction(c)))
  /\ UNCHANGED <<system, policy, truth, error>>

Crash ==
  /\ CanPay /\ Raises(policy)
  /\ error' = TRUE
  /\ UNCHANGED <<system, policy, truth, revealed, deviated>>

Next == Respond \/ Crash

Spec == Init /\ [][Next]_vars

-------------------------------------------------------------------------------
(* Properties.                                                              *)

\* What source_margin selects from here on when the oracle answers as in w.
Deployed(c, w) ==
  LET next(q) == SourceMarginAction(c, CurrentHull(c.xs, CausalPhases(c, q, w)), Queries(c) \ ToSet(q))
      after[k \in 0..c.horizon] ==
        IF k = 0 THEN <<>> ELSE Append(after[k - 1], next(after[k - 1]))
  IN  ToSet(after[c.horizon])

\* The continuation that every rollout simulates, with its envelope of all
\* decompositions, is the deployed source policy with its phase diagram.  Also,
\* what a rollout selects that is on the complete hull is on the hull of the
\* selected ones: the terminal reward is never above the causal one.
SimulatedIsDeployed ==
  CanPay /\ system.supported =>
    \A c \in {Call}, w \in Samples :
      /\ SelectedBy(c, w, SourceAction(c)) = Deployed(c, w)
      /\ \A r \in {Rewards(c, w)} : \A a \in Queries(c) : r[a].terminal <= r[a].causal

PairedPolicies ==
  {"source_rollout_delta_hull", "constrained_dual_horizon_source_rollout",
   "independent_confirmation_source_rollout", "conformal_source_rollout_delta_hull"}

\* With common random numbers no draw of the samples makes a gated policy leave
\* the source action for one that is not better in some sampled world.
DeviatesForSomeWorld ==
  [][(policy \in PairedPolicies /\ system.supported) =>
       \A c \in {Call} : \A source \in {SourceAction(c)} :
         Last(revealed') # Left[source] =>
           \E w \in Samples : \E r \in {Rewards(c, w)}, a \in Queries(c) :
             Left[a] = Last(revealed') /\ r[a].terminal > r[source].terminal]_vars

\* All the ways of choosing the second query by the answer of the first.
SecondChoices(c, L, a) == [Energies(L, a) -> Queries(c) \ {a}]

\* The number of members found by the first query and the second, in all worlds.
TwoStepValue(L, a, second) ==
  SumOver([s \in DOMAIN L |-> Cardinality({a, second[s[a]]} \intersect L[s])])

BestTwoStep(c, L, a) ==
  IF Cardinality(Queries(c)) = 1 \/ c.horizon = 1 THEN Votes(L, a)
  ELSE Max({TwoStepValue(L, a, second) : second \in SecondChoices(c, L, a)})

\* Hull-ENS, the knowledge gradient and the anchored rollout are three programs
\* for one number at a horizon of two: the value of the best decision rule for
\* the second query.  The rollout loses some only by an exact tie of phases.
TwoStepPlannersAgree ==
  CanPay /\ system.supported =>
    \A c \in {TwoStep(Call)} : \A L \in {Labelled(c, Samples)}, a \in Queries(c) :
      \A best \in {BestTwoStep(c, L, a)}, anchored \in {AnchoredScore(c, L, a, 2)} :
        /\ EnsScore(c, L, a) = best /\ GradientScore(c, L, a) = best
        /\ anchored <= best
        /\ IsInjective(c.xs) => anchored = best

\* The value of the best batch with the query, chosen before any answer.
BatchValue(c, L, a) ==
  Votes(L, a) + BestVotes(L, Queries(c) \ {a}, Min({c.horizon, Cardinality(Queries(c))}) - 1)

\* The value of the query to someone who knows which world is the true one.
ClairvoyantValue(c, L, a) ==
  SumOver([s \in DOMAIN L |-> (IF a \in L[s] THEN 1 ELSE 0)
                                + Min({c.horizon - 1, Cardinality(L[s] \ {a})})])

\* Learning never hurts: the score of Hull-ENS is at least that of the best
\* batch with the query, its information is not negative, it does not exceed
\* what the queries are worth when everything is known, and a reveal reduces
\* the variance of the hull in expectation.
LookaheadOrdered ==
  CanPay /\ system.supported =>
    \A c \in {Call} : \A L \in {Labelled(c, Samples)}, a \in Queries(c) :
      /\ \A score \in {EnsScore(c, L, a)} :
           BatchValue(c, L, a) <= score /\ score <= ClairvoyantValue(c, L, a)
      /\ Information(c, L, a) >= 0
      /\ RiskReduction(c, L, a) >= 0

\* The three two-step planners compute the value of the best decision rule, and
\* Hull-ENS lies between its best batch and what all-knowing queries are worth.
LookaheadIsExact == TwoStepPlannersAgree /\ LookaheadOrdered

\* The worlds that agree with the answers so far.
PossibleWorlds == {w \in system.worlds : \A k \in ToSet(revealed) : w[k] = truth[k]}

\* What Delta-Hull selects in the round after the query a, when it is answered
\* as in the world w.
DeltaAfter(a, w) ==
  LET q == Append(revealed, Left[a])
      next == CallAfter(system, q, w)
  IN  LeftAfter(system, q)[DeltaAction(next, Labelled(next, SamplesAfter(system, q, w)))]

\* The rollout that a replacement is judged by is the campaign that follows it:
\* in every world that is still possible it selects what Delta-Hull selects in
\* the next round of the loop, on the answer, the hull and the samples of that
\* round.
RolloutIsFollowed ==
  CanPay /\ system.supported =>
    \A c \in {Call}, w \in PossibleWorlds : \A L \in {Labelled(c, Samples)}, a \in Queries(c) :
      {Left[b] : b \in AnchoredSelection(c, L, VisibleAfter(system, revealed, w), a, 2)}
        = {Left[a]} \union (IF c.horizon = 1 THEN {} ELSE {DeltaAfter(a, w)})

\* The members that a query and then Delta-Hull find in the next two rounds
\* decide whether Delta-Hull is replaced, though no gate counts them.  Where
\* compositions differ, the headroom of the selective gate, which Hull-ENS
\* computes, is what the best query gains in them over the one of Delta-Hull;
\* a query that replaces it is the best and gains more than the penalties; and
\* one of the safe gate, with no more than two queries left, gains more than
\* the radius for each of them.
GatesPayTheirMargin ==
  CanPay /\ system.supported =>
    \A c \in {Call} : \A L \in {Labelled(c, Samples)} : \A delta \in {DeltaAction(c, L)} :
      \A found \in {[b \in Queries(c) |-> AnchoredScore(c, L, b, 2)]} :
        IsInjective(c.xs) =>
          /\ Headroom(c, L) = Max({found[b] : b \in Queries(c)}) - found[delta]
          /\ \A penalty \in Radii : \A a \in SelectiveActions(c, L, penalty) \ {delta} :
               /\ found[a] - found[delta] > penalty
               /\ \A b \in Queries(c) : found[b] <= found[a]
          /\ c.horizon <= 2 =>
               \A r \in Radii : \A a \in {SafeAction(c, L, 2, r)} \ {delta} :
                 found[a] - found[delta] > c.horizon * r

\* What replaces Delta-Hull pays for it in the campaign that follows.
ReplacementsPay == RolloutIsFollowed /\ GatesPayTheirMargin

\* Every policy of the command line selects a query: "hull_ens - delayed-label
\* Expected Next-best Search" is among those the protocol compares.
EveryPolicySelects == ~error

===============================================================================

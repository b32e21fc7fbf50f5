------------------------- MODULE DelayedLabelPlanning -------------------------
(***************************************************************************)
(* The finite-world benchmarks of controlled_delayed_label_benchmark.py    *)
(* and random_delayed_label_benchmark.py, and the audit of Hull-ENS on     *)
(* them (hull_ens_audit.py).  A query reveals one energy of   *)
(* the true world; what counts in the end is which selected candidates are *)
(* vertices of the complete lower hull.                                    *)
(*                                                                         *)
(* Energies and source energies are integers, the worlds have integer      *)
(* weights.  Expected values are not normalised: the value at a belief is  *)
(* the sum over its worlds of weight times reward, so that values of       *)
(* branches add up.                                                        *)
(***************************************************************************)
EXTENDS Integers, Sequences, SequencesExt, FiniteSets, FiniteSetsExt

CONSTANTS
  Worlds,     \* the finite worlds
  PoolSize,   \* candidates 1..PoolSize, in the order of their composition
  Instances,  \* the problems, see IsInstance
  Blocks,     \* of samples, in both stages of the sampled gate
  StageOneFactor2, StageTwoFactor2   \* squared factors of its lower bounds, in hundredths

Pool == 1..PoolSize
Policies == {"source_margin", "greedy_final", "source_rollout", "gated_source_rollout",
             "ic_sarr", "optimal_dp", "hull_ens", "hull_ens_sampled"}

IsInstance(i) ==
  /\ i.budget \in 1..PoolSize
  /\ i.energy \in [Worlds -> [Pool -> Int]]
  /\ i.weight \in [Worlds -> Nat \ {0}]
  /\ i.source \in [Pool -> Int]

\* Of the constants; the module that instantiates this one assumes it.
PlanningAssumption ==
  /\ IsFiniteSet(Worlds) /\ Worlds # {} /\ PoolSize \in Nat \ {0}
  /\ \A i \in Instances : IsInstance(i)
  /\ Blocks \in Nat \ {0, 1}
  /\ StageOneFactor2 \in Nat /\ StageTwoFactor2 \in Nat

VARIABLES
  instance,   \* one of the problems, with the hulls of its worlds
  policy,
  truth,      \* the world that answers
  belief,     \* worlds that agree with every answer
  selected    \* candidates queried so far, in order

vars == <<instance, policy, truth, belief, selected>>

Total(F(_), S) == MapThenSumSet(F, S)

-------------------------------------------------------------------------------
(* The lower hull.                                                          *)

Turn(a, b, c) == (b[1] - a[1]) * (c[2] - a[2]) - (b[2] - a[2]) * (c[1] - a[1])

\* The last points are popped until the chain turns left to the new one.
Pushed(lower, point) ==
  LET keeps(k) == k = 1 \/ Turn(lower[k - 1], lower[k], point) > 0
  IN  IF lower = <<>> THEN <<point>>
      ELSE Append(SubSeq(lower, 1, Max({k \in 1..Len(lower) : keeps(k)})), point)

Points(energies) ==
  <<<<0, 0>>>> \o [x \in Pool |-> <<x, energies[x]>>] \o <<<<PoolSize + 1, 0>>>>

\* _stable_indices
Stable(energies) ==
  LET lower == FoldLeft(Pushed, <<>>, Points(energies))
  IN  {x \in Pool : Contains(lower, <<x, energies[x]>>)}

-------------------------------------------------------------------------------
(* Beliefs and values.                                                      *)

\* _update_belief
Updated(i, worlds, action, world) ==
  {w \in worlds : i.energy[w][action] = i.energy[world][action]}

Branches(i, worlds, action) == {Updated(i, worlds, action, w) : w \in worlds}

\* The hulls of the worlds are found once, before the first round.
Prepared(i) ==
  [budget |-> i.budget, energy |-> i.energy, weight |-> i.weight, source |-> i.source,
   stable |-> [w \in Worlds |-> Stable(i.energy[w])]]

Reward(i, world, chosen) == Cardinality(chosen \intersect i.stable[world])

\* _terminal_value
Terminal(i, worlds, chosen) == Total(LAMBDA w : i.weight[w] * Reward(i, w, chosen), worlds)

\* Best first, the smaller index among equals.
Argmax(S, Score(_)) ==
  LET score == [a \in S |-> Score(a)]
  IN  CHOOSE a \in S : \A b \in S : score[a] > score[b] \/ (score[a] = score[b] /\ a <= b)

SourceAction(i, chosen) == Argmax(Pool \ chosen, LAMBDA a : 0 - i.source[a])

\* _source_completion: the source order fills what is left of the budget.
Completion(i, chosen, action) ==
  FoldLeft(LAMBDA S, k : IF Cardinality(S) = i.budget THEN S ELSE S \union {SourceAction(i, S)},
           chosen \union {action}, [k \in Pool |-> k])

RolloutValue(i, worlds, chosen, action) == Terminal(i, worlds, Completion(i, chosen, action))

\* optimal: the Bellman recursion over beliefs.
OptimalValue(i, worlds, chosen) ==
  LET value[x \in (SUBSET Worlds) \X (SUBSET Pool)] ==
        IF Cardinality(x[2]) = i.budget THEN Terminal(i, x[1], x[2])
        ELSE Max({Total(LAMBDA b : value[<<b, x[2] \union {a}>>], Branches(i, x[1], a)) :
                    a \in Pool \ x[2]})
  IN  value[<<worlds, chosen>>]

OptimalActionValue(i, worlds, chosen, action) ==
  Total(LAMBDA b : OptimalValue(i, b, chosen \union {action}), Branches(i, worlds, action))

-------------------------------------------------------------------------------
(* hull_ens_audit: an action, then the best batch for the observed branch.  *)

\* What the best of the other candidates are worth together.
BestBatch(i, worlds, chosen, action) ==
  LET rest == Pool \ (chosen \union {action})
  IN  Max({Terminal(i, worlds, T) : T \in kSubset(i.budget - Cardinality(chosen) - 1, rest)})

\* Faulty variant: the batch is chosen before the energy is observed.
EnsValueUnobserved(i, worlds, chosen, action) ==
  Terminal(i, worlds, {action}) + BestBatch(i, worlds, chosen, action)

\* exact_hull_ens_values
EnsValue(i, worlds, chosen, action) ==
  Terminal(i, worlds, {action})
    + Total(LAMBDA b : BestBatch(i, b, chosen, action), Branches(i, worlds, action))

\* The draws of outer worlds as a problem of their own: its worlds are the
\* draws, equally likely.
Sampled(i, draws) ==
  [i EXCEPT !.weight = [w \in Worlds |-> Cardinality({k \in DOMAIN draws : draws[k] = w})]]

\* sampled_hull_ens that reuses the outer draws within each observed branch.
ReusedValue(i, draws, chosen, action) == EnsValue(Sampled(i, draws), ToSet(draws), chosen, action)

\* sampled_hull_ens with one inner draw for every outer draw; the least and the
\* largest that the inner stream can make of it.
InnerValues(i, worlds, draws, chosen, action) ==
  LET one == [i EXCEPT !.weight = [w \in Worlds |-> 1]]
      futures(w) == {BestBatch(one, {v}, chosen, action) : v \in Updated(i, worlds, action, w)}
      value(pick(_)) == MapThenSumSet(LAMBDA k : Reward(i, draws[k], {action}) + pick(futures(draws[k])),
                                      DOMAIN draws)
  IN  <<value(Min), value(Max)>>

\* The actions that the sampled estimates can make the best.
SampledEnsActions(i, worlds, chosen) ==
  UNION {
    {Argmax(Pool \ chosen, LAMBDA a : ReusedValue(i, draws, chosen, a))}
    \union (LET inner == [a \in Pool \ chosen |-> InnerValues(i, worlds, draws, chosen, a)]
            IN  {a \in DOMAIN inner : \A b \in (DOMAIN inner) \ {a} :
                   inner[a][2] > inner[b][1] \/ (inner[a][2] = inner[b][1] /\ a < b)}) :
    draws \in [1..2 -> worlds]}

-------------------------------------------------------------------------------
(* The policies.                                                            *)

GreedyAction(i, worlds, chosen) ==
  Argmax(Pool \ chosen, LAMBDA a : Terminal(i, worlds, {a}))

RolloutAction(i, worlds, chosen) ==
  Argmax(Pool \ chosen, LAMBDA a : RolloutValue(i, worlds, chosen, a))

\* Faulty variant: the gate does not learn from the answers.
GatedActionAtPrior(i, worlds, chosen) ==
  LET best == RolloutAction(i, Worlds, chosen)
      source == SourceAction(i, chosen)
  IN  IF RolloutValue(i, Worlds, chosen, best) > RolloutValue(i, Worlds, chosen, source)
      THEN best ELSE source

\* The best rollout if it is strictly better than the source action's.
GatedAction(i, worlds, chosen) ==
  LET best == RolloutAction(i, worlds, chosen)
      source == SourceAction(i, chosen)
  IN  IF RolloutValue(i, worlds, chosen, best) > RolloutValue(i, worlds, chosen, source)
      THEN best ELSE source

OptimalAction(i, worlds, chosen) ==
  Argmax(Pool \ chosen, LAMBDA a : OptimalActionValue(i, worlds, chosen, a))

\* What every first action earns with the source order after it, world by world.
Rewards(i, worlds, chosen) ==
  LET completed == [a \in Pool \ chosen |-> Completion(i, chosen, a)]
  IN  [w \in worlds |-> [a \in Pool \ chosen |-> Reward(i, w, completed[a])]]

\* The streams of sampled worlds; a block is a mean, here of one sample, and the
\* blocks of a stream may be exchanged.
Draws(worlds) == {d \in [1..Blocks -> worlds] : \A k \in 2..Blocks : d[k - 1] <= d[k]}

\* The advantage of an action over another, block by block.
Advantages(rewards, draw, a, source) ==
  [k \in 1..Blocks |-> rewards[draw[k]][a] - rewards[draw[k]][source]]

\* The mean less so many standard errors is positive; the factor is squared, in
\* hundredths, so that the standard error becomes an integer.
LowerBoundPositive(d, factor2) ==
  LET sum == Total(LAMBDA k : d[k], DOMAIN d)
      squares == Total(LAMBDA k : d[k] * d[k], DOMAIN d)
  IN  sum > 0 /\ 100 * sum * sum * (Blocks - 1) > factor2 * (Blocks * squares - sum * sum)

\* Stage one: the best of the actions whose advantage is clear; of those whose
\* advantage is positive and not clear, the one that stage two looks at.
StageOne(rewards, draw, source, A) ==
  LET gain(a) == Total(LAMBDA k : Advantages(rewards, draw, a, source)[k], 1..Blocks)
      improving == {a \in A \ {source} :
                      LowerBoundPositive(Advantages(rewards, draw, a, source), StageOneFactor2)}
      positive == {a \in A \ {source} : gain(a) > 0}
  IN  [chosen   |-> IF improving = {} THEN source ELSE Argmax(improving, gain),
       screened |-> IF improving # {} \/ positive = {} THEN source ELSE Argmax(positive, gain)]

\* Stage two: one comparison in fresh worlds, no second search.
StageTwo(one, rewards, draw, source) ==
  IF one.screened # source
       /\ LowerBoundPositive(Advantages(rewards, draw, one.screened, source), StageTwoFactor2)
  THEN one.screened ELSE one.chosen

\* _sampled_ic_sarr_action, over the draws of both stages.
SampledActions(i, worlds, chosen) ==
  LET source == SourceAction(i, chosen)
      rewards == Rewards(i, worlds, chosen)
      ones == {StageOne(rewards, draw, source, Pool \ chosen) : draw \in Draws(worlds)}
  IN  {StageTwo(one, rewards, draw, source) : one \in ones, draw \in Draws(worlds)}

\* _policy_action and action_for.
Actions(i, p, worlds, chosen) ==
  CASE p = "source_margin"        -> {SourceAction(i, chosen)}
    [] p = "greedy_final"         -> {GreedyAction(i, worlds, chosen)}
    [] p = "source_rollout"       -> {RolloutAction(i, worlds, chosen)}
    [] p = "gated_source_rollout" -> {GatedAction(i, worlds, chosen)}
    [] p = "ic_sarr"              -> SampledActions(i, worlds, chosen)
    [] p = "optimal_dp"           -> {OptimalAction(i, worlds, chosen)}
    [] p = "hull_ens"             -> {Argmax(Pool \ chosen, LAMBDA a : EnsValue(i, worlds, chosen, a))}
    [] p = "hull_ens_sampled"     -> SampledEnsActions(i, worlds, chosen)

Init ==
  /\ instance \in {Prepared(i) : i \in Instances} /\ policy \in Policies
  /\ truth \in Worlds
  /\ belief = Worlds
  /\ selected = <<>>

\* One round of evaluate_random_instance, evaluate_controlled_policy or
\* evaluate_hull_ens_policy.
Query ==
  /\ Len(selected) < instance.budget
  /\ \E action \in Actions(instance, policy, belief, ToSet(selected)) :
       /\ selected' = Append(selected, action)
       /\ belief' = Updated(instance, belief, action, truth)
  /\ UNCHANGED <<instance, policy, truth>>

Next == Query

Spec == Init /\ [][Next]_vars

-------------------------------------------------------------------------------
(* Properties.                                                              *)

\* The monotone chain finds exactly the candidates that lie strictly below
\* every chord between two points on either side of them.
HullIsLower ==
  \A w \in Worlds :
    LET P == ToSet(Points(instance.energy[w])) IN
    instance.stable[w] =
      {x \in Pool :
         LET p == <<x, instance.energy[w][x]>> IN
         \A l, r \in P : l[1] < x /\ x < r[1] => Turn(l, p, r) > 0}

\* What a policy earns from here on, expected over the belief.
PolicyValue(p, worlds, chosen) ==
  LET value[x \in (SUBSET Worlds) \X (SUBSET Pool)] ==
        IF Cardinality(x[2]) = instance.budget THEN Terminal(instance, x[1], x[2])
        ELSE LET a == CHOOSE a \in Actions(instance, p, x[1], x[2]) : TRUE
             IN  Total(LAMBDA b : value[<<b, x[2] \union {a}>>], Branches(instance, x[1], a))
  IN  value[<<worlds, chosen>>]

\* "gated_source_rollout >= source_margin": wherever earlier answers have led,
\* to go on with either rollout, which revises its choice at every answer, is
\* expected to earn at least what the source order earns.
RolloutImproves ==
  policy \in {"source_rollout", "gated_source_rollout"} =>
    PolicyValue(policy, belief, ToSet(selected)) >=
      PolicyValue("source_margin", belief, ToSet(selected))

\* "optimal_dp >= gated_source_rollout": no policy is expected to earn more
\* than the Bellman value, and the optimal policy earns it.
OptimalDominates ==
  policy \in Policies \ {"ic_sarr", "hull_ens_sampled"} =>
    LET best == OptimalValue(instance, belief, ToSet(selected))
        earned == PolicyValue(policy, belief, ToSet(selected))
    IN  IF policy = "optimal_dp" THEN earned = best ELSE earned <= best

\* Hull-ENS values an action no higher than the Bellman recursion and no lower
\* than the source order after it; with two queries left it is exact.  Reusing
\* the outer draws inside the branches is optimistic on average.
EnsIsBounded ==
  (policy = "hull_ens" /\ Len(selected) < instance.budget) =>
    LET i == instance
        chosen == ToSet(selected)
        prior(draws) == FoldSet(LAMBDA k, p : p * i.weight[draws[k]], 1, DOMAIN draws)
        mass == Total(LAMBDA w : i.weight[w], belief)
    IN  \A a \in Pool \ chosen :
          LET ens == Total(LAMBDA w : i.weight[w] * Reward(i, w, chosen), belief)
                       + EnsValue(i, belief, chosen, a)
              optimal == OptimalActionValue(i, belief, chosen, a)
          IN  /\ RolloutValue(i, belief, chosen, a) <= ens /\ ens <= optimal
              /\ i.budget - Len(selected) <= 2 => ens = optimal
              /\ Total(LAMBDA d : prior(d) * ReusedValue(i, d, chosen, a), [1..2 -> belief])
                   >= 2 * mass * EnsValue(i, belief, chosen, a)

===============================================================================

----------------------------- MODULE SourceRollout -----------------------------
(***************************************************************************)
(* The source-anchored policies of protocol_acquisition.py: every legal    *)
(* first action is rolled out with the source-margin policy in sampled     *)
(* worlds, and a gate decides whether an action may displace the source    *)
(* action.                                                                 *)
(*                                                                         *)
(* A call c has the remaining queries 1..Len(c.xs) with their compositions *)
(* c.xs, source energies c.source and the rank c.rank of their ids in      *)
(* string order, the phases c.references, the current hull c.hull at the   *)
(* queries in units of 1/Scale, and the number c.horizon of queries that   *)
(* can still be paid.  A sample is a sequence of energies of the queries.  *)
(***************************************************************************)
EXTENDS HullCertificate

CONSTANTS
  BlockCount,   \* independent randomized blocks (sobol_scramble_count)
  Critical2     \* Critical2[m]: the squared critical value for m comparisons

ASSUME GateAssumption ==
  /\ BlockCount \in Nat /\ BlockCount > 1
  /\ Critical2 \in Seq(Nat \ {0})
  /\ \A m \in 2..Len(Critical2) : Critical2[m - 1] <= Critical2[m]

Queries(c) == 1..Len(c.xs)

\* The best score first, the smaller id among equals.
BestById(c, S, Score(_)) ==
  CHOOSE a \in S : \A b \in S :
    Score(a) > Score(b) \/ (Score(a) = Score(b) /\ c.rank[a] <= c.rank[b])

-------------------------------------------------------------------------------
(* The simulated source policy.                                             *)

\* source_margin_action_indices for one row of competing hull energies
SourceMarginAction(c, hull, eligible) ==
  BestById(c, eligible, LAMBDA a : hull[a] - Scale * c.source[a])

\* Faulty variant: the continuation does not learn what it has selected.
PhasesAtStart(c, sample, selected) == c.references

\* The phases the simulated hull may use: references and selected outcomes.
ActivePhases(c, sample, selected) ==
  LET order == InOrder(selected)
  IN  c.references \o [k \in DOMAIN order |-> [x |-> c.xs[order[k]], e |-> sample[order[k]]]]

\* The canonical set of actions after a first action and source continuations.
SelectedBy(c, sample, first) ==
  LET next(S) == LET phases == ActivePhases(c, sample, S)
                 IN  SourceMarginAction(c, [a \in Queries(c) |-> CompetingHull(phases, c.xs[a])],
                                        Queries(c) \ S)
      after[k \in 0..(c.horizon - 1)] ==
        IF k = 0 THEN {first} ELSE after[k - 1] \union {next(after[k - 1])}
  IN  after[c.horizon - 1]

\* _source_rollout_rewards: the terminal reward counts members of the complete
\* sampled hull, the causal reward members of the hull of what was selected.
Rewards(c, sample) ==
  LET labels == Membership(c.xs, sample, c.references)
      causal(S) == LET order == InOrder(S)
                   IN  Membership([k \in DOMAIN order |-> c.xs[order[k]]],
                                  [k \in DOMAIN order |-> sample[order[k]]], c.references)
  IN  [a \in Queries(c) |->
         LET S == SelectedBy(c, sample, a)
         IN  [terminal |-> Cardinality(S \intersect labels), causal |-> Cardinality(causal(S))]]

-------------------------------------------------------------------------------
(* Randomized blocks.  A block is known by its sums of rewards; here it has *)
(* two samples, the least the code admits.                                  *)

Sum2(r, q) == [a \in DOMAIN r |-> [terminal |-> r[a].terminal + q[a].terminal,
                                   causal |-> r[a].causal + q[a].causal]]

PairSums(rewards) == {Sum2(r, q) : r \in rewards, q \in rewards}

BlockSums(c, samples) == PairSums({Rewards(c, s) : s \in samples})

\* Common random numbers: all first actions see the same worlds.
Streams(c, samples) == [1..BlockCount -> BlockSums(c, samples)]

\* _independent_world_stage_one and rewards_for: every action has worlds of
\* its own, so its column can come from any other stream.
Recombined(streams, A) ==
  LET own(a) == {[b \in 1..BlockCount |-> s[b][a]] : s \in streams}
  IN  {[b \in 1..BlockCount |-> [a \in A |-> choice[a][b]]] :
         choice \in {f \in [A -> UNION {own(a) : a \in A}] : \A a \in A : f[a] \in own(a)}}

IndependentStreams(c, samples) == Recombined(Streams(c, samples), Queries(c))

\* Only the marginals are kept, so the worlds are all the combinations of them.
Diagonal(c, samples) ==
  LET marginal(a) == {s[a] : s \in samples}
  IN  {s \in [Queries(c) -> UNION {marginal(a) : a \in Queries(c)}] :
         \A a \in Queries(c) : s[a] \in marginal(a)}

SumOver(f) == SumFunctionOnSet(f, DOMAIN f)

Score(stream, a) == SumOver([b \in DOMAIN stream |-> stream[b][a].terminal])

Advantage(stream, a, source) == Score(stream, a) - Score(stream, source)

Differences(stream, a, source) ==
  [b \in DOMAIN stream |-> stream[b][a].terminal - stream[b][source].terminal]

CausalDifferences(stream, a, source) ==
  [b \in DOMAIN stream |-> stream[b][a].causal - stream[b][source].causal]

\* _simultaneous_paired_lower_bounds: the Bonferroni-t lower bound of the mean
\* of d, less the radius, is positive (nonnegative); squared, so that the
\* standard error becomes an integer.
Spread(d) == LET n == Cardinality(DOMAIN d)
             IN  n * MapThenSumSet(LAMBDA b : d[b] * d[b], DOMAIN d) - SumOver(d) * SumOver(d)

LowerBoundExceeds(d, comparisons, radius) ==
  LET n == Cardinality(DOMAIN d)
      sum == SumOver(d) - n * radius
  IN  sum > 0 /\ sum * sum * (n - 1) > Critical2[comparisons] * Spread(d)

LowerBoundNonnegative(d, comparisons) ==
  LET n == Cardinality(DOMAIN d)
  IN  SumOver(d) >= 0 /\ SumOver(d) * SumOver(d) * (n - 1) >= Critical2[comparisons] * Spread(d)

-------------------------------------------------------------------------------
(* The gates.                                                               *)

SourceAction(c) == SourceMarginAction(c, c.hull, Queries(c))

Comparisons(c) == Max({Len(c.xs) - 1, 1})

\* Actions whose simultaneous lower bound over the source action exceeds r.
Improving(c, stream, r) ==
  {a \in Queries(c) \ {SourceAction(c)} :
     LowerBoundExceeds(Differences(stream, a, SourceAction(c)), Comparisons(c), r)}

\* Faulty variant: the means decide.
SarrActionOnMeans(c, stream) == BestById(c, Queries(c), LAMBDA a : Score(stream, a))

\* source_rollout_delta_hull
SarrAction(c, stream) ==
  LET improving == Improving(c, stream, 0)
  IN  IF improving = {} THEN SourceAction(c)
      ELSE BestById(c, improving, LAMBDA a : Score(stream, a))

\* ungated_source_rollout_delta_hull: ties go to the first query, not the id.
UngatedAction(c, stream) ==
  CHOOSE a \in Queries(c) : \A b \in Queries(c) :
    Score(stream, a) > Score(stream, b) \/ (Score(stream, a) = Score(stream, b) /\ a <= b)

\* constrained_dual_horizon_source_rollout: twice the comparisons, terminal
\* strictly better and causal not worse.
DualFeasible(c, stream) ==
  LET source == SourceAction(c)
      comparisons == 2 * Comparisons(c)
  IN  {a \in Queries(c) \ {source} :
         /\ LowerBoundExceeds(Differences(stream, a, source), comparisons, 0)
         /\ LowerBoundNonnegative(CausalDifferences(stream, a, source), comparisons)}

DualAction(c, stream) ==
  LET feasible == DualFeasible(c, stream)
  IN  IF feasible = {} THEN SourceAction(c)
      ELSE BestById(c, feasible, LAMBDA a : Score(stream, a))

\* independent_confirmation_source_rollout: what stage one leaves unresolved,
\* stage two compares once, in fresh worlds.
Screened(c, one, source, positive) ==
  IF positive = {} THEN source ELSE BestById(c, positive, LAMBDA a : Advantage(one, a, source))

\* The choice of stage one and, of those that it leaves, the screened action.
StageOne(c, one, source, chosen) ==
  [chosen |-> chosen,
   screened |-> Screened(c, one, source, {a \in Queries(c) \ {source} : Advantage(one, a, source) > 0})]

\* verdicts[a]: what the single comparison of a can say over the draws.
Confirmed(source, stages, verdicts) ==
  {s.chosen : s \in {s \in stages : s.chosen # source \/ FALSE \in verdicts[s.screened]}}
  \union {s.screened : s \in {s \in stages : s.chosen = source /\ TRUE \in verdicts[s.screened]}}

ConfirmedFrom(c, source, ones, twos) ==
  Confirmed(source, {StageOne(c, one, source, SarrAction(c, one)) : one \in ones},
            [a \in Queries(c) |-> {LowerBoundExceeds(Differences(two, a, source), 1, 0) : two \in twos}])

\* Both stages draw from the same set of worlds.
ConfirmedActions(c, draws) == ConfirmedFrom(c, SourceAction(c), draws, draws)

\* conformal_one_deviation_source_rollout: the lower bound must clear the
\* calibrated radius; which of several that do is left open.
ConformalActions(c, stream, radius) ==
  LET eligible == Improving(c, stream, radius)
  IN  IF eligible = {} THEN {SourceAction(c)} ELSE eligible

===============================================================================

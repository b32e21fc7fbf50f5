---------------------------- MODULE Policies_proofs ----------------------------
(***************************************************************************)
(* What the policies and the gate of a campaign promise, for every size:   *)
(* no gate leaves the source policy where that pays in none of the sampled *)
(* worlds, each policy selects a query in every round, what a rollout or   *)
(* the gate simulates is what the worker and the loop then do, and the     *)
(* policies that look ahead compute what they say.                         *)
(*                                                                         *)
(* Gates: a lower bound above zero is one of a sum above zero, which has a *)
(* term above zero; a block sums two sampled worlds, so one of them is     *)
(* better.  A campaign spends its budget and the source policy has one     *)
(* campaign per world, which then missed something it could pay for.       *)
(*                                                                         *)
(* Simulation: the references at the elements have no energy, so what is   *)
(* above the elements is the hull itself; a rollout and the rounds of the  *)
(* worker have the same phases in another order, hence one hull and one    *)
(* next selection.  A member of the complete hull stays one among fewer    *)
(* entries.  Every policy ranks numbers and so selects a query, and the    *)
(* rounds of the loop are among those that the gate has simulated.         *)
(*                                                                         *)
(* Lookahead: votes are counted by query, by sample or by answer, with one *)
(* sum.  The value of a decision rule is then the votes of the first query *)
(* and, answer by answer, those of the second; the best rule takes the     *)
(* greatest of these, which is what Hull-ENS adds up.  The rollout is a    *)
(* rule because its second query depends on the answer alone, and the best *)
(* one when no other query has the composition of a new reference: its     *)
(* labels are then those of the complete hull.                             *)
(*                                                                         *)
(* Replacements: the headroom is then the gain of the best rollout.  The   *)
(* round after a query has the other queries in the same order, the same   *)
(* phases, and the samples that agree with the answer, each without that   *)
(* query, so the votes and the choice of Delta-Hull there are those of the *)
(* conditioned posterior in the rollout.                                   *)
(***************************************************************************)
EXTENDS Evaluation_proofs, CampaignGate

-------------------------------------------------------------------------------
(* The gates of the source policy: what leaves it pays in a block.           *)

\* What the worker receives for m queries.
IsCall(c, m) ==
  /\ m \in Nat \ {0} /\ Len(c.xs) = m /\ c.xs \in [1..m -> Compositions]
  /\ c.source \in [1..m -> Int] /\ c.rank \in [1..m -> Int] /\ c.hull \in [1..m -> Int]

\* The first of the best is one of those that may be chosen.
Best(D, f, g) == CHOOSE a \in D : \A b \in D : f[a] > f[b] \/ (f[a] = f[b] /\ g[a] <= g[b])

LEMMA BestIs ==
  ASSUME NEW D, IsFiniteSet(D), D # {}, NEW f \in [D -> Int], NEW g \in [D -> Int]
  PROVE  /\ Best(D, f, g) \in D
         /\ \A b \in D : \/ f[Best(D, f, g)] > f[b]
                         \/ f[Best(D, f, g)] = f[b] /\ g[Best(D, f, g)] <= g[b]
<1>1. \E a \in D : \A b \in D : f[a] > f[b] \/ (f[a] = f[b] /\ g[a] <= g[b])
  BY BestExists
<1> QED
  BY <1>1 DEF Best

LEMMA SourceIsEligible ==
  ASSUME NEW m, NEW c, IsCall(c, m), NEW hull \in [1..m -> Int],
         NEW D \in SUBSET (1..m), D # {}
  PROVE  SourceMarginAction(c, hull, D) \in D
<1> DEFINE f == [a \in D |-> hull[a] - Scale * c.source[a]]
           g == [a \in D |-> c.rank[a]]
<1>1. IsFiniteSet(D)
  <2>1. IsFiniteSet(1..m)
    BY FS_Interval DEF IsCall
  <2> QED
    BY <2>1, FS_Subset
<1>2. \A a \in D : hull[a] - Scale * c.source[a] \in Int /\ c.rank[a] \in Int
  <2> TAKE a \in D
  <2>1. a \in 1..m /\ hull[a] \in Int /\ c.source[a] \in Int /\ c.rank[a] \in Int /\ Scale \in Int
    BY GeometryAssumption DEF IsCall
  <2> QED
    BY <2>1
<1>3. f \in [D -> Int] /\ g \in [D -> Int]
  BY <1>2
<1>4. SourceMarginAction(c, hull, D) = Best(D, f, g)
  BY DEF SourceMarginAction, BestById, Best
<1> HIDE DEF f, g
<1> QED
  BY <1>1, <1>3, <1>4, BestIs

\* Streams of rewards for the queries 1..m: in every block, a number of members
\* for each of them.
IsStream(stream, m) ==
  /\ DOMAIN stream = 1..BlockCount
  /\ \A k \in 1..BlockCount, a \in 1..m : stream[k][a].terminal \in Int

LEMMA DifferencesFacts ==
  ASSUME NEW m \in Nat, NEW stream, IsStream(stream, m), NEW a \in 1..m, NEW b \in 1..m
  PROVE  LET d == Differences(stream, a, b) IN
         /\ d \in [1..BlockCount -> Int] /\ Cardinality(DOMAIN d) = BlockCount
         /\ SumOver(d) \in Int
         /\ SumOver(d) > 0 => \E k \in 1..BlockCount : stream[k][a].terminal > stream[k][b].terminal
<1> DEFINE d == Differences(stream, a, b)
<1>1. DOMAIN stream = 1..BlockCount
  BY DEF IsStream
<1>2. \A k \in 1..BlockCount : stream[k][a].terminal \in Int /\ stream[k][b].terminal \in Int
  BY DEF IsStream
<1>3. d = [k \in 1..BlockCount |-> stream[k][a].terminal - stream[k][b].terminal]
  BY <1>1 DEF Differences
<1>4. d \in [1..BlockCount -> Int] /\ DOMAIN d = 1..BlockCount
      /\ \A k \in 1..BlockCount : d[k] = stream[k][a].terminal - stream[k][b].terminal
  BY <1>2, <1>3
<1>5. BlockCount \in Nat /\ IsFiniteSet(1..BlockCount) /\ Cardinality(1..BlockCount) = BlockCount
  BY GateAssumption, FS_Interval
<1> HIDE DEF d
<1>6. SumOver(d) = SumFunctionOnSet(d, 1..BlockCount) /\ SumOver(d) \in Int
  BY <1>4, <1>5, SumIsInt DEF SumOver
<1>7. ASSUME SumOver(d) > 0
      PROVE  \E k \in 1..BlockCount : stream[k][a].terminal > stream[k][b].terminal
  <2>1. PICK k \in 1..BlockCount : d[k] > 0
    BY <1>4, <1>5, <1>6, <1>7, SomeTermIsPositive
  <2> QED
    BY <1>2, <1>4, <2>1
<1> QED
  BY <1>4, <1>5, <1>6, <1>7 DEF d

\* A lower bound that exceeds a radius is one of a sum above zero.
LEMMA ExceedsIsPositive ==
  ASSUME NEW d, SumOver(d) \in Int, Cardinality(DOMAIN d) \in Nat, NEW comparisons, NEW radius \in Nat,
         LowerBoundExceeds(d, comparisons, radius)
  PROVE  SumOver(d) > 0
<1>1. PICK n \in Nat, s \in Int : n = Cardinality(DOMAIN d) /\ s = SumOver(d)
  OBVIOUS
<1>2. s - n * radius > 0
  BY <1>1 DEF LowerBoundExceeds
<1>3. n * radius \in Nat
  OBVIOUS
<1> QED
  BY <1>1, <1>2, <1>3

LEMMA ScoreIsInt ==
  ASSUME NEW m \in Nat, NEW stream, IsStream(stream, m), NEW a \in 1..m
  PROVE  Score(stream, a) \in Int
<1> DEFINE d == [k \in DOMAIN stream |-> stream[k][a].terminal]
<1>1. d \in [1..BlockCount -> Int] /\ DOMAIN d = 1..BlockCount
  BY DEF IsStream
<1>2. IsFiniteSet(1..BlockCount)
  BY GateAssumption, FS_Interval
<1>3. Score(stream, a) = SumFunctionOnSet(d, DOMAIN d)
  BY DEF Score, SumOver
<1> HIDE DEF d
<1> QED
  BY <1>1, <1>2, <1>3, SumIsInt

BestByScore(c, stream, D) == BestById(c, D, LAMBDA a : Score(stream, a))

LEMMA BestScoreIsEligible ==
  ASSUME NEW m, NEW c, IsCall(c, m), NEW stream, IsStream(stream, m), NEW D \in SUBSET (1..m), D # {}
  PROVE  BestByScore(c, stream, D) \in D
<1> DEFINE f == [a \in D |-> Score(stream, a)]
           g == [a \in D |-> c.rank[a]]
<1>1. IsFiniteSet(D)
  <2>1. IsFiniteSet(1..m)
    BY FS_Interval DEF IsCall
  <2> QED
    BY <2>1, FS_Subset
<1>2. f \in [D -> Int] /\ g \in [D -> Int]
  BY ScoreIsInt DEF IsCall
<1>3. BestByScore(c, stream, D) = Best(D, f, g)
  BY DEF BestByScore, BestById, Best
<1> HIDE DEF f, g
<1> QED
  BY <1>1, <1>2, <1>3, BestIs

\* In some block the action finds more members than the other one.
Pays(stream, a, b) == \E k \in 1..BlockCount : stream[k][a].terminal > stream[k][b].terminal

LEMMA CallFits ==
  ASSUME NEW m, NEW c, IsCall(c, m)
  PROVE  /\ m \in Nat /\ Queries(c) = 1..m /\ SourceAction(c) \in 1..m
<1>1. m \in Nat /\ Queries(c) = 1..m /\ c.hull \in [1..m -> Int]
  BY DEF IsCall, Queries
<1>e. 1..m # {} /\ 1..m \in SUBSET (1..m)
  <2>1. 1 \in 1..m
    BY DEF IsCall
  <2> QED
    BY <2>1
<1>2. SourceMarginAction(c, c.hull, 1..m) \in 1..m
  BY <1>1, <1>e, SourceIsEligible
<1> QED
  BY <1>1, <1>2 DEF SourceAction

\* What exceeds its lower bound pays.
LEMMA ExceedingPays ==
  ASSUME NEW m \in Nat, NEW stream, IsStream(stream, m), NEW a \in 1..m, NEW b \in 1..m,
         NEW comparisons, NEW radius \in Nat,
         LowerBoundExceeds(Differences(stream, a, b), comparisons, radius)
  PROVE  Pays(stream, a, b)
<1> DEFINE d == Differences(stream, a, b)
<1>1. /\ Cardinality(DOMAIN d) = BlockCount /\ SumOver(d) \in Int
      /\ SumOver(d) > 0 => Pays(stream, a, b)
  BY DifferencesFacts DEF Pays
<1>2. BlockCount \in Nat
  BY GateAssumption
<1> HIDE DEF d
<1>3. SumOver(d) > 0
  BY <1>1, <1>2, ExceedsIsPositive DEF d
<1> QED
  BY <1>1, <1>3

\* Every gate leaves the source action only for one that pays in a block.
Gated(c, stream, a) == a # SourceAction(c) => Pays(stream, a, SourceAction(c))

LEMMA SarrPays ==
  ASSUME NEW m, NEW c, IsCall(c, m), NEW stream, IsStream(stream, m)
  PROVE  SarrAction(c, stream) \in 1..m /\ Gated(c, stream, SarrAction(c, stream))
<1> DEFINE D == Improving(c, stream, 0)
<1>1. m \in Nat /\ Queries(c) = 1..m /\ SourceAction(c) \in 1..m
  BY CallFits
<1>2. D \in SUBSET (1..m)
  BY <1>1 DEF Improving
<1>3. \A a \in D : Pays(stream, a, SourceAction(c))
  BY <1>1, ExceedingPays DEF Improving
<1>4. SarrAction(c, stream) = IF D = {} THEN SourceAction(c) ELSE BestByScore(c, stream, D)
  BY DEF SarrAction, BestByScore
<1> HIDE DEF D
<1>5. D # {} => SarrAction(c, stream) \in D
  BY <1>2, <1>4, BestScoreIsEligible
<1> QED
  BY <1>1, <1>2, <1>3, <1>4, <1>5 DEF Gated

LEMMA DualPays ==
  ASSUME NEW m, NEW c, IsCall(c, m), NEW stream, IsStream(stream, m)
  PROVE  DualAction(c, stream) \in 1..m /\ Gated(c, stream, DualAction(c, stream))
<1> DEFINE D == DualFeasible(c, stream)
<1>1. m \in Nat /\ Queries(c) = 1..m /\ SourceAction(c) \in 1..m
  BY CallFits
<1>2. D \in SUBSET (1..m)
  BY <1>1 DEF DualFeasible
<1>3. \A a \in D : Pays(stream, a, SourceAction(c))
  BY <1>1, ExceedingPays DEF DualFeasible
<1>4. DualAction(c, stream) = IF D = {} THEN SourceAction(c) ELSE BestByScore(c, stream, D)
  BY DEF DualAction, BestByScore
<1> HIDE DEF D
<1>5. D # {} => DualAction(c, stream) \in D
  BY <1>2, <1>4, BestScoreIsEligible
<1> QED
  BY <1>1, <1>2, <1>3, <1>4, <1>5 DEF Gated

LEMMA ConformalPays ==
  ASSUME NEW m, NEW c, IsCall(c, m), NEW stream, IsStream(stream, m), NEW radius \in Nat,
         NEW a \in ConformalActions(c, stream, radius)
  PROVE  a \in 1..m /\ Gated(c, stream, a)
<1>1. m \in Nat /\ Queries(c) = 1..m /\ SourceAction(c) \in 1..m
  BY CallFits
<1>2. \A b \in Improving(c, stream, radius) : b \in 1..m /\ Pays(stream, b, SourceAction(c))
  BY <1>1, ExceedingPays DEF Improving
<1> QED
  BY <1>1, <1>2 DEF ConformalActions, Gated

LEMMA ScreenedIsAQuery ==
  ASSUME NEW m, NEW c, IsCall(c, m), NEW one, IsStream(one, m)
  PROVE  LET source == SourceAction(c) IN
         Screened(c, one, source, {a \in Queries(c) \ {source} : Advantage(one, a, source) > 0}) \in 1..m
<1> DEFINE source == SourceAction(c)
           D == {a \in Queries(c) \ {source} : Advantage(one, a, source) > 0}
           f == [a \in D |-> Advantage(one, a, source)]
           g == [a \in D |-> c.rank[a]]
<1>1. m \in Nat /\ Queries(c) = 1..m /\ source \in 1..m
  BY CallFits
<1>2. D \in SUBSET (1..m)
  BY <1>1
<1>3. IsFiniteSet(D)
  BY <1>1, <1>2, FS_Interval, FS_Subset
<1>4. \A a \in D : Advantage(one, a, source) \in Int /\ c.rank[a] \in Int
  <2> TAKE a \in D
  <2>1. a \in 1..m
    BY <1>2
  <2>2. Score(one, a) \in Int /\ Score(one, source) \in Int
    BY <1>1, <2>1, ScoreIsInt
  <2> QED
    BY <2>1, <2>2 DEF Advantage, IsCall
<1>5. f \in [D -> Int] /\ g \in [D -> Int]
  BY <1>4
<1> HIDE DEF D
<1>s. Screened(c, one, source, D) =
        IF D = {} THEN source ELSE BestById(c, D, LAMBDA a : Advantage(one, a, source))
  BY DEF Screened
<1>b. BestById(c, D, LAMBDA a : Advantage(one, a, source)) = Best(D, f, g)
  BY DEF BestById, Best
<1> HIDE DEF f, g
<1>6. Screened(c, one, source, D) = IF D = {} THEN source ELSE Best(D, f, g)
  BY <1>s, <1>b
<1>7. D # {} => Best(D, f, g) \in D
  BY <1>3, <1>5, BestIs
<1>8. Screened(c, one, source, D) \in 1..m
  BY <1>1, <1>2, <1>6, <1>7
<1> QED
  BY <1>8 DEF D

LEMMA ConfirmedPays ==
  ASSUME NEW m, NEW c, IsCall(c, m), NEW draws, \A stream \in draws : IsStream(stream, m),
         NEW a \in ConfirmedActions(c, draws)
  PROVE  a \in 1..m /\ \E stream \in draws : Gated(c, stream, a)
<1> DEFINE source == SourceAction(c)
           stage(one) == StageOne(c, one, source, SarrAction(c, one))
           verdicts == [b \in Queries(c) |-> {LowerBoundExceeds(Differences(two, b, source), 1, 0) : two \in draws}]
<1>1. m \in Nat /\ Queries(c) = 1..m /\ source \in 1..m
  BY CallFits
<1>2. ConfirmedActions(c, draws) = Confirmed(source, {stage(one) : one \in draws}, verdicts)
  BY DEF ConfirmedActions, ConfirmedFrom
<1>3. ASSUME NEW one \in draws
      PROVE  /\ stage(one).chosen = SarrAction(c, one) /\ stage(one).chosen \in 1..m
             /\ Gated(c, one, stage(one).chosen) /\ stage(one).screened \in 1..m
  <2>1. stage(one).chosen = SarrAction(c, one)
    BY DEF StageOne
  <2>2. SarrAction(c, one) \in 1..m /\ Gated(c, one, SarrAction(c, one))
    BY SarrPays
  <2>3. stage(one).screened \in 1..m
    BY ScreenedIsAQuery DEF StageOne
  <2> QED
    BY <2>1, <2>2, <2>3
<1>4. \A b \in 1..m : TRUE \in verdicts[b] =>
        \E two \in draws : LowerBoundExceeds(Differences(two, b, source), 1, 0) = TRUE
  BY <1>1
<1> HIDE DEF stage, verdicts
<1>5. \/ \E one \in draws : a = stage(one).chosen
      \/ \E one \in draws : a = stage(one).screened /\ TRUE \in verdicts[stage(one).screened]
  BY <1>2 DEF Confirmed
<1>6. CASE \E one \in draws : a = stage(one).chosen
  BY <1>3, <1>6
<1>7. CASE \E one \in draws : a = stage(one).screened /\ TRUE \in verdicts[stage(one).screened]
  <2>1. PICK one \in draws : a = stage(one).screened /\ TRUE \in verdicts[a]
    BY <1>7
  <2>2. a \in 1..m
    BY <1>3, <2>1
  <2>3. PICK two \in draws : LowerBoundExceeds(Differences(two, a, source), 1, 0)
    BY <1>4, <2>1, <2>2
  <2>4. Pays(two, a, source)
    BY <1>1, <2>2, <2>3, ExceedingPays
  <2> QED
    BY <2>2, <2>4 DEF Gated
<1> QED
  BY <1>5, <1>6, <1>7

-------------------------------------------------------------------------------
(* What pays in a block pays in a sample.                                    *)

LEMMA MembersAreQueries ==
  ASSUME NEW m \in Nat, NEW xs, DOMAIN xs = 1..m, NEW es, NEW references, NEW S
  PROVE  /\ IsFiniteSet(S \intersect Membership(xs, es, references))
         /\ Cardinality(S \intersect Membership(xs, es, references)) \in Nat
<1>1. S \intersect Membership(xs, es, references) \in SUBSET (1..m)
  BY DEF Membership
<1>2. IsFiniteSet(1..m)
  BY FS_Interval
<1>3. IsFiniteSet(S \intersect Membership(xs, es, references))
  BY <1>1, <1>2, FS_Subset
<1> QED
  BY <1>3, FS_CardinalityType

LEMMA RewardsAreCounts ==
  ASSUME NEW m, NEW c, IsCall(c, m), NEW sample
  PROVE  /\ DOMAIN Rewards(c, sample) = 1..m
         /\ \A a \in 1..m : Rewards(c, sample)[a].terminal \in Nat
<1>1. m \in Nat /\ Queries(c) = 1..m /\ DOMAIN c.xs = 1..m
  BY CallFits DEF IsCall
<1>2. DOMAIN Rewards(c, sample) = 1..m
  BY <1>1 DEF Rewards
<1>3. ASSUME NEW a \in 1..m
      PROVE  Rewards(c, sample)[a].terminal
               = Cardinality(SelectedBy(c, sample, a) \intersect Membership(c.xs, sample, c.references))
  BY <1>1 DEF Rewards
<1>4. PICK xs : xs = c.xs /\ DOMAIN xs = 1..m
  BY <1>1
<1>5. \A S : Cardinality(S \intersect Membership(xs, sample, c.references)) \in Nat
  BY <1>1, <1>4, MembersAreQueries
<1> QED
  BY <1>2, <1>3, <1>4, <1>5

\* In some sample the action finds more members than the other one.
PaysIn(c, samples, a, b) ==
  \E w \in samples : Rewards(c, w)[a].terminal > Rewards(c, w)[b].terminal

LEMMA StreamsAreOfSamples ==
  ASSUME NEW m, NEW c, IsCall(c, m), NEW samples, NEW stream \in Streams(c, samples)
  PROVE  /\ IsStream(stream, m)
         /\ \A a, b \in 1..m : Pays(stream, a, b) => PaysIn(c, samples, a, b)
<1>1. DOMAIN stream = 1..BlockCount
  BY DEF Streams
<1>2. ASSUME NEW k \in 1..BlockCount
      PROVE  \E v, w \in samples : \A a \in 1..m :
               /\ stream[k][a].terminal = Rewards(c, v)[a].terminal + Rewards(c, w)[a].terminal
               /\ Rewards(c, v)[a].terminal \in Nat /\ Rewards(c, w)[a].terminal \in Nat
  <2>1. PICK v \in samples, w \in samples : stream[k] = Sum2(Rewards(c, v), Rewards(c, w))
    BY DEF Streams, BlockSums, PairSums
  <2>2. DOMAIN Rewards(c, v) = 1..m
    BY RewardsAreCounts
  <2>3. \A a \in 1..m : Rewards(c, v)[a].terminal \in Nat /\ Rewards(c, w)[a].terminal \in Nat
    BY RewardsAreCounts
  <2>4. \A a \in 1..m : stream[k][a].terminal = Rewards(c, v)[a].terminal + Rewards(c, w)[a].terminal
    BY <2>1, <2>2 DEF Sum2
  <2> QED
    BY <2>3, <2>4
<1>3. IsStream(stream, m)
  BY <1>1, <1>2 DEF IsStream
<1>4. ASSUME NEW a \in 1..m, NEW b \in 1..m, Pays(stream, a, b)
      PROVE  PaysIn(c, samples, a, b)
  <2>1. PICK k \in 1..BlockCount : stream[k][a].terminal > stream[k][b].terminal
    BY <1>4 DEF Pays
  <2>2. PICK v \in samples, w \in samples : \A e \in 1..m :
               /\ stream[k][e].terminal = Rewards(c, v)[e].terminal + Rewards(c, w)[e].terminal
               /\ Rewards(c, v)[e].terminal \in Nat /\ Rewards(c, w)[e].terminal \in Nat
    BY <1>2
  <2>3. \/ Rewards(c, v)[a].terminal > Rewards(c, v)[b].terminal
        \/ Rewards(c, w)[a].terminal > Rewards(c, w)[b].terminal
    BY <2>1, <2>2
  <2> QED
    BY <2>3 DEF PaysIn
<1> QED
  BY <1>3, <1>4

\* The gated policies with common worlds select a query, and another one than
\* the source action only if that pays in a sample.
LEMMA PairedPoliciesPay ==
  ASSUME NEW p \in PairedPolicies, NEW m, NEW c, IsCall(c, m), NEW samples, NEW L,
         NEW a \in ActionsFrom(p, c, samples, L)
  PROVE  /\ a \in 1..m
         /\ system.supported /\ a # SourceAction(c) => PaysIn(c, samples, a, SourceAction(c))
<1>1. SourceAction(c) \in 1..m
  BY CallFits
<1>p. /\ p \notin {"random"} \union RidgePolicies
      /\ p \notin {"source_margin", "source_online_offset"} /\ p # "source_online_affine"
      /\ p \in HullPolicies /\ p \in RolloutPolicies /\ p \notin MarginPolicies
  BY DEF PairedPolicies, RidgePolicies, HullPolicies, RolloutPolicies, MarginPolicies
<1>q. /\ p # "delta_hull_anchored_rollout" /\ p # "protocol_hull_risk_reduction"
      /\ p # "cal_style_hull_entropy" /\ p # "protocol_hull_knowledge_gradient"
  BY DEF PairedPolicies
<1>2. CASE ~system.supported
  <2>1. ActionsFrom(p, c, samples, L) = {SourceAction(c)}
    BY <1>2, <1>p DEF ActionsFrom
  <2> QED
    BY <1>1, <1>2, <2>1
<1>3. CASE system.supported
  <2>1. ActionsFrom(p, c, samples, L) = RolloutActions(p, c, samples)
    BY <1>3, <1>p, <1>q DEF ActionsFrom, PosteriorActions
  <2>2. a \in RolloutActions(p, c, samples)
    BY <2>1
  <2>3. \/ a = SourceAction(c)
        \/ \E stream \in Streams(c, samples) : a = SarrAction(c, stream) \/ a = DualAction(c, stream)
        \/ \E stream \in Streams(c, samples), r \in Nat : a \in ConformalActions(c, stream, r)
        \/ a \in ConfirmedActions(c, Streams(c, samples))
    <3>1. CASE p = "source_rollout_delta_hull"
      BY <2>2, <3>1 DEF RolloutActions, StreamActions
    <3>2. CASE p = "constrained_dual_horizon_source_rollout"
      BY <2>2, <3>2 DEF RolloutActions, StreamActions
    <3>3. CASE p = "independent_confirmation_source_rollout"
      BY <2>2, <3>3 DEF RolloutActions, ConfirmedFromSamples
    <3>4. CASE p = "conformal_source_rollout_delta_hull"
      <4>1. a \in DeviateOnceActions(c, Streams(c, samples))
        BY <2>2, <3>4 DEF RolloutActions
      <4> QED
        BY <4>1, DispatchAssumption DEF DeviateOnceActions
    <3> QED
      BY <3>1, <3>2, <3>3, <3>4 DEF PairedPolicies
  <2>4. CASE a = SourceAction(c)
    BY <1>1, <2>4
  <2>5. CASE \E stream \in Streams(c, samples) : a = SarrAction(c, stream) \/ a = DualAction(c, stream)
    <3>1. PICK stream \in Streams(c, samples) : a = SarrAction(c, stream) \/ a = DualAction(c, stream)
      BY <2>5
    <3>2. IsStream(stream, m)
      BY StreamsAreOfSamples
    <3>3. a \in 1..m /\ Gated(c, stream, a)
      BY <3>1, <3>2, SarrPays, DualPays
    <3>4. Pays(stream, a, SourceAction(c)) => PaysIn(c, samples, a, SourceAction(c))
      BY <1>1, <3>3, StreamsAreOfSamples
    <3> QED
      BY <3>3, <3>4 DEF Gated
  <2>6. CASE \E stream \in Streams(c, samples), r \in Nat : a \in ConformalActions(c, stream, r)
    <3>1. PICK stream \in Streams(c, samples), r \in Nat : a \in ConformalActions(c, stream, r)
      BY <2>6
    <3>2. IsStream(stream, m)
      BY StreamsAreOfSamples
    <3>3. a \in 1..m /\ Gated(c, stream, a)
      BY <3>1, <3>2, ConformalPays
    <3>4. Pays(stream, a, SourceAction(c)) => PaysIn(c, samples, a, SourceAction(c))
      BY <1>1, <3>3, StreamsAreOfSamples
    <3> QED
      BY <3>3, <3>4 DEF Gated
  <2>7. CASE a \in ConfirmedActions(c, Streams(c, samples))
    <3>1. \A stream \in Streams(c, samples) : IsStream(stream, m)
      BY StreamsAreOfSamples
    <3>2. PICK stream \in Streams(c, samples) : a \in 1..m /\ Gated(c, stream, a)
      BY <2>7, <3>1, ConfirmedPays
    <3>3. Pays(stream, a, SourceAction(c)) => PaysIn(c, samples, a, SourceAction(c))
      BY <1>1, <3>2, StreamsAreOfSamples
    <3> QED
      BY <3>2, <3>3 DEF Gated
  <2> QED
    BY <2>3, <2>4, <2>5, <2>6, <2>7
<1> QED
  BY <1>2, <1>3

-------------------------------------------------------------------------------
(* The calls of a campaign.                                                  *)

\* The phases at the elements have no formation energy.
Grounded(phases, n) == \A i \in 1..n : phases[i].x \in Elements => phases[i].e = 0

LEMMA SequencesGrow ==
  ASSUME NEW S, NEW T, S \subseteq T, NEW s \in Seq(S)
  PROVE  s \in Seq(T)
<1>1. Len(s) \in Nat /\ s \in [1..Len(s) -> S]
  BY LenProperties
<1>2. s \in [1..Len(s) -> T]
  BY <1>1
<1> QED
  BY <1>1, <1>2, IntervalIsSeq

LEMMA SystemShape ==
  ASSUME NEW s \in Systems
  PROVE  /\ Len(s.xs) \in Nat /\ s.xs \in [1..Len(s.xs) -> Compositions] /\ DOMAIN s.xs = 1..Len(s.xs)
         /\ s.source \in [1..Len(s.xs) -> Int] /\ s.rank \in [1..Len(s.xs) -> Int] /\ s.budget \in Nat
         /\ \A w \in s.worlds : w \in [1..Len(s.xs) -> Int]
         /\ Len(s.references) \in Nat /\ Complete(s.references, Len(s.references))
         /\ Grounded(s.references, Len(s.references)) /\ IsFiniteSet(s.worlds)
         /\ \A k \in 1..Len(s.xs) : s.xs[k] \notin Elements
         /\ \A i, j \in 1..Len(s.xs) : s.rank[i] = s.rank[j] => i = j
<1>0. s.xs \in Seq(Compositions \ Elements)
  BY DispatchAssumption
<1>1. s.xs \in Seq(Compositions) /\ s.references \in Seq(PhaseRecord) /\ s.budget \in Nat
  <2>1. s.references \in Seq(PhaseRecord) /\ s.budget \in Nat
    BY DispatchAssumption DEF PhaseRecord
  <2>2. Compositions \ Elements \subseteq Compositions
    OBVIOUS
  <2>3. s.xs \in Seq(Compositions)
    BY <1>0, <2>2, SequencesGrow
  <2> QED
    BY <2>1, <2>3
<1>2. Len(s.xs) \in Nat /\ s.xs \in [1..Len(s.xs) -> Compositions]
  BY <1>1, LenProperties, ElementOfSeq
<1>3. /\ s.source \in [1..Len(s.xs) -> Int] /\ s.rank \in [1..Len(s.xs) -> Int]
      /\ \A w \in s.worlds : w \in [1..Len(s.xs) -> Int]
  BY DispatchAssumption
<1>4. Len(s.references) \in Nat /\ s.references \in [1..Len(s.references) -> PhaseRecord]
  BY <1>1, LenProperties, ElementOfSeq
<1>5. \E a, b \in 1..Len(s.references) : s.references[a].x = 0 /\ s.references[b].x = Grid
  <2>1. Elements \subseteq {s.references[i].x : i \in 1..Len(s.references)}
    BY DispatchAssumption
  <2> QED
    BY <2>1 DEF Elements
<1>6. DOMAIN s.xs = 1..Len(s.xs)
  BY <1>2
<1>7. \A k \in 1..Len(s.xs) : s.xs[k] \notin Elements
  <2>1. \A k \in 1..Len(s.xs) : s.xs[k] \in Compositions \ Elements
    BY <1>0, ElementOfSeq
  <2> QED
    BY <2>1
<1>8. Grounded(s.references, Len(s.references)) /\ IsFiniteSet(s.worlds)
  BY DispatchAssumption DEF Grounded
<1>9. \A i, j \in 1..Len(s.xs) : s.rank[i] = s.rank[j] => i = j
  <2>1. IsInjective(s.rank) /\ DOMAIN s.rank = 1..Len(s.xs)
    BY <1>3, DispatchAssumption
  <2> QED
    BY <2>1 DEF IsInjective
<1>10. Complete(s.references, Len(s.references))
  BY <1>4, <1>5 DEF Complete
<1> QED
  BY <1>1, <1>2, <1>3, <1>4, <1>6, <1>7, <1>8, <1>9, <1>10

\* The history q lists queries of the system.
IsHistory(q, s) == AnySeq(q) /\ \A k \in 1..Len(q) : q[k] \in 1..Len(s.xs)

LEMMA PhasesAreComplete ==
  ASSUME NEW s \in Systems, NEW q, IsHistory(q, s), NEW w \in s.worlds
  PROVE  \E n \in Nat : Complete(CausalPhases(s, q, w), n)
<1> DEFINE r == Len(s.references)
           n == Len(q)
           new == [k \in DOMAIN q |-> [x |-> s.xs[q[k]], e |-> w[q[k]]]]
<1>1. r \in Nat /\ s.references \in [1..r -> PhaseRecord]
  BY SystemShape DEF Complete
<1>2. n \in Nat /\ DOMAIN q = 1..n
  BY LenProperties DEF IsHistory, AnySeq
<1>3. \A k \in 1..n : s.xs[q[k]] \in Compositions /\ w[q[k]] \in Int
  BY SystemShape DEF IsHistory
<1>4. new \in [1..n -> PhaseRecord]
  BY <1>2, <1>3 DEF PhaseRecord
<1>5. PICK a \in 1..r, b \in 1..r : s.references[a].x = 0 /\ s.references[b].x = Grid
  BY SystemShape DEF Complete
<1>6. CausalPhases(s, q, w) = s.references \o new
  BY DEF CausalPhases
<1> HIDE DEF r, n, new
<1>7. /\ s.references \o new \in [1..(r + n) -> PhaseRecord]
      /\ \A i \in 1..r : (s.references \o new)[i] = s.references[i]
  <2>1. r \in Nat /\ n \in Nat /\ s.references \in [1..r -> PhaseRecord] /\ new \in [1..n -> PhaseRecord]
    BY <1>1, <1>2, <1>4
  <2>2. s.references \o new \in [1..(r + n) -> PhaseRecord]
    BY <2>1, JoinedSequence
  <2>3. \A i \in 1..r : (s.references \o new)[i] = s.references[i]
    BY <2>1, JoinedSequence
  <2> QED
    BY <2>2, <2>3
<1>8. a \in 1..(r + n) /\ b \in 1..(r + n) /\ r + n \in Nat
  BY <1>1, <1>2
<1>9. Complete(s.references \o new, r + n)
  BY <1>5, <1>7, <1>8 DEF Complete
<1> QED
  BY <1>6, <1>8, <1>9

LEMMA CurrentHullIsInt ==
  ASSUME NEW m \in Nat, NEW xs \in [1..m -> Compositions], NEW n \in Nat, NEW phases, Complete(phases, n)
  PROVE  CurrentHull(xs, phases) \in [1..m -> Int]
<1> DEFINE hull == [x \in Elements \union ToSet(xs) |-> HullOf(phases, x)]
           F(x) == [el \in Elements |-> Amount(el, x) * hull[el]]
<1>1. \A x \in Compositions : HullOf(phases, x) \in Int
  BY HullOfPhases
<1>2. Elements \subseteq Compositions /\ \A k \in 1..m : xs[k] \in Elements \union ToSet(xs)
  BY GeometryAssumption DEF Elements, Compositions, ToSet
<1>3. \A k \in 1..m : hull[xs[k]] \in Int
  BY <1>1, <1>2
<1>4. \A el \in Elements : hull[el] \in Int
  BY <1>1, <1>2
<1>5. CurrentHull(xs, phases) = HullAt(hull, xs)
  BY DEF CurrentHull
<1> HIDE DEF hull
<1>6. \A x \in Compositions, el \in Elements : Amount(el, x) \in Int
  BY GeometryAssumption DEF Compositions, Amount
<1>7. ASSUME NEW x \in Compositions
      PROVE  SumFunctionOnSet(F(x), Elements) \div Grid \in Int
  <2>1. F(x) \in [Elements -> Int]
    <3>1. \A el \in Elements : Amount(el, x) * hull[el] \in Int
      BY <1>4, <1>6
    <3> QED
      BY <3>1
  <2>2. SumFunctionOnSet(F(x), Elements) = F(x)[0] + F(x)[Grid]
    <3> HIDE DEF F
    <3> QED
      BY <2>1, ElementsSum
  <2>3. F(x)[0] \in Int /\ F(x)[Grid] \in Int
    BY <2>1 DEF Elements
  <2> HIDE DEF F
  <2> QED
    BY <2>2, <2>3, GeometryAssumption
<1>8. \A k \in 1..m : FormationHull(hull, xs[k]) \in Int
  <2> TAKE k \in 1..m
  <2>1. FormationHull(hull, xs[k]) = hull[xs[k]] - SumFunctionOnSet(F(xs[k]), Elements) \div Grid
    BY DEF FormationHull
  <2> HIDE DEF F
  <2> QED
    BY <1>3, <1>7, <2>1
<1>9. HullAt(hull, xs) = [k \in 1..m |-> FormationHull(hull, xs[k])]
  BY DEF HullAt
<1> QED
  BY <1>5, <1>8, <1>9

\* A round with queries left sends a call about them.
LEMMA CallsAreCalls ==
  ASSUME NEW s \in Systems, NEW q, IsHistory(q, s), NEW w \in s.worlds,
         (DOMAIN s.xs) \ ToSet(q) # {}
  PROVE  LET m == Cardinality((DOMAIN s.xs) \ ToSet(q)) IN
         /\ IsCall(CallAfter(s, q, w), m)
         /\ LeftAfter(s, q) \in [1..m -> (DOMAIN s.xs) \ ToSet(q)]
         /\ \A i, j \in 1..m : i < j => LeftAfter(s, q)[i] < LeftAfter(s, q)[j]
<1> DEFINE rest == (DOMAIN s.xs) \ ToSet(q)
           m == Cardinality(rest)
           left == LeftAfter(s, q)
           c == CallAfter(s, q, w)
           visible(f) == [k \in DOMAIN left |-> f[left[k]]]
<1>1. DOMAIN s.xs = 1..Len(s.xs) /\ Len(s.xs) \in Nat
  BY SystemShape
<1>2. rest \in SUBSET (1..Len(s.xs)) /\ rest # {}
  BY <1>1
<1>3. left = InOrder(rest)
  BY DEF LeftAfter
<1> HIDE DEF rest, left
<1>4. IsFiniteSet(rest) /\ rest \in SUBSET Int
  <2>1. IsFiniteSet(1..Len(s.xs))
    BY <1>1, FS_Interval
  <2>2. IsFiniteSet(rest)
    BY <1>2, <2>1, FS_Subset
  <2>3. \A k \in 1..Len(s.xs) : k \in Int
    BY <1>1
  <2> QED
    BY <1>2, <2>2, <2>3
<1>5. /\ m \in Nat /\ left \in [1..m -> rest]
      /\ \A i, j \in 1..m : i < j => left[i] < left[j]
  BY <1>3, <1>4, InOrderFacts
<1>6. m \in Nat \ {0}
  BY <1>2, <1>4, <1>5, FS_EmptySet
<1>7. DOMAIN left = 1..m
  BY <1>5
<1>8. \A k \in 1..m : left[k] \in 1..Len(s.xs)
  BY <1>2, <1>5
<1>9. visible(s.xs) \in [1..m -> Compositions]
  BY <1>7, <1>8, SystemShape
<1>10. visible(s.source) \in [1..m -> Int] /\ visible(s.rank) \in [1..m -> Int]
  BY <1>7, <1>8, SystemShape
<1>11. /\ c.xs = visible(s.xs) /\ c.source = visible(s.source) /\ c.rank = visible(s.rank)
       /\ c.hull = CurrentHull(visible(s.xs), CausalPhases(s, q, w))
  BY DEF CallAfter, CallWith, left
<1> HIDE DEF visible, m, c
<1>12. c.hull \in [1..m -> Int]
  <2>1. PICK n \in Nat : Complete(CausalPhases(s, q, w), n)
    BY PhasesAreComplete
  <2> QED
    BY <1>5, <1>9, <1>11, <2>1, CurrentHullIsInt
<1>13. Len(c.xs) = m
  BY <1>5, <1>9, <1>11, IntervalIsSeq
<1>14. IsCall(c, m)
  BY <1>6, <1>9, <1>10, <1>11, <1>12, <1>13 DEF IsCall
<1> QED
  BY <1>5, <1>14 DEF rest, m, left, c

\* The system stays, the answers are of one of its worlds, and what a gated
\* policy has selected are queries.
GateInvariant ==
  /\ system \in Systems /\ truth \in system.worlds /\ AnySeq(revealed)
  /\ policy = "undecided" => revealed = <<>>
  /\ policy \in PairedPolicies => IsHistory(revealed, system)

LEMMA EmptyHistory == \A s : IsHistory(<<>>, s) /\ AnySeq(<<>>)
  BY EmptyFacts DEF IsHistory

LEMMA GateInvariantHolds == GateSpec => []GateInvariant
<1>1. GateInit \/ Init => GateInvariant
  BY EmptyHistory DEF GateInit, Init, GateInvariant
<1>2. ASSUME GateInvariant, GateNext
      PROVE  GateInvariant'
  <2>1. system' = system /\ truth' = truth
    BY <1>2 DEF GateNext, Decide, Next, Respond, Crash
  <2>2. CASE Decide
    <3>1. revealed' = <<>> /\ revealed' = revealed
      BY <1>2, <2>2 DEF GateInvariant, Decide
    <3> QED
      BY <1>2, <2>1, <3>1, EmptyHistory DEF GateInvariant
  <2>3. CASE policy # "undecided" /\ Crash
    <3>1. revealed' = revealed /\ policy' = policy
      BY <2>3 DEF Crash
    <3> QED
      BY <1>2, <2>1, <3>1 DEF GateInvariant, IsHistory
  <2>4. CASE policy # "undecided" /\ Respond
    <3>1. PICK a \in Actions(policy, Call) : revealed' = Append(revealed, Left[a])
      BY <2>4 DEF Respond
    <3>2. policy' = policy
      BY <2>4 DEF Respond
    <3>3. /\ AnySeq(revealed') /\ Len(revealed') = Len(revealed) + 1 /\ Len(revealed) \in Nat
          /\ \A k \in 1..Len(revealed) : revealed'[k] = revealed[k]
          /\ revealed'[Len(revealed) + 1] = Left[a]
      BY <1>2, <3>1, AppendFacts DEF GateInvariant
    <3>4. ASSUME policy \in PairedPolicies
          PROVE  IsHistory(revealed', system)
      <4> DEFINE m == Cardinality((DOMAIN system.xs) \ ToSet(revealed))
      <4>1. IsHistory(revealed, system) /\ system \in Systems /\ truth \in system.worlds
        BY <1>2, <3>4 DEF GateInvariant
      <4>2. (DOMAIN system.xs) \ ToSet(revealed) # {}
        BY <2>4 DEF Respond, CanPay, Remaining
      <4>3. IsCall(Call, m) /\ Left \in [1..m -> (DOMAIN system.xs) \ ToSet(revealed)]
        BY <4>1, <4>2, CallsAreCalls DEF Call, Left
      <4>4. a \in 1..m
        <5> HIDE DEF m
        <5> QED
          BY <3>1, <3>4, <4>3, PairedPoliciesPay DEF Actions
      <4>5. Left[a] \in 1..Len(system.xs)
        BY <4>1, <4>3, <4>4, SystemShape
      <4>6. \A k \in 1..(Len(revealed) + 1) : k \in 1..Len(revealed) \/ k = Len(revealed) + 1
        BY <3>3
      <4> QED
        BY <3>3, <4>1, <4>5, <4>6 DEF IsHistory
    <3> QED
      BY <1>2, <2>1, <2>4, <3>2, <3>3, <3>4 DEF GateInvariant
  <2> QED
    BY <1>2, <2>2, <2>3, <2>4 DEF GateNext, Next
<1>3. GateInvariant /\ UNCHANGED vars => GateInvariant'
  BY DEF GateInvariant, IsHistory, vars
<1> QED
  BY <1>1, <1>2, <1>3, PTL DEF GateSpec

LEMMA DeviationsPay ==
  ASSUME GateInvariant, Respond, policy \in PairedPolicies, system.supported,
         NEW c, c = Call, NEW source, source = SourceAction(c), Last(revealed') # Left[source]
  PROVE  \E w \in Samples : \E a \in Queries(c) :
           Left[a] = Last(revealed') /\ Rewards(c, w)[a].terminal > Rewards(c, w)[source].terminal
<1> DEFINE m == Cardinality((DOMAIN system.xs) \ ToSet(revealed))
<1>1. PICK a \in Actions(policy, Call) : revealed' = Append(revealed, Left[a])
  BY DEF Respond
<1>2. Last(revealed') = Left[a]
  <2>1. Len(revealed') = Len(revealed) + 1 /\ revealed'[Len(revealed) + 1] = Left[a]
    BY <1>1, AppendFacts DEF GateInvariant
  <2> QED
    BY <2>1 DEF Last
<1>3. a # source
  BY <1>2
<1>4. IsHistory(revealed, system) /\ system \in Systems /\ truth \in system.worlds
  BY DEF GateInvariant
<1>5. (DOMAIN system.xs) \ ToSet(revealed) # {}
  BY DEF Respond, CanPay, Remaining
<1>6. IsCall(c, m)
  BY <1>4, <1>5, CallsAreCalls DEF Call
<1> HIDE DEF m
<1>7. a \in ActionsFrom(policy, c, Samples, Labelled(c, Samples))
  BY <1>1 DEF Actions
<1>8. a \in 1..m /\ PaysIn(c, Samples, a, source)
  BY <1>3, <1>6, <1>7, PairedPoliciesPay
<1>9. Queries(c) = 1..m
  BY <1>6, CallFits
<1> QED
  BY <1>2, <1>8, <1>9 DEF PaysIn

-------------------------------------------------------------------------------
(* The gate before a campaign.                                              *)

RoundsOf(p, s, w, Q) == UNION {{Append(q, k) : k \in Selections(p, s, q, w)} : q \in Q}

AreRounds(after, p, s, w) ==
  /\ after[0] = {<<>>} /\ Campaigns(p, s, w) = after[s.budget]
  /\ \A r \in 1..s.budget : after[r] = RoundsOf(p, s, w, after[r - 1])

LEMMA CampaignsByRounds ==
  ASSUME NEW p, NEW s, s.budget \in Nat, NEW w
  PROVE  \E after : AreRounds(after, p, s, w)
<1> DEFINE n == s.budget
           Steps(f, k) == f = [r \in 0..k |-> IF r = 0 THEN {<<>>} ELSE RoundsOf(p, s, w, f[r - 1])]
           after == CHOOSE f : Steps(f, n)
           P == {k \in Nat : \E f : Steps(f, k)}
<1>1. Campaigns(p, s, w) = after[n]
  BY DEF Campaigns, RoundsOf
<1>2. \A k \in Nat : k \in P
  <2>1. 0 \in P
    <3>1. Steps([r \in 0..0 |-> {<<>>}], 0)
      OBVIOUS
    <3> QED
      BY <3>1
  <2>2. ASSUME NEW k \in Nat, k \in P
        PROVE  k + 1 \in P
    <3>1. PICK f : Steps(f, k)
      BY <2>2
    <3> DEFINE h == [r \in 0..(k + 1) |-> IF r = k + 1 THEN RoundsOf(p, s, w, f[k]) ELSE f[r]]
    <3>2. ASSUME NEW r \in 0..(k + 1)
          PROVE  h[r] = IF r = 0 THEN {<<>>} ELSE RoundsOf(p, s, w, h[r - 1])
      <4>1. CASE r = k + 1
        <5>1. r # 0 /\ r - 1 = k /\ k \in 0..(k + 1) /\ k # k + 1
          BY <4>1
        <5> QED
          BY <4>1, <5>1
      <4>2. CASE r # k + 1
        <5>1. r \in 0..k
          BY <4>2
        <5>2. f[r] = IF r = 0 THEN {<<>>} ELSE RoundsOf(p, s, w, f[r - 1])
          BY <3>1, <5>1
        <5>3. r # 0 => r - 1 \in 0..(k + 1) /\ r - 1 # k + 1
          BY <5>1
        <5> QED
          BY <4>2, <5>2, <5>3
      <4> QED
        BY <4>1, <4>2
    <3>3. h = [r \in 0..(k + 1) |-> h[r]]
      OBVIOUS
    <3> HIDE DEF h
    <3>4. Steps(h, k + 1)
      BY <3>2, <3>3
    <3> QED
      BY <3>4
  <2> HIDE DEF P
  <2> QED
    BY <2>1, <2>2, NumberInduction
<1>3. Steps(after, n)
  <2>1. \E f : Steps(f, n)
    BY <1>2
  <2> HIDE DEF Steps
  <2> QED
    BY <2>1
<1> HIDE DEF after
<1>4. \A r \in 0..n : after[r] = IF r = 0 THEN {<<>>} ELSE RoundsOf(p, s, w, after[r - 1])
  BY <1>3
<1>5. 0 \in 0..n /\ \A r \in 1..n : r \in 0..n /\ r # 0
  OBVIOUS
<1>6. after[0] = {<<>>} /\ \A r \in 1..n : after[r] = RoundsOf(p, s, w, after[r - 1])
  BY <1>4, <1>5
<1>7. AreRounds(after, p, s, w)
  BY <1>1, <1>6 DEF AreRounds
<1> QED
  BY <1>7

\* A campaign spends its whole budget, and the source policy has only one.
LEMMA CampaignsSpendTheirBudget ==
  ASSUME NEW p, NEW s, s.budget \in Nat, NEW w
  PROVE  /\ \A q \in Campaigns(p, s, w) : AnySeq(q) /\ Len(q) = s.budget
         /\ p = "source_margin" => \E q : Campaigns(p, s, w) = {q}
<1> DEFINE n == s.budget
<1>0. PICK after : AreRounds(after, p, s, w)
  BY CampaignsByRounds
<1>1. /\ after[0] = {<<>>} /\ Campaigns(p, s, w) = after[n]
      /\ \A r \in 1..n : after[r] = RoundsOf(p, s, w, after[r - 1])
  BY <1>0 DEF AreRounds
<1>n. n \in Nat
  OBVIOUS
<1> HIDE DEF n
<1> DEFINE Spent(r) == \A q \in after[r] : AnySeq(q) /\ Len(q) = r
           Single(r) == p = "source_margin" => \E q : after[r] = {q}
           P == {r \in Nat : r <= n => Spent(r) /\ Single(r)}
<1>2. 0 \in P
  BY <1>1, EmptyFacts
<1>3. ASSUME NEW r \in Nat, r \in P
      PROVE  r + 1 \in P
  <2> HIDE DEF Spent, Single
  <2> SUFFICES ASSUME r + 1 <= n
               PROVE  Spent(r + 1) /\ Single(r + 1)
    OBVIOUS
  <2>0. r <= n /\ r + 1 \in 1..n /\ (r + 1) - 1 = r
    BY <1>n
  <2>1. Spent(r) /\ Single(r)
    BY <1>3, <2>0
  <2>2. after[r + 1] = RoundsOf(p, s, w, after[r])
    BY <1>1, <2>0
  <2>3. \A q \in after[r + 1] : \E o \in after[r] : \E k \in Selections(p, s, o, w) : q = Append(o, k)
    BY <2>2 DEF RoundsOf
  <2>4. Spent(r + 1)
    <3> SUFFICES ASSUME NEW q \in after[r + 1]
                 PROVE  AnySeq(q) /\ Len(q) = r + 1
      BY DEF Spent
    <3>1. PICK o \in after[r] : \E k \in Selections(p, s, o, w) : q = Append(o, k)
      BY <2>3
    <3>2. PICK k : q = Append(o, k)
      BY <3>1
    <3>3. AnySeq(o) /\ Len(o) = r
      BY <2>1, <3>1 DEF Spent
    <3>4. AnySeq(Append(o, k)) /\ Len(Append(o, k)) = Len(o) + 1
      BY <3>3, AppendFacts
    <3> QED
      BY <3>2, <3>3, <3>4
  <2>5. ASSUME p = "source_margin"
        PROVE  \E q : after[r + 1] = {q}
    <3>1. PICK o : after[r] = {o}
      BY <2>1, <2>5 DEF Single
    <3>2. PICK k : Selections(p, s, o, w) = {k}
      BY <2>5 DEF Selections, RoundActions
    <3>3. Append(o, k) \in after[r + 1]
      BY <2>2, <3>1, <3>2 DEF RoundsOf
    <3>4. \A q \in after[r + 1] : q = Append(o, k)
      BY <2>3, <3>1, <3>2
    <3>5. after[r + 1] = {Append(o, k)}
      BY <3>3, <3>4
    <3> QED
      BY <3>5
  <2> QED
    BY <2>4, <2>5 DEF Single
<1> HIDE DEF P
<1>4. n \in P
  BY <1>2, <1>3, <1>n, NumberInduction
<1>5. Spent(n) /\ Single(n)
  BY <1>4, <1>n DEF P
<1> QED
  BY <1>1, <1>5 DEF n

\* As many different elements as positions at most.
LEMMA ElementsAreAtMost ==
  ASSUME NEW q, AnySeq(q)
  PROVE  IsFiniteSet(ToSet(q)) /\ Cardinality(ToSet(q)) <= Len(q)
<1>0. PICK S : q \in Seq(S)
  BY DEF AnySeq
<1>1. Len(q) \in Nat /\ DOMAIN q = 1..Len(q)
  BY <1>0, LenProperties
<1>2. IsFiniteSet(1..Len(q)) /\ Cardinality(1..Len(q)) = Len(q)
  <2>1. PICK n \in Nat : n = Len(q)
    BY <1>1
  <2>2. IsFiniteSet(1..n) /\ Cardinality(1..n) = n
    BY FS_Interval
  <2> QED
    BY <2>1, <2>2
<1> DEFINE f == [k \in 1..Len(q) |-> q[k]]
<1>3. f \in Surjection(1..Len(q), ToSet(q))
  BY <1>1 DEF Surjection, ToSet
<1> HIDE DEF f
<1>4. IsFiniteSet(ToSet(q)) /\ Cardinality(ToSet(q)) <= Cardinality(1..Len(q))
  BY <1>2, <1>3, FS_Surjection
<1> QED
  BY <1>2, <1>4

LEMMA LesserIsOneOfTwo ==
  ASSUME NEW a \in Int, NEW b \in Int
  PROVE  Min({a, b}) \in {a, b}
<1>1. IsFiniteSet({a}) /\ {a, b} = {a} \union {b}
  BY FS_Singleton
<1>2. IsFiniteSet({a} \union {b})
  BY <1>1, FS_AddElement
<1>3. {a, b} \in SUBSET Int /\ {a, b} # {} /\ IsFiniteSet({a, b})
  BY <1>1, <1>2
<1> QED
  BY <1>3, LeastOf

\* A campaign finds no more members than it has paid for, nor than there are.
LEMMA CampaignsAreBounded ==
  ASSUME NEW p, NEW s \in Systems, NEW w, NEW q \in Campaigns(p, s, w)
  PROVE  /\ Value(s, q, w).terminal \in Nat
         /\ Value(s, q, w).terminal <= Min({s.budget, Cardinality(Membership(s.xs, w, s.references))})
<1> DEFINE M == Membership(s.xs, w, s.references)
           T == ToSet(q)
<1>1. s.budget \in Nat /\ Len(s.xs) \in Nat /\ DOMAIN s.xs = 1..Len(s.xs)
  BY SystemShape
<1>2. AnySeq(q) /\ Len(q) = s.budget
  BY <1>1, CampaignsSpendTheirBudget
<1>3. IsFiniteSet(T) /\ Cardinality(T) <= s.budget /\ Cardinality(T) \in Nat
  BY <1>2, ElementsAreAtMost, FS_CardinalityType
<1>4. PICK m, xs : m = Len(s.xs) /\ xs = s.xs /\ m \in Nat /\ DOMAIN xs = 1..m
  BY <1>1
<1>5. \A S : /\ IsFiniteSet(S \intersect Membership(xs, w, s.references))
             /\ Cardinality(S \intersect Membership(xs, w, s.references)) \in Nat
  BY <1>4, MembersAreQueries
<1>6. M \intersect M = M /\ M = Membership(xs, w, s.references)
  BY <1>4
<1>7. IsFiniteSet(M) /\ Cardinality(M) \in Nat /\ Cardinality(T \intersect M) \in Nat
  BY <1>5, <1>6
<1>8. Value(s, q, w).terminal = Cardinality(T \intersect M)
  BY DEF Value
<1> HIDE DEF M, T
<1>9. T \intersect M \in SUBSET M /\ T \intersect M \in SUBSET T
  OBVIOUS
<1>10. Cardinality(T \intersect M) <= Cardinality(M)
  BY <1>7, <1>9, FS_Subset
<1>11. Cardinality(T \intersect M) <= Cardinality(T)
  BY <1>3, <1>9, FS_Subset
<1>12. Min({s.budget, Cardinality(M)}) \in {s.budget, Cardinality(M)}
  <2>1. PICK a \in Nat, b \in Nat : a = s.budget /\ b = Cardinality(M)
    BY <1>1, <1>7
  <2>2. Min({a, b}) \in {a, b}
    BY LesserIsOneOfTwo
  <2> QED
    BY <2>1, <2>2
<1>13. Cardinality(T \intersect M) <= Min({s.budget, Cardinality(M)})
  BY <1>1, <1>3, <1>7, <1>10, <1>11, <1>12
<1> QED
  BY <1>7, <1>8, <1>13 DEF M

\* The gate starts a campaign of IC-SARR only if that finds more members than
\* the source campaign in one of the worlds.
LEMMA GateNeedsAWorld ==
  ASSUME NEW s \in Systems, NEW blocks \in [1..BlockCount -> BlockDifferences(s)], Gate(blocks) = IC
  PROVE  \E w \in s.worlds : \E d \in WorldDifferences(s, w) : d.terminal > 0
<1> DEFINE F == [b \in DOMAIN blocks |-> blocks[b].terminal]
           each == UNION {WorldDifferences(s, w) : w \in s.worlds}
<1>1. \A d \in each : d.terminal \in Int
  <2> SUFFICES ASSUME NEW w \in s.worlds, NEW d \in WorldDifferences(s, w)
               PROVE  d.terminal \in Int
    OBVIOUS
  <2>1. PICK i \in Campaigns(IC, s, w), b \in Campaigns("source_margin", s, w) :
          d.terminal = Value(s, i, w).terminal - Value(s, b, w).terminal
    BY DEF WorldDifferences
  <2>2. Value(s, i, w).terminal \in Nat /\ Value(s, b, w).terminal \in Nat
    BY CampaignsAreBounded
  <2> QED
    BY <2>1, <2>2
<1>2. \A k \in 1..BlockCount : \E d, e \in each : blocks[k].terminal = d.terminal + e.terminal
  BY DEF BlockDifferences, PairDifferences
<1> HIDE DEF each
<1>3. F \in [1..BlockCount -> Int] /\ DOMAIN F = 1..BlockCount
  <2>1. \A k \in 1..BlockCount : blocks[k].terminal \in Int
    BY <1>1, <1>2
  <2> QED
    BY <2>1
<1>4. BlockCount \in Nat /\ IsFiniteSet(1..BlockCount) /\ Cardinality(1..BlockCount) = BlockCount
  BY GateAssumption, FS_Interval
<1>5. IC # "source_margin"
  BY DEF IC
<1>6. LowerBoundExceeds(F, 2, 0)
  BY <1>5 DEF Gate
<1>7. \A k \in 1..BlockCount : F[k] = blocks[k].terminal
  OBVIOUS
<1> HIDE DEF F
<1>8. SumOver(F) = SumFunctionOnSet(F, 1..BlockCount) /\ SumOver(F) \in Int
  BY <1>3, <1>4, SumIsInt DEF SumOver
<1>9. SumOver(F) > 0
  <2>1. 0 \in Nat /\ Cardinality(DOMAIN F) \in Nat
    BY <1>3, <1>4
  <2> QED
    BY <1>6, <1>8, <2>1, ExceedsIsPositive
<1>10. PICK k \in 1..BlockCount : F[k] > 0
  BY <1>3, <1>4, <1>8, <1>9, SomeTermIsPositive
<1>11. PICK d \in each, e \in each : blocks[k].terminal = d.terminal + e.terminal
  BY <1>2
<1>12. d.terminal > 0 \/ e.terminal > 0
  BY <1>1, <1>7, <1>10, <1>11
<1> QED
  BY <1>12 DEF each

LEMMA CampaignsPay ==
  ASSUME NEW s \in Systems, NEW blocks \in [1..BlockCount -> BlockDifferences(s)], Gate(blocks) = IC
  PROVE  \E w \in s.worlds : \A q \in Campaigns("source_margin", s, w) :
           Value(s, q, w).terminal
             < Min({s.budget, Cardinality(Membership(s.xs, w, s.references))})
<1>1. PICK w \in s.worlds : \E d \in WorldDifferences(s, w) : d.terminal > 0
  BY GateNeedsAWorld
<1>d. PICK d \in WorldDifferences(s, w) : d.terminal > 0
  BY <1>1
<1> DEFINE most == Min({s.budget, Cardinality(Membership(s.xs, w, s.references))})
<1>2. PICK i \in Campaigns(IC, s, w), b \in Campaigns("source_margin", s, w) :
        d.terminal = Value(s, i, w).terminal - Value(s, b, w).terminal
  BY DEF WorldDifferences
<1>3. Value(s, i, w).terminal \in Nat /\ Value(s, i, w).terminal <= most
  BY CampaignsAreBounded
<1>4. Value(s, b, w).terminal \in Nat
  BY CampaignsAreBounded
<1>5. \A q \in Campaigns("source_margin", s, w) : q = b
  <2>1. s.budget \in Nat
    BY SystemShape
  <2>2. PICK o : Campaigns("source_margin", s, w) = {o}
    BY <2>1, CampaignsSpendTheirBudget
  <2> QED
    BY <2>2
<1>m. most \in Int
  <2>1. PICK m, xs : m = Len(s.xs) /\ xs = s.xs /\ m \in Nat /\ DOMAIN xs = 1..m
    BY SystemShape
  <2>2. \A S : Cardinality(S \intersect Membership(xs, w, s.references)) \in Nat
    BY <2>1, MembersAreQueries
  <2>3. PICK M : M = Membership(s.xs, w, s.references) /\ M \intersect M = M
    OBVIOUS
  <2>4. Cardinality(M) \in Nat /\ s.budget \in Nat
    BY <2>1, <2>2, <2>3, SystemShape
  <2>5. PICK a \in Nat, c \in Nat : a = s.budget /\ c = Cardinality(M)
    BY <2>4
  <2>6. Min({a, c}) \in {a, c}
    BY LesserIsOneOfTwo
  <2> QED
    BY <2>3, <2>5, <2>6
<1> HIDE DEF most
<1>6. Value(s, b, w).terminal < most
  BY <1>d, <1>2, <1>3, <1>4, <1>m
<1> QED
  BY <1>5, <1>6 DEF most

\* A gate leaves the source policy, for an action or for a whole campaign, only
\* where that finds more members in one of the sampled worlds.
THEOREM GatesPaySomewhere == GateSpec => DeviationsPaySomewhere
<1> DEFINE Action == (policy \in PairedPolicies /\ system.supported) =>
             \A c \in {Call} : \A source \in {SourceAction(c)} :
               Last(revealed') # Left[source] =>
                 \E w \in Samples : \E r \in {Rewards(c, w)}, a \in Queries(c) :
                   Left[a] = Last(revealed') /\ r[a].terminal > r[source].terminal
           Start == (policy = "undecided" /\ policy' = IC) =>
             (\E w \in system.worlds : \A q \in Campaigns("source_margin", system, w) :
                Value(system, q, w).terminal
                  < Min({system.budget, Cardinality(Membership(system.xs, w, system.references))}))
<1>1. ASSUME GateInvariant, GateNext
      PROVE  Action
  <2> SUFFICES ASSUME policy \in PairedPolicies, system.supported
               PROVE  Action
    OBVIOUS
  <2>1. policy # "undecided" /\ policy # "hull_ens"
    BY DEF PairedPolicies
  <2>2. Respond
    BY <1>1, <2>1 DEF GateNext, Decide, Next, Crash, Raises
  <2>3. ASSUME NEW c, c = Call, NEW source, source = SourceAction(c), Last(revealed') # Left[source]
        PROVE  \E w \in Samples : \E r \in {Rewards(c, w)}, a \in Queries(c) :
                 Left[a] = Last(revealed') /\ r[a].terminal > r[source].terminal
    <3>1. PICK w \in Samples, a \in Queries(c) :
            Left[a] = Last(revealed') /\ Rewards(c, w)[a].terminal > Rewards(c, w)[source].terminal
      BY <1>1, <2>2, <2>3, DeviationsPay
    <3> QED
      BY <3>1
  <2> QED
    BY <2>3
<1>2. ASSUME GateInvariant, GateNext
      PROVE  Start
  <2> SUFFICES ASSUME policy = "undecided", policy' = IC
               PROVE  \E w \in system.worlds : \A q \in Campaigns("source_margin", system, w) :
                        Value(system, q, w).terminal
                          < Min({system.budget, Cardinality(Membership(system.xs, w, system.references))})
    OBVIOUS
  <2>1. PICK blocks \in [1..BlockCount -> BlockDifferences(system)] : policy' = Gate(blocks)
    BY <1>2 DEF GateNext, Decide
  <2> QED
    <3>1. PICK s \in Systems : s = system
      BY <1>2 DEF GateInvariant
    <3>2. Gate(blocks) = IC /\ blocks \in [1..BlockCount -> BlockDifferences(s)]
      BY <2>1, <3>1
    <3>3. \E w \in s.worlds : \A q \in Campaigns("source_margin", s, w) :
            Value(s, q, w).terminal
              < Min({s.budget, Cardinality(Membership(s.xs, w, s.references))})
      BY <3>2, CampaignsPay
    <3> QED
      BY <3>1, <3>3
<1> HIDE DEF Action, Start
<1>3. GateSpec => [][Action]_vars
  BY <1>1, GateInvariantHolds, PTL DEF GateSpec
<1>4. GateSpec => [][Start]_vars
  BY <1>2, GateInvariantHolds, PTL DEF GateSpec
<1> QED
  BY <1>3, <1>4 DEF DeviationsPaySomewhere, DeviatesForSomeWorld, StartsForSomeWorld, Action, Start

-------------------------------------------------------------------------------
(* The diagrams of a call, whose references are grounded.                   *)

\* Over grounded phases the hull of an element is zero.
LEMMA GroundedHull ==
  ASSUME NEW n \in Nat, NEW p, Complete(p, n), Grounded(p, n), NEW x \in Elements
  PROVE  HullOf(p, x) = 0
<1> DEFINE xs == XsOf(p)
           e == EsOf(p)
<1>1. x \in Compositions /\ 0 \in Elements /\ Grid \in Elements /\ (x = 0 \/ x = Grid)
  BY GeometryAssumption DEF Elements, Compositions
<1>2. PICK a \in 1..n, b \in 1..n : Supports(xs, e, n, a, b, x)
  BY <1>1, HullOfPhases
<1>3. xs \in [1..n -> Compositions] /\ e \in [1..n -> Int]
  BY TableFacts
<1>4. /\ PhaseOf(xs, e, a) = p[a] /\ PhaseOf(xs, e, b) = p[b] /\ p[a] \in PhaseRecord /\ p[b] \in PhaseRecord
      /\ xs[a] = p[a].x /\ xs[b] = p[b].x
  BY TableFacts DEF Complete
<1>5. HullOf(p, x) = Chord(p[a], p[b], x)
  <2>1. HullOf(p, x) = Envelope(xs, e, x)
    BY <1>1, HullOfPhases
  <2>2. Envelope(xs, e, x) = Chord(PhaseOf(xs, e, a), PhaseOf(xs, e, b), x)
    BY <1>1, <1>2, <1>3, SupportIsLowest
  <2> QED
    BY <1>4, <2>1, <2>2
<1>6. p[a].x <= x /\ x <= p[b].x /\ p[a].x < p[b].x
  BY <1>2, <1>4 DEF Supports
<1>7. /\ x = p[a].x => Chord(p[a], p[b], x) = Scale * p[a].e
      /\ x = p[b].x => Chord(p[a], p[b], x) = Scale * p[b].e
  BY <1>1, <1>4, <1>6, ChordFacts
<1>8. p[a].x \in 0..Grid /\ p[b].x \in 0..Grid
  BY <1>4 DEF PhaseRecord, Compositions
<1>9. x = p[a].x \/ x = p[b].x
  BY <1>1, <1>6, <1>8, GeometryAssumption
<1>10. \A i \in 1..n : p[i].x = x => p[i].e = 0
  BY DEF Grounded
<1>11. Scale * 0 = 0
  BY GeometryAssumption
<1> QED
  BY <1>5, <1>7, <1>9, <1>10, <1>11

\* The current hull over grounded phases is the hull itself.
LEMMA CurrentHullIs ==
  ASSUME NEW m \in Nat, NEW xs \in [1..m -> Compositions], NEW n \in Nat, NEW p, Complete(p, n),
         Grounded(p, n)
  PROVE  CurrentHull(xs, p) = [k \in 1..m |-> HullOf(p, xs[k])]
<1> DEFINE hull == [x \in Elements \union ToSet(xs) |-> HullOf(p, x)]
           F(x) == [el \in Elements |-> Amount(el, x) * hull[el]]
<1>1. \A x \in Compositions : HullOf(p, x) \in Int
  BY HullOfPhases
<1>2. \A k \in 1..m : xs[k] \in Elements \union ToSet(xs)
  BY DEF ToSet
<1>3. \A k \in 1..m : hull[xs[k]] = HullOf(p, xs[k])
  BY <1>2
<1>4. \A el \in Elements : hull[el] = 0
  BY GroundedHull
<1>5. CurrentHull(xs, p) = HullAt(hull, xs)
  BY DEF CurrentHull
<1> HIDE DEF hull
<1>6. \A x \in Compositions, el \in Elements : Amount(el, x) \in Int
  BY GeometryAssumption DEF Compositions, Amount
<1>7. ASSUME NEW x \in Compositions
      PROVE  SumFunctionOnSet(F(x), Elements) \div Grid = 0
  <2>1. \A el \in Elements : F(x)[el] = 0
    BY <1>4, <1>6
  <2>2. F(x) \in [Elements -> Int]
    <3>1. \A el \in Elements : Amount(el, x) * hull[el] \in Int
      BY <1>4, <1>6
    <3> QED
      BY <3>1
  <2> HIDE DEF F
  <2>3. SumFunctionOnSet(F(x), Elements) = F(x)[0] + F(x)[Grid]
    BY <2>2, ElementsSum
  <2>4. SumFunctionOnSet(F(x), Elements) = 0
    BY <2>1, <2>3 DEF Elements
  <2> QED
    BY <2>4, GeometryAssumption
<1>8. \A k \in 1..m : FormationHull(hull, xs[k]) = HullOf(p, xs[k])
  <2> TAKE k \in 1..m
  <2>1. FormationHull(hull, xs[k]) = hull[xs[k]] - SumFunctionOnSet(F(xs[k]), Elements) \div Grid
    BY DEF FormationHull
  <2> HIDE DEF F
  <2>2. FormationHull(hull, xs[k]) = HullOf(p, xs[k]) - 0
    BY <1>3, <1>7, <2>1
  <2>3. HullOf(p, xs[k]) \in Int
    BY <1>1
  <2> QED
    BY <2>2, <2>3
<1>9. HullAt(hull, xs) = [k \in 1..m |-> FormationHull(hull, xs[k])]
  BY DEF HullAt
<1> QED
  BY <1>5, <1>8, <1>9

\* The envelope of all decompositions is the hull of the phase diagram.
LEMMA CompetingHullIs ==
  ASSUME NEW n \in Nat, NEW p, Complete(p, n), NEW x \in Compositions
  PROVE  CompetingHull(p, x) = HullOf(p, x)
<1>1. HullOf(p, x) = Envelope(XsOf(p), EsOf(p), x)
  BY HullOfPhases
<1>2. CompetingHull(p, x) = Envelope(XsOf(p), EsOf(p), x)
  BY DEF CompetingHull, Envelope, Lowest, XsOf, EsOf
<1> QED
  BY <1>1, <1>2

\* Some phases and those of the selected queries, in the order of o.
Extended(p, xs, w, o) == p \o [k \in DOMAIN o |-> [x |-> xs[o[k]], e |-> w[o[k]]]]

IsExtended(A, p, r, xs, w, o, n) ==
  /\ Complete(A, r + n) /\ \A i \in 1..r : A[i] = p[i]
  /\ \A k \in 1..n : A[r + k] = [x |-> xs[o[k]], e |-> w[o[k]]]

LEMMA ExtendedFacts ==
  ASSUME NEW r \in Nat, NEW p, Complete(p, r), NEW m \in Nat, NEW xs \in [1..m -> Compositions],
         NEW w \in [1..m -> Int], NEW n \in Nat, NEW o \in [1..n -> 1..m]
  PROVE  IsExtended(Extended(p, xs, w, o), p, r, xs, w, o, n)
<1> DEFINE new == [k \in DOMAIN o |-> [x |-> xs[o[k]], e |-> w[o[k]]]]
<1>1. p \in [1..r -> PhaseRecord]
  BY DEF Complete
<1>2. DOMAIN o = 1..n /\ \A k \in 1..n : xs[o[k]] \in Compositions /\ w[o[k]] \in Int
  OBVIOUS
<1>3. new \in [1..n -> PhaseRecord] /\ \A k \in 1..n : new[k] = [x |-> xs[o[k]], e |-> w[o[k]]]
  BY <1>2 DEF PhaseRecord
<1>4. Extended(p, xs, w, o) = p \o new
  BY DEF Extended
<1> HIDE DEF new
<1>5. /\ p \o new \in [1..(r + n) -> PhaseRecord]
      /\ \A i \in 1..r : (p \o new)[i] = p[i]
      /\ \A k \in 1..n : (p \o new)[r + k] = new[k]
  <2>1. p \o new \in [1..(r + n) -> PhaseRecord]
    BY <1>1, <1>3, JoinedSequence
  <2>2. \A i \in 1..r : (p \o new)[i] = p[i]
    BY <1>1, <1>3, JoinedSequence
  <2>3. \A k \in 1..n : (p \o new)[r + k] = new[k]
    BY <1>1, <1>3, JoinedSequence
  <2> QED
    BY <2>1, <2>2, <2>3
<1>6. PICK a \in 1..r, b \in 1..r : p[a].x = 0 /\ p[b].x = Grid
  BY DEF Complete
<1>7. a \in 1..(r + n) /\ b \in 1..(r + n)
  OBVIOUS
<1>8. Complete(p \o new, r + n)
  BY <1>5, <1>6, <1>7 DEF Complete
<1> QED
  BY <1>3, <1>4, <1>5, <1>8 DEF IsExtended

\* `A` lists these phases, both elements among them.
Made(A, Q) == \E n \in Nat : Complete(A, n) /\ {A[i] : i \in 1..n} = Q

\* The phases p and those of the queries of S.
PhasesWith(p, r, xs, w, S) == {p[i] : i \in 1..r} \union {[x |-> xs[k], e |-> w[k]] : k \in S}

LEMMA ExtendedIsMade ==
  ASSUME NEW r \in Nat, NEW p, Complete(p, r), NEW m \in Nat, NEW xs \in [1..m -> Compositions],
         NEW w \in [1..m -> Int], NEW n \in Nat, NEW o \in [1..n -> 1..m],
         NEW S, \A k \in 1..n : o[k] \in S, \A x \in S : \E k \in 1..n : x = o[k]
  PROVE  Made(Extended(p, xs, w, o), PhasesWith(p, r, xs, w, S))
<1> DEFINE A == Extended(p, xs, w, o)
<1>1. IsExtended(A, p, r, xs, w, o, n)
  BY ExtendedFacts
<1> HIDE DEF A
<1>2. /\ Complete(A, r + n) /\ \A i \in 1..r : A[i] = p[i]
      /\ \A k \in 1..n : A[r + k] = [x |-> xs[o[k]], e |-> w[o[k]]]
  BY <1>1 DEF IsExtended
<1>3. ASSUME NEW i \in 1..(r + n)
      PROVE  A[i] \in PhasesWith(p, r, xs, w, S)
  <2>1. CASE i <= r
    <3>1. i \in 1..r
      BY <2>1
    <3> QED
      BY <1>2, <3>1 DEF PhasesWith
  <2>2. CASE i > r
    <3>1. i - r \in 1..n /\ r + (i - r) = i
      BY <2>2
    <3>2. A[i] = [x |-> xs[o[i - r]], e |-> w[o[i - r]]] /\ o[i - r] \in S
      BY <1>2, <3>1
    <3> QED
      BY <3>2 DEF PhasesWith
  <2> QED
    BY <2>1, <2>2
<1>4. ASSUME NEW y \in PhasesWith(p, r, xs, w, S)
      PROVE  \E i \in 1..(r + n) : A[i] = y
  <2>1. CASE \E i \in 1..r : y = p[i]
    <3>1. PICK i \in 1..r : y = p[i]
      BY <2>1
    <3>2. i \in 1..(r + n)
      OBVIOUS
    <3> QED
      BY <1>2, <3>1, <3>2
  <2>2. CASE \E k \in S : y = [x |-> xs[k], e |-> w[k]]
    <3>0. PICK j \in S : y = [x |-> xs[j], e |-> w[j]]
      BY <2>2
    <3>1. PICK k \in 1..n : y = [x |-> xs[o[k]], e |-> w[o[k]]]
      BY <3>0
    <3>2. r + k \in 1..(r + n)
      OBVIOUS
    <3> QED
      BY <1>2, <3>1, <3>2
  <2> QED
    BY <2>1, <2>2 DEF PhasesWith
<1>5. {A[i] : i \in 1..(r + n)} = PhasesWith(p, r, xs, w, S)
  BY <1>3, <1>4
<1>6. r + n \in Nat
  OBVIOUS
<1>7. Made(A, PhasesWith(p, r, xs, w, S))
  BY <1>2, <1>5, <1>6 DEF Made
<1> QED
  BY <1>7 DEF A

\* The hull depends on which phases there are, not on their order.
LEMMA SamePhasesSameHull ==
  ASSUME NEW Q, NEW A, Made(A, Q), NEW B, Made(B, Q), NEW x \in Compositions
  PROVE  HullOf(A, x) = HullOf(B, x)
<1>1. PICK n \in Nat : Complete(A, n) /\ {A[i] : i \in 1..n} = Q
  BY DEF Made
<1>2. PICK l \in Nat : Complete(B, l) /\ {B[i] : i \in 1..l} = Q
  BY DEF Made
<1>3. \A i \in 1..n : \E j \in 1..l : A[i] = B[j]
  BY <1>1, <1>2
<1>4. \A i \in 1..l : \E j \in 1..n : B[i] = A[j]
  BY <1>1, <1>2
<1>5. HullOf(B, x) <= HullOf(A, x)
  BY <1>1, <1>2, <1>3, HullSinks
<1>6. HullOf(A, x) <= HullOf(B, x)
  BY <1>1, <1>2, <1>4, HullSinks
<1>7. HullOf(A, x) \in Int
  BY <1>1, HullOfPhases
<1>8. HullOf(B, x) \in Int
  BY <1>2, HullOfPhases
<1> QED
  BY <1>5, <1>6, <1>7, <1>8

-------------------------------------------------------------------------------
(* What a rollout continues with, and what the worker then selects.         *)

\* A round of a campaign: the hull sent is that of the references, which are
\* grounded, the queries are compounds, and some of them can be paid.
IsRound(c, m, r) ==
  /\ IsCall(c, m) /\ r \in Nat /\ Complete(c.references, r) /\ Grounded(c.references, r)
  /\ \A k \in 1..m : c.xs[k] \notin Elements
  /\ c.hull = CurrentHull(c.xs, c.references) /\ c.horizon \in 1..m

\* What a rollout continues with when S is selected, and what the worker selects
\* after the history q.
NextIn(c, w, S) ==
  SourceMarginAction(c, [a \in Queries(c) |-> CompetingHull(ActivePhases(c, w, S), c.xs[a])], Queries(c) \ S)
NextAfter(c, w, q) ==
  SourceMarginAction(c, CurrentHull(c.xs, CausalPhases(c, q, w)), Queries(c) \ ToSet(q))

\* The queries of a call, selected in this order.
Picks(q, m) == AnySeq(q) /\ \A k \in 1..Len(q) : q[k] \in 1..m

LEMMA PicksFacts ==
  ASSUME NEW m \in Nat, NEW q, Picks(q, m)
  PROVE  /\ Len(q) \in Nat /\ q \in [1..Len(q) -> 1..m]
         /\ ToSet(q) \in SUBSET (1..m) /\ \A x \in ToSet(q) : \E k \in 1..Len(q) : x = q[k]
         /\ \A k \in 1..Len(q) : q[k] \in ToSet(q)
         /\ IsFiniteSet(ToSet(q)) /\ ToSet(q) \in SUBSET Int
<1>1. Len(q) \in Nat /\ DOMAIN q = 1..Len(q) /\ q = [k \in 1..Len(q) |-> q[k]]
  BY LenProperties DEF Picks, AnySeq
<1>2. q \in [1..Len(q) -> 1..m]
  BY <1>1 DEF Picks
<1>3. /\ ToSet(q) \in SUBSET (1..m) /\ \A x \in ToSet(q) : \E k \in 1..Len(q) : x = q[k]
      /\ \A k \in 1..Len(q) : q[k] \in ToSet(q)
  BY <1>1, <1>2 DEF ToSet
<1>4. IsFiniteSet(ToSet(q))
  BY ElementsAreAtMost DEF Picks
<1> QED
  BY <1>1, <1>2, <1>3, <1>4

\* The hull at the queries, by the envelope and by the diagram.
LEMMA NextsAgree ==
  ASSUME NEW m, NEW r, NEW c, IsRound(c, m, r), NEW w \in [1..m -> Int], NEW q, Picks(q, m)
  PROVE  NextAfter(c, w, q) = NextIn(c, w, ToSet(q))
<1> DEFINE S == ToSet(q)
           A == Extended(c.references, c.xs, w, InOrder(S))
           B == Extended(c.references, c.xs, w, q)
<1>1. /\ m \in Nat /\ r \in Nat /\ Complete(c.references, r) /\ Grounded(c.references, r)
      /\ c.xs \in [1..m -> Compositions] /\ Queries(c) = 1..m /\ DOMAIN c.xs = 1..m
      /\ \A k \in 1..m : c.xs[k] \notin Elements
  BY CallFits DEF IsRound, IsCall
<1>2. /\ Len(q) \in Nat /\ q \in [1..Len(q) -> 1..m] /\ S \in SUBSET (1..m)
      /\ \A x \in S : \E k \in 1..Len(q) : x = q[k]
      /\ \A k \in 1..Len(q) : q[k] \in S
      /\ IsFiniteSet(S) /\ S \in SUBSET Int
  BY <1>1, PicksFacts
<1>3. ActivePhases(c, w, S) = A /\ CausalPhases(c, q, w) = B
  BY DEF ActivePhases, CausalPhases, Extended
<1> HIDE DEF S
<1> DEFINE n == Cardinality(S)
           o == InOrder(S)
<1>4. /\ n \in Nat /\ o \in [1..n -> S]
      /\ \A x \in S : \E i \in 1..n : o[i] = x
  BY <1>2, InOrderFacts
<1>5. o \in [1..n -> 1..m]
  BY <1>2, <1>4
<1>8. A = Extended(c.references, c.xs, w, o)
  OBVIOUS
<1> HIDE DEF n, o, A, B
<1>9. IsExtended(A, c.references, r, c.xs, w, o, n)
  BY <1>1, <1>4, <1>5, <1>8, ExtendedFacts
<1>10. IsExtended(B, c.references, r, c.xs, w, q, Len(q))
  BY <1>1, <1>2, ExtendedFacts DEF B
<1>11. Complete(A, r + n) /\ Complete(B, r + Len(q)) /\ r + n \in Nat /\ r + Len(q) \in Nat
  BY <1>1, <1>2, <1>4, <1>9, <1>10 DEF IsExtended
<1>12. ASSUME NEW x \in Compositions
       PROVE  HullOf(A, x) = HullOf(B, x)
  <2>1. PICK p : p = c.references
    OBVIOUS
  <2>2. PICK xs : xs = c.xs
    OBVIOUS
  <2>3. PICK l \in Nat : l = Len(q)
    BY <1>2
  <2> DEFINE Q == PhasesWith(p, r, xs, w, S)
  <2>4. m \in Nat /\ r \in Nat /\ Complete(p, r) /\ xs \in [1..m -> Compositions]
    BY <1>1, <2>1, <2>2
  <2>5. A = Extended(p, xs, w, o) /\ B = Extended(p, xs, w, q)
    BY <1>8, <2>1, <2>2 DEF B
  <2>6. (\A k \in 1..n : o[k] \in S) /\ \A y \in S : \E k \in 1..n : y = o[k]
    BY <1>4
  <2>7. /\ q \in [1..l -> 1..m]
        /\ (\A k \in 1..l : q[k] \in S) /\ \A y \in S : \E k \in 1..l : y = q[k]
    BY <1>2, <2>3
  <2>8. Made(Extended(p, xs, w, o), PhasesWith(p, r, xs, w, S))
    BY <1>4, <1>5, <2>4, <2>6, ExtendedIsMade
  <2>9. Made(Extended(p, xs, w, q), PhasesWith(p, r, xs, w, S))
    BY <2>3, <2>4, <2>7, ExtendedIsMade
  <2>10. Made(A, Q) /\ Made(B, Q)
    BY <2>5, <2>8, <2>9
  <2> HIDE DEF Q
  <2> QED
    BY <2>10, SamePhasesSameHull
<1>13. Grounded(B, r + Len(q))
  <2> SUFFICES ASSUME NEW i \in 1..(r + Len(q)), B[i].x \in Elements
               PROVE  B[i].e = 0
    BY DEF Grounded
  <2>1. CASE i <= r
    <3>1. i \in 1..r
      BY <1>1, <2>1
    <3> QED
      BY <1>1, <1>10, <3>1 DEF IsExtended, Grounded
  <2>2. CASE i > r
    <3>1. i - r \in 1..Len(q) /\ r + (i - r) = i
      BY <1>1, <1>2, <2>2
    <3>2. B[i] = [x |-> c.xs[q[i - r]], e |-> w[q[i - r]]]
      BY <1>10, <3>1 DEF IsExtended
    <3>3. q[i - r] \in 1..m
      BY <1>2, <3>1
    <3> QED
      BY <1>1, <3>2, <3>3
  <2> QED
    BY <1>1, <1>2, <2>1, <2>2
<1>14. CurrentHull(c.xs, B) = [k \in 1..m |-> HullOf(B, c.xs[k])]
  <2>1. PICK N \in Nat : N = r + Len(q)
    BY <1>11
  <2>2. PICK p : p = B
    OBVIOUS
  <2>3. CurrentHull(c.xs, p) = [k \in 1..m |-> HullOf(p, c.xs[k])]
    BY <1>1, <1>11, <1>13, <2>1, <2>2, CurrentHullIs
  <2> QED
    BY <2>2, <2>3
<1>15. [a \in Queries(c) |-> CompetingHull(A, c.xs[a])] = [k \in 1..m |-> HullOf(B, c.xs[k])]
  <2>1. ASSUME NEW k \in 1..m
        PROVE  CompetingHull(A, c.xs[k]) = HullOf(B, c.xs[k])
    <3>1. c.xs[k] \in Compositions
      BY <1>1
    <3>2. CompetingHull(A, c.xs[k]) = HullOf(A, c.xs[k])
      BY <1>11, <3>1, CompetingHullIs
    <3> QED
      BY <1>12, <3>1, <3>2
  <2> QED
    BY <1>1, <2>1
<1> QED
  BY <1>3, <1>14, <1>15 DEF NextIn, NextAfter, S, A

\* The selection of a rollout, step by step.
Grown(c, w, S) == S \union {NextIn(c, w, S)}
IsGrowth(after, c, w, first) ==
  /\ after[0] = {first} /\ SelectedBy(c, w, first) = after[c.horizon - 1]
  /\ \A k \in 1..(c.horizon - 1) : after[k] = Grown(c, w, after[k - 1])

LEMMA GrowthExists ==
  ASSUME NEW c, c.horizon \in Nat \ {0}, NEW w, NEW first
  PROVE  \E after : IsGrowth(after, c, w, first)
<1> DEFINE n == c.horizon - 1
           Steps(f, k) == f = [r \in 0..k |-> IF r = 0 THEN {first} ELSE Grown(c, w, f[r - 1])]
           after == CHOOSE f : Steps(f, n)
           P == {k \in Nat : \E f : Steps(f, k)}
<1>1. SelectedBy(c, w, first) = after[n]
  BY DEF SelectedBy, Grown, NextIn
<1>2. \A k \in Nat : k \in P
  <2>1. 0 \in P
    <3>1. Steps([r \in 0..0 |-> {first}], 0)
      OBVIOUS
    <3> QED
      BY <3>1
  <2>2. ASSUME NEW k \in Nat, k \in P
        PROVE  k + 1 \in P
    <3>1. PICK f : Steps(f, k)
      BY <2>2
    <3> DEFINE h == [r \in 0..(k + 1) |-> IF r = k + 1 THEN Grown(c, w, f[k]) ELSE f[r]]
    <3>2. ASSUME NEW r \in 0..(k + 1)
          PROVE  h[r] = IF r = 0 THEN {first} ELSE Grown(c, w, h[r - 1])
      <4>1. CASE r = k + 1
        <5>1. r # 0 /\ r - 1 = k /\ k \in 0..(k + 1) /\ k # k + 1
          BY <4>1
        <5> QED
          BY <4>1, <5>1
      <4>2. CASE r # k + 1
        <5>1. r \in 0..k
          BY <4>2
        <5>2. f[r] = IF r = 0 THEN {first} ELSE Grown(c, w, f[r - 1])
          BY <3>1, <5>1
        <5>3. r # 0 => r - 1 \in 0..(k + 1) /\ r - 1 # k + 1
          BY <5>1
        <5> QED
          BY <4>2, <5>2, <5>3
      <4> QED
        BY <4>1, <4>2
    <3>3. h = [r \in 0..(k + 1) |-> h[r]]
      OBVIOUS
    <3> HIDE DEF h
    <3>4. Steps(h, k + 1)
      BY <3>2, <3>3
    <3> QED
      BY <3>4
  <2> HIDE DEF P
  <2> QED
    BY <2>1, <2>2, NumberInduction
<1>0. n \in Nat
  OBVIOUS
<1>3. Steps(after, n)
  <2>1. \E f : Steps(f, n)
    BY <1>0, <1>2
  <2> HIDE DEF Steps
  <2> QED
    BY <2>1
<1> HIDE DEF after, n
<1>4. \A r \in 0..n : after[r] = IF r = 0 THEN {first} ELSE Grown(c, w, after[r - 1])
  BY <1>3
<1>5. 0 \in 0..n /\ \A r \in 1..n : r \in 0..n /\ r # 0
  BY <1>0
<1>6. after[0] = {first} /\ \A r \in 1..n : after[r] = Grown(c, w, after[r - 1])
  BY <1>4, <1>5
<1>7. IsGrowth(after, c, w, first)
  BY <1>1, <1>6 DEF IsGrowth, n
<1> QED
  BY <1>7

\* The campaign of the deployed policy, round by round.
IsDeployment(after, c, w) ==
  /\ after[0] = <<>> /\ Deployed(c, w) = ToSet(after[c.horizon])
  /\ \A k \in 1..c.horizon : after[k] = Append(after[k - 1], NextAfter(c, w, after[k - 1]))

LEMMA DeploymentExists ==
  ASSUME NEW c, c.horizon \in Nat \ {0}, NEW w
  PROVE  \E after : IsDeployment(after, c, w)
<1> DEFINE n == c.horizon
           Then(q) == Append(q, NextAfter(c, w, q))
           Steps(f, k) == f = [r \in 0..k |-> IF r = 0 THEN <<>> ELSE Then(f[r - 1])]
           after == CHOOSE f : Steps(f, n)
           P == {k \in Nat : \E f : Steps(f, k)}
<1>1. Deployed(c, w) = ToSet(after[n])
  BY DEF Deployed, NextAfter
<1> HIDE DEF Then
<1>2. \A k \in Nat : k \in P
  <2>1. 0 \in P
    <3>1. Steps([r \in 0..0 |-> <<>>], 0)
      OBVIOUS
    <3> QED
      BY <3>1
  <2>2. ASSUME NEW k \in Nat, k \in P
        PROVE  k + 1 \in P
    <3>1. PICK f : Steps(f, k)
      BY <2>2
    <3> DEFINE h == [r \in 0..(k + 1) |-> IF r = k + 1 THEN Then(f[k]) ELSE f[r]]
    <3>2. ASSUME NEW r \in 0..(k + 1)
          PROVE  h[r] = IF r = 0 THEN <<>> ELSE Then(h[r - 1])
      <4>1. CASE r = k + 1
        <5>1. r # 0 /\ r - 1 = k /\ k \in 0..(k + 1) /\ k # k + 1
          BY <4>1
        <5> QED
          BY <4>1, <5>1
      <4>2. CASE r # k + 1
        <5>1. r \in 0..k
          BY <4>2
        <5>2. f[r] = IF r = 0 THEN <<>> ELSE Then(f[r - 1])
          BY <3>1, <5>1
        <5>3. r # 0 => r - 1 \in 0..(k + 1) /\ r - 1 # k + 1
          BY <5>1
        <5> QED
          BY <4>2, <5>2, <5>3
      <4> QED
        BY <4>1, <4>2
    <3>3. h = [r \in 0..(k + 1) |-> h[r]]
      OBVIOUS
    <3> HIDE DEF h
    <3>4. Steps(h, k + 1)
      BY <3>2, <3>3
    <3> QED
      BY <3>4
  <2> HIDE DEF P
  <2> QED
    BY <2>1, <2>2, NumberInduction
<1>3. Steps(after, n)
  <2>1. \E f : Steps(f, n)
    BY <1>2
  <2> HIDE DEF Steps
  <2> QED
    BY <2>1
<1>0. n \in Nat
  OBVIOUS
<1> HIDE DEF after, n
<1>4. \A r \in 0..n : after[r] = IF r = 0 THEN <<>> ELSE Then(after[r - 1])
  BY <1>3
<1>5. 0 \in 0..n /\ \A r \in 1..n : r \in 0..n /\ r # 0
  BY <1>0
<1>6. after[0] = <<>> /\ \A r \in 1..n : after[r] = Then(after[r - 1])
  BY <1>4, <1>5
<1>7. IsDeployment(after, c, w)
  BY <1>1, <1>6 DEF IsDeployment, n, Then
<1> QED
  BY <1>7

\* A rollout continues with a query that is not selected yet.
LEMMA NextIsEligible ==
  ASSUME NEW m, NEW r, NEW c, IsRound(c, m, r), NEW w \in [1..m -> Int],
         NEW S \in SUBSET (1..m), S # 1..m
  PROVE  NextIn(c, w, S) \in (1..m) \ S
<1> DEFINE A == ActivePhases(c, w, S)
           hull == [a \in Queries(c) |-> CompetingHull(A, c.xs[a])]
           n == Cardinality(S)
           o == InOrder(S)
<1>1. /\ m \in Nat /\ r \in Nat /\ Complete(c.references, r) /\ IsCall(c, m)
      /\ c.xs \in [1..m -> Compositions] /\ Queries(c) = 1..m
  BY CallFits DEF IsRound, IsCall
<1>2. IsFiniteSet(S) /\ S \in SUBSET Int
  <2>1. IsFiniteSet(1..m)
    BY <1>1, FirstNumbers
  <2>2. \A k \in 1..m : k \in Int
    BY <1>1
  <2>3. IsFiniteSet(S)
    BY <2>1, FS_Subset
  <2> QED
    BY <2>2, <2>3
<1>3. n \in Nat /\ o \in [1..n -> S]
  BY <1>2, InOrderFacts
<1>4. o \in [1..n -> 1..m]
  BY <1>3
<1>5. A = Extended(c.references, c.xs, w, o)
  BY DEF ActivePhases, Extended
<1> HIDE DEF A, n, o
<1>6. IsExtended(A, c.references, r, c.xs, w, o, n)
  BY <1>1, <1>3, <1>4, <1>5, ExtendedFacts
<1>7. Complete(A, r + n) /\ r + n \in Nat
  BY <1>1, <1>3, <1>6 DEF IsExtended
<1>8. ASSUME NEW k \in 1..m
      PROVE  CompetingHull(A, c.xs[k]) \in Int
  <2>1. c.xs[k] \in Compositions
    BY <1>1
  <2>2. CompetingHull(A, c.xs[k]) = HullOf(A, c.xs[k])
    BY <1>7, <2>1, CompetingHullIs
  <2>3. HullOf(A, c.xs[k]) \in Int
    BY <1>7, <2>1, HullOfPhases
  <2> QED
    BY <2>2, <2>3
<1>9. hull \in [1..m -> Int]
  BY <1>1, <1>8
<1>10. NextIn(c, w, S) = SourceMarginAction(c, hull, (1..m) \ S)
  BY <1>1 DEF NextIn, A
<1> HIDE DEF hull
<1>11. (1..m) \ S \in SUBSET (1..m) /\ (1..m) \ S # {}
  OBVIOUS
<1>12. SourceMarginAction(c, hull, (1..m) \ S) \in (1..m) \ S
  BY <1>1, <1>9, <1>11, SourceIsEligible
<1> QED
  BY <1>10, <1>12

\* What a rollout has selected after k more queries.
LEMMA GrowthFacts ==
  ASSUME NEW m, NEW r, NEW c, IsRound(c, m, r), NEW w \in [1..m -> Int], NEW first \in 1..m,
         NEW after, IsGrowth(after, c, w, first)
  PROVE  \A k \in 0..(c.horizon - 1) :
           after[k] \in SUBSET (1..m) /\ IsFiniteSet(after[k]) /\ Cardinality(after[k]) <= k + 1
<1> DEFINE n == c.horizon - 1
           Q(k) == after[k] \in SUBSET (1..m) /\ IsFiniteSet(after[k]) /\ Cardinality(after[k]) <= k + 1
           P == {k \in Nat : k <= n => Q(k)}
<1>1. m \in Nat /\ n \in Nat /\ n < m
  <2>1. c.horizon \in 1..m /\ m \in Nat
    BY DEF IsRound, IsCall
  <2> QED
    BY <2>1
<1>2. after[0] = {first} /\ \A k \in 1..n : after[k] = Grown(c, w, after[k - 1])
  BY DEF IsGrowth
<1> HIDE DEF n
<1>3. 0 \in P
  <2>1. IsFiniteSet({first}) /\ Cardinality({first}) = 1
    BY FS_Singleton
  <2>2. PICK S : S = after[0]
    OBVIOUS
  <2>3. S = {first} /\ S \in SUBSET (1..m)
    BY <1>2, <2>2
  <2>4. Q(0)
    BY <2>1, <2>2, <2>3
  <2> QED
    BY <2>4
<1>4. ASSUME NEW k \in Nat, k \in P
      PROVE  k + 1 \in P
  <2> SUFFICES ASSUME k + 1 <= n
               PROVE  Q(k + 1)
    OBVIOUS
  <2>1. Q(k) /\ k + 1 \in 1..n /\ (k + 1) - 1 = k
    BY <1>1, <1>4
  <2>2. PICK S : S = after[k]
    OBVIOUS
  <2>3. S \in SUBSET (1..m) /\ IsFiniteSet(S) /\ Cardinality(S) <= k + 1
    BY <2>1, <2>2
  <2>4. S # 1..m
    <3>1. Cardinality(1..m) = m
      BY <1>1, FirstNumbers
    <3> QED
      BY <1>1, <2>3, <3>1
  <2>5. NextIn(c, w, S) \in (1..m) \ S
    BY <2>3, <2>4, NextIsEligible
  <2>6. PICK x : x = NextIn(c, w, S)
    OBVIOUS
  <2>7. after[k + 1] = S \union {x}
    BY <1>2, <2>1, <2>2, <2>6 DEF Grown
  <2>8. IsFiniteSet(S \union {x}) /\ Cardinality(S \union {x}) = Cardinality(S) + 1
    BY <2>3, <2>5, <2>6, FS_AddElement
  <2>9. Cardinality(S) \in Nat
    BY <2>3, FS_CardinalityType
  <2>10. Cardinality(S \union {x}) <= (k + 1) + 1
    BY <2>3, <2>8, <2>9
  <2>11. S \union {x} \in SUBSET (1..m)
    BY <2>3, <2>5, <2>6
  <2> QED
    BY <2>7, <2>8, <2>10, <2>11
<1> HIDE DEF P
<1>5. \A k \in Nat : k \in P
  BY <1>3, <1>4, NumberInduction
<1> HIDE DEF Q
<1>6. \A k \in 0..n : Q(k)
  BY <1>1, <1>5 DEF P
<1> QED
  BY <1>6 DEF Q, n

LEMMA SelectedAreQueries ==
  ASSUME NEW m, NEW r, NEW c, IsRound(c, m, r), NEW w \in [1..m -> Int], NEW first \in 1..m
  PROVE  SelectedBy(c, w, first) \in SUBSET (1..m)
<1>1. c.horizon \in Nat \ {0} /\ c.horizon - 1 \in 0..(c.horizon - 1)
  <2>1. m \in Nat \ {0} /\ c.horizon \in 1..m
    BY DEF IsRound, IsCall
  <2>2. PICK h \in Nat \ {0} : h = c.horizon
    BY <2>1
  <2>3. h - 1 \in 0..(h - 1)
    OBVIOUS
  <2> QED
    BY <2>2, <2>3
<1>2. PICK after : IsGrowth(after, c, w, first)
  BY <1>1, GrowthExists
<1>3. after[c.horizon - 1] \in SUBSET (1..m)
  BY <1>1, <1>2, GrowthFacts
<1> QED
  BY <1>2, <1>3 DEF IsGrowth

\* The worker begins with the source action.
LEMMA FirstIsSource ==
  ASSUME NEW m, NEW r, NEW c, IsRound(c, m, r), NEW w \in [1..m -> Int]
  PROVE  NextAfter(c, w, <<>>) = SourceAction(c)
<1> DEFINE A == Extended(c.references, c.xs, w, <<>>)
<1>1. /\ m \in Nat /\ r \in Nat /\ Complete(c.references, r) /\ c.xs \in [1..m -> Compositions]
      /\ c.hull = CurrentHull(c.xs, c.references)
  BY DEF IsRound, IsCall
<1>2. <<>> \in [1..0 -> 1..m] /\ 0 \in Nat
  OBVIOUS
<1>3. IsExtended(A, c.references, r, c.xs, w, <<>>, 0)
  BY <1>1, <1>2, ExtendedFacts
<1>4. CausalPhases(c, <<>>, w) = A
  BY DEF CausalPhases, Extended
<1> HIDE DEF A
<1>5. A \in [1..r -> PhaseRecord] /\ c.references \in [1..r -> PhaseRecord] /\ \A i \in 1..r : A[i] = c.references[i]
  BY <1>1, <1>3 DEF IsExtended, Complete
<1>6. A = c.references
  <2>1. PICK p : p = c.references
    OBVIOUS
  <2>2. A \in [1..r -> PhaseRecord] /\ p \in [1..r -> PhaseRecord] /\ \A i \in 1..r : A[i] = p[i]
    BY <1>5, <2>1
  <2>3. A = [i \in 1..r |-> A[i]] /\ p = [i \in 1..r |-> p[i]]
    BY <2>2
  <2>4. [i \in 1..r |-> A[i]] = [i \in 1..r |-> p[i]]
    BY <2>2
  <2>5. A = p
    BY <2>3, <2>4
  <2> QED
    BY <2>1, <2>5
<1>7. ToSet(<<>>) = {}
  BY DEF ToSet
<1>8. Queries(c) \ {} = Queries(c)
  OBVIOUS
<1> QED
  BY <1>1, <1>4, <1>6, <1>7, <1>8 DEF NextAfter, SourceAction

\* The simulated continuation of the source action is the deployed campaign.
LEMMA SimulatedSelection ==
  ASSUME NEW m, NEW r, NEW c, IsRound(c, m, r), NEW w \in [1..m -> Int]
  PROVE  SelectedBy(c, w, SourceAction(c)) = Deployed(c, w)
<1> DEFINE n == c.horizon
           source == SourceAction(c)
<1>1. n \in Nat \ {0} /\ m \in Nat /\ source \in 1..m
  <2>1. c.horizon \in 1..m /\ m \in Nat /\ IsCall(c, m)
    BY DEF IsRound, IsCall
  <2>2. source \in 1..m
    BY <2>1, CallFits
  <2> QED
    BY <2>1, <2>2
<1>2. PICK g : IsGrowth(g, c, w, source)
  BY <1>1, GrowthExists
<1>3. PICK d : IsDeployment(d, c, w)
  BY <1>1, DeploymentExists
<1>4. /\ g[0] = {source} /\ SelectedBy(c, w, source) = g[n - 1]
      /\ \A k \in 1..(n - 1) : g[k] = Grown(c, w, g[k - 1])
  BY <1>2 DEF IsGrowth
<1>5. /\ d[0] = <<>> /\ Deployed(c, w) = ToSet(d[n])
      /\ \A k \in 1..n : d[k] = Append(d[k - 1], NextAfter(c, w, d[k - 1]))
  BY <1>3 DEF IsDeployment
<1>6. \A k \in 0..(n - 1) : g[k] \in SUBSET (1..m)
  BY <1>1, <1>2, GrowthFacts
<1>7. NextAfter(c, w, <<>>) = source
  BY FirstIsSource
<1> HIDE DEF n, source
<1> DEFINE Q(k) == Picks(d[k + 1], m) /\ ToSet(d[k + 1]) = g[k]
           P == {k \in Nat : k <= n - 1 => Q(k)}
<1>8. ASSUME NEW k \in Nat, k <= n - 1, NEW q, q = d[k], AnySeq(q), \A i \in 1..Len(q) : q[i] \in 1..m,
             NEW x \in 1..m, x = NextAfter(c, w, q), ToSet(q) \union {x} = g[k]
      PROVE  Q(k)
  <2>1. k + 1 \in 1..n /\ (k + 1) - 1 = k
    BY <1>1, <1>8
  <2>2. d[k + 1] = Append(q, x)
    BY <1>5, <1>8, <2>1
  <2>3. /\ AnySeq(Append(q, x)) /\ Len(Append(q, x)) = Len(q) + 1 /\ Len(q) \in Nat
        /\ \A i \in 1..Len(q) : Append(q, x)[i] = q[i]
        /\ Append(q, x)[Len(q) + 1] = x
    BY <1>8, AppendFacts
  <2>4. PICK u : u = Append(q, x)
    OBVIOUS
  <2>5. PICK l \in Nat : l = Len(q)
    BY <2>3
  <2>6. /\ AnySeq(u) /\ Len(u) = l + 1 /\ \A i \in 1..l : u[i] = q[i]
        /\ u[l + 1] = x
    BY <2>3, <2>4, <2>5
  <2>7. \A i \in 1..(l + 1) : i \in 1..l \/ i = l + 1
    OBVIOUS
  <2>8. \A i \in 1..(l + 1) : u[i] \in 1..m
    BY <1>8, <2>5, <2>6, <2>7
  <2>9. Picks(u, m)
    BY <2>6, <2>8 DEF Picks
  <2>10. DOMAIN u = 1..(l + 1) /\ DOMAIN q = 1..l
    BY <1>8, <2>5, <2>6, LenProperties DEF AnySeq
  <2>11. ToSet(u) = ToSet(q) \union {x}
    <3>1. ToSet(u) = {u[i] : i \in 1..(l + 1)} /\ ToSet(q) = {q[i] : i \in 1..l}
      BY <2>10 DEF ToSet
    <3>2. \A i \in 1..l : i \in 1..(l + 1)
      OBVIOUS
    <3>3. l + 1 \in 1..(l + 1)
      OBVIOUS
    <3> QED
      BY <2>6, <2>7, <3>1, <3>2, <3>3
  <2> QED
    BY <1>8, <2>2, <2>4, <2>9, <2>11
<1>9. 0 \in P
  <2>1. 0 <= n - 1 /\ d[0] = <<>> /\ AnySeq(<<>>) /\ Len(<<>>) = 0
    BY <1>1, <1>5, EmptyFacts
  <2>2. ToSet(<<>>) \union {source} = g[0]
    BY <1>4 DEF ToSet
  <2>3. \A i \in 1..0 : <<>>[i] \in 1..m
    OBVIOUS
  <2>4. PICK q : q = <<>>
    OBVIOUS
  <2>5. Q(0)
    <3> HIDE DEF Q
    <3> QED
      BY <1>1, <1>7, <1>8, <2>1, <2>2, <2>3, <2>4
  <2> QED
    BY <2>5
<1>10. ASSUME NEW k \in Nat, k \in P
       PROVE  k + 1 \in P
  <2> SUFFICES ASSUME k + 1 <= n - 1
               PROVE  Q(k + 1)
    OBVIOUS
  <2>1. Picks(d[k + 1], m) /\ ToSet(d[k + 1]) = g[k]
    BY <1>1, <1>10
  <2>2. PICK q : q = d[k + 1]
    OBVIOUS
  <2>3. Picks(q, m) /\ ToSet(q) = g[k]
    BY <2>1, <2>2
  <2>4. k + 1 \in 1..(n - 1) /\ (k + 1) - 1 = k /\ k \in 0..(n - 1) /\ k + 1 \in 0..(n - 1)
    BY <1>1
  <2>5. g[k + 1] = g[k] \union {NextIn(c, w, g[k])}
    BY <1>4, <2>4 DEF Grown
  <2>6. NextAfter(c, w, q) = NextIn(c, w, g[k])
    BY <2>3, NextsAgree
  <2>7. PICK x : x = NextAfter(c, w, q)
    OBVIOUS
  <2>8. ToSet(q) \union {x} = g[k + 1]
    BY <2>3, <2>5, <2>6, <2>7
  <2>9. x \in 1..m
    BY <1>6, <2>4, <2>8
  <2>10. AnySeq(q) /\ \A i \in 1..Len(q) : q[i] \in 1..m
    BY <2>3 DEF Picks
  <2> HIDE DEF Q
  <2> QED
    BY <1>8, <2>2, <2>7, <2>8, <2>9, <2>10
<1> HIDE DEF P
<1>11. \A k \in Nat : k \in P
  BY <1>9, <1>10, NumberInduction
<1>12. n - 1 \in Nat /\ (n - 1) + 1 = n
  BY <1>1
<1>13. ToSet(d[n]) = g[n - 1]
  BY <1>11, <1>12 DEF P
<1> QED
  BY <1>4, <1>5, <1>13 DEF source

-------------------------------------------------------------------------------
(* Who is on the complete hull is on the hull of what is selected.          *)

\* Whoever stands for its composition on the hull is strictly below the line of
\* any entry before it and any entry behind it.
LEMMA StrictlyBelow ==
  ASSUME NEW n \in Nat, NEW t, IsTemplate(t, n), NEW e \in [1..n -> Int], NEW K \in 1..n, OnHull(t, e, K),
         NEW a \in 1..n, NEW b \in 1..n, t.xs[a] < t.xs[K], t.xs[K] < t.xs[b]
  PROVE  Cross(EntryPhase(t, e, a), EntryPhase(t, e, b), EntryPhase(t, e, K)) < 0
<1> DEFINE C == LowerChain(t, e)
           P(k) == EntryPhase(t, e, k)
<1>1. PICK m \in Nat \ {0, 1} : HullOfTemplate(t, e, n, C, m)
  BY ChainOfTemplate
<1>2. /\ C \in [1..m -> PhaseRecord]
      /\ C[1].x = 0 /\ C[m].x = Grid
      /\ \A i \in 1..m : \E k \in 1..n : C[i] = P(k) /\ k = Winner(t, e, C[i].x)
      /\ \A i, j \in 1..m : i < j => C[i].x < C[j].x
      /\ \A i \in 1..(m - 1), k \in 1..n : Cross(C[i], C[i + 1], P(k)) >= 0
      /\ \A i \in 2..(m - 1) : Cross(C[i - 1], C[i], C[i + 1]) > 0
  BY <1>1 DEF HullOfTemplate
<1>3. t.xs \in [1..n -> Compositions]
  BY DEF IsTemplate
<1>4. \A k \in 1..n : P(k) \in Point /\ P(k).x = t.xs[k] /\ P(k).x \in 0..Grid
  <2> TAKE k \in 1..n
  <2>1. t.xs[k] \in Compositions /\ e[k] \in Int
    BY <1>3
  <2>2. P(k) = [x |-> t.xs[k], e |-> e[k]]
    BY DEF EntryPhase
  <2> HIDE DEF P
  <2> QED
    BY <2>1, <2>2, PhaseIsPoint DEF Point, Compositions
<1>5. PICK p \in ToSet(C) : p.x = t.xs[K]
  BY DEF OnHull
<1>6. Winner(t, e, t.xs[K]) = K
  BY DEF OnHull
<1> HIDE DEF C, P
<1>7. PICK i \in 1..m : C[i] = p
  <2>1. DOMAIN C = 1..m
    BY <1>2
  <2> QED
    BY <1>5, <2>1 DEF ToSet
<1>8. C[i] = P(K)
  <2>1. PICK k \in 1..n : C[i] = P(k) /\ k = Winner(t, e, C[i].x)
    BY <1>2
  <2> QED
    BY <1>5, <1>6, <1>7, <2>1
<1>9. i # 1 /\ i # m
  <2>1. C[i].x = t.xs[K] /\ t.xs[a] \in 0..Grid /\ t.xs[b] \in 0..Grid /\ t.xs[K] \in 0..Grid /\ Grid \in Nat
    BY <1>4, <1>5, <1>7, GeometryAssumption
  <2>2. PICK y, z, v : y = t.xs[a] /\ z = t.xs[b] /\ v = t.xs[K]
    OBVIOUS
  <2>3. y \in 0..Grid /\ z \in 0..Grid /\ v \in 0..Grid /\ y < v /\ v < z
    BY <2>1, <2>2
  <2>4. v # 0 /\ v # Grid
    BY <2>1, <2>3
  <2>5. C[i].x # 0 /\ C[i].x # Grid
    BY <2>1, <2>2, <2>4
  <2> QED
    BY <1>2, <2>5
<1>10. i - 1 \in 1..m /\ i + 1 \in 1..m /\ i \in 2..(m - 1) /\ i - 1 \in 1..(m - 1) /\ i \in 1..(m - 1)
       /\ (i - 1) + 1 = i /\ i - 1 < i /\ i < i + 1
  BY <1>9
<1>11. PICK u \in Point, v \in Point, c \in Point, l \in Point, r \in Point :
         u = C[i - 1] /\ v = C[i + 1] /\ c = C[i] /\ l = P(a) /\ r = P(b)
  BY <1>2, <1>4, <1>10, PhaseIsPoint
<1>12. u.x < c.x /\ c.x < v.x /\ l.x < c.x /\ c.x < r.x
  <2>1. u.x < c.x /\ c.x < v.x
    BY <1>2, <1>10, <1>11
  <2>2. c.x = t.xs[K] /\ l.x = t.xs[a] /\ r.x = t.xs[b]
    BY <1>4, <1>5, <1>7, <1>11
  <2> QED
    BY <2>1, <2>2
<1>13. Cross(u, c, l) >= 0 /\ Cross(c, v, r) >= 0 /\ Cross(u, c, v) > 0
  BY <1>2, <1>10, <1>11
<1>14. Turn(l, c, u, c) >= 0
  <2>1. Cross(u, c, l) = Turn(l, c, u, c)
    BY TurnFacts
  <2> QED
    BY <1>13, <2>1
<1>15. Turn(u, c, c, v) > 0
  <2>1. Cross(u, c, v) = Turn(u, c, c, v)
    BY TurnFacts
  <2> QED
    BY <1>13, <2>1
<1>16. Turn(c, v, c, r) >= 0
  <2>1. Cross(c, v, r) = Turn(c, v, c, r)
    BY TurnFacts
  <2> QED
    BY <1>13, <2>1
<1>a. Turn(u, c, c, v) \in Int /\ Turn(u, c, c, r) \in Int /\ Turn(l, c, c, r) \in Int
  <2>1. Cross(u, c, v) \in Int /\ Cross(u, c, v) = Turn(u, c, c, v)
    BY TurnFacts
  <2>2. Cross(u, c, r) \in Int /\ Cross(u, c, r) = Turn(u, c, c, r)
    BY TurnFacts
  <2>3. Cross(l, c, r) \in Int /\ Cross(l, c, r) = Turn(l, c, c, r)
    BY TurnFacts
  <2> QED
    BY <2>1, <2>2, <2>3
<1>17. Turn(u, c, c, r) > 0
  <2>1. Turn(u, c, c, v) >= 0
    BY <1>15, <1>a
  <2> QED
    BY <1>12, <1>15, <1>16, <2>1, TurnsInOrder
<1>18. Turn(l, c, c, r) > 0
  <2>1. Turn(u, c, c, r) >= 0
    BY <1>17, <1>a
  <2> QED
    BY <1>12, <1>14, <1>17, <2>1, TurnsInOrder
<1>19. Cross(l, r, c) = 0 - Turn(l, c, l, r)
  BY TurnFacts
<1>20. Cross(l, c, r) = Turn(l, c, c, r) /\ Cross(l, c, r) = Turn(l, c, l, r)
  BY TurnFacts
<1>21. Cross(l, r, c) < 0
  BY <1>18, <1>19, <1>20, <1>a
<1> QED
  BY <1>8, <1>11, <1>21 DEF P

\* The entries of u are some of those of t, queries for queries; of the queries
\* of u the j-th is the o[j]-th of t.
Reduced(t, e, u, f, r, m, n, o) ==
  /\ t.references = r /\ IsTemplate(t, r + m) /\ e \in [1..(r + m) -> Int]
  /\ u.references = r /\ IsTemplate(u, r + n) /\ f \in [1..(r + n) -> Int]
  /\ o \in [1..n -> 1..m]
  /\ \A i \in 1..r : u.xs[i] = t.xs[i] /\ f[i] = e[i]
  /\ \A j \in 1..n : u.xs[r + j] = t.xs[r + o[j]] /\ f[r + j] = e[r + o[j]]

LEMMA TwinsOfReduced ==
  ASSUME NEW r \in Nat, NEW m \in Nat, NEW n \in Nat, NEW t, NEW e, NEW u, NEW f, NEW o,
         Reduced(t, e, u, f, r, m, n, o), NEW i \in 1..(r + n)
  PROVE  \E k \in 1..(r + m) : u.xs[i] = t.xs[k] /\ f[i] = e[k] /\ EntryPhase(u, f, i) = EntryPhase(t, e, k)
           /\ (i <= r => k = i)
<1>1. CASE i <= r
  <2>1. i \in 1..r /\ i \in 1..(r + m)
    BY <1>1
  <2>2. u.xs[i] = t.xs[i] /\ f[i] = e[i]
    BY <2>1 DEF Reduced
  <2> QED
    BY <2>1, <2>2 DEF EntryPhase
<1>2. CASE i > r
  <2>1. i - r \in 1..n /\ r + (i - r) = i
    BY <1>2
  <2>2. o[i - r] \in 1..m /\ u.xs[i] = t.xs[r + o[i - r]] /\ f[i] = e[r + o[i - r]]
    BY <2>1 DEF Reduced
  <2>3. r + o[i - r] \in 1..(r + m)
    BY <2>2
  <2> QED
    BY <1>2, <2>2, <2>3 DEF EntryPhase
<1> QED
  BY <1>1, <1>2

\* A query of u with the composition of the k-th entry of t is on the hull.
Represented(t, u, f, r, n, k) == \E j \in 1..n : u.xs[r + j] = t.xs[k] /\ OnHull(u, f, r + j)

\* Whoever is on the hull is on the hull of some of the phases that have a phase
\* like it, or another query of its composition is.
LEMMA HullOfReduced ==
  ASSUME NEW r \in Nat, NEW m \in Nat, NEW n \in Nat, NEW t, NEW e, NEW u, NEW f, NEW o,
         Reduced(t, e, u, f, r, m, n, o), NEW h \in 1..n, OnHull(t, e, r + o[h])
  PROVE  Represented(t, u, f, r, n, r + o[h])
<1> DEFINE N == r + m
           M == r + n
           K == r + o[h]
           x == t.xs[K]
<1>1. /\ IsTemplate(t, N) /\ e \in [1..N -> Int] /\ u.references = r /\ IsTemplate(u, M) /\ f \in [1..M -> Int]
      /\ o[h] \in 1..m /\ u.xs[r + h] = x /\ f[r + h] = e[K]
  BY DEF Reduced
<1>2. K \in 1..N /\ r + h \in 1..M /\ N \in Nat /\ M \in Nat /\ r + h > r
  BY <1>1
<1>3. \A i \in 1..M : \E k \in 1..N : u.xs[i] = t.xs[k] /\ f[i] = e[k] /\ EntryPhase(u, f, i) = EntryPhase(t, e, k)
         /\ (i <= r => k = i)
  BY TwinsOfReduced
<1>4. t.xs \in [1..N -> Compositions] /\ u.xs \in [1..M -> Compositions] /\ x \in Compositions /\ x \in Int
  BY <1>1, <1>2, PhaseIsPoint DEF IsTemplate
<1>5. Winner(t, e, x) = K
  BY DEF OnHull
<1> HIDE DEF N, M, K, x
<1>6. \E p \in ToSet(LowerChain(u, f)) : p.x = x
  <2> SUFFICES ASSUME ~(\E p \in ToSet(LowerChain(u, f)) : p.x = x)
               PROVE  FALSE
    OBVIOUS
  <2>1. PICK a \in 1..M, b \in 1..M : Supports(u.xs, f, M, a, b, x) /\ u.xs[a] < x /\ x < u.xs[b]
    BY <1>1, <1>2, <1>4, HullIsEnvelope
  <2>2. Cross(PhaseOf(u.xs, f, a), PhaseOf(u.xs, f, b), PhaseOf(u.xs, f, r + h)) >= 0
    BY <1>2, <2>1 DEF Supports
  <2>3. PICK A \in 1..N : u.xs[a] = t.xs[A] /\ EntryPhase(u, f, a) = EntryPhase(t, e, A)
    BY <1>3
  <2>4. PICK B \in 1..N : u.xs[b] = t.xs[B] /\ EntryPhase(u, f, b) = EntryPhase(t, e, B)
    BY <1>3
  <2>5. \A k : PhaseOf(u.xs, f, k) = EntryPhase(u, f, k)
    BY DEF PhaseOf, EntryPhase
  <2>6. EntryPhase(u, f, r + h) = EntryPhase(t, e, K)
    BY <1>1 DEF EntryPhase, x
  <2>7. Cross(EntryPhase(t, e, A), EntryPhase(t, e, B), EntryPhase(t, e, K)) >= 0
    BY <2>2, <2>3, <2>4, <2>5, <2>6
  <2>8. t.xs[A] < t.xs[K] /\ t.xs[K] < t.xs[B]
    BY <2>1, <2>3, <2>4 DEF x
  <2>9. OnHull(t, e, K)
    BY DEF K
  <2>10. Cross(EntryPhase(t, e, A), EntryPhase(t, e, B), EntryPhase(t, e, K)) < 0
    BY <1>1, <1>2, <2>8, <2>9, StrictlyBelow
  <2>11. PICK z : z = Cross(EntryPhase(t, e, A), EntryPhase(t, e, B), EntryPhase(t, e, K))
    OBVIOUS
  <2>12. z \in Int
    <3>1. \A k \in 1..N : EntryPhase(t, e, k) \in Point
      BY <1>1, <1>4, PhaseIsPoint DEF EntryPhase, Point
    <3>2. PICK l \in Point, v \in Point, w \in Point :
            l = EntryPhase(t, e, A) /\ v = EntryPhase(t, e, B) /\ w = EntryPhase(t, e, K)
      BY <1>2, <3>1
    <3>3. Cross(l, v, w) \in Int
      BY TurnFacts
    <3> QED
      BY <2>11, <3>2, <3>3
  <2> QED
    BY <2>7, <2>10, <2>11, <2>12
<1>7. PICK W : W = Winner(u, f, x)
  OBVIOUS
<1>8. /\ W \in 1..M /\ u.xs[W] = x
      /\ \A j \in 1..M : u.xs[j] = x => f[W] <= f[j]
  <2>1. \E i \in 1..M : u.xs[i] = x
    BY <1>1, <1>2
  <2>2. WinnersAreLowest(u, f, M)
    BY <1>1, <1>2, LowestWins
  <2> QED
    BY <1>7, <2>1, <2>2 DEF WinnersAreLowest
<1>9. W > r
  <2> SUFFICES ASSUME W <= r
               PROVE  FALSE
    BY <1>8, <1>2
  <2>1. PICK k \in 1..N : k = W /\ t.xs[k] = x /\ f[W] = e[k]
    BY <1>3, <1>8
  <2>2. e[K] <= e[k]
    <3>1. \E i \in 1..N : t.xs[i] = x
      BY <2>1
    <3>2. WinnersAreLowest(t, e, N)
      BY <1>1, <1>2, LowestWins
    <3>3. \A j \in 1..N : t.xs[j] = x => e[K] <= e[j]
      BY <1>5, <3>1, <3>2 DEF WinnersAreLowest
    <3> QED
      BY <2>1, <3>3
  <2>3. f[W] <= f[r + h]
    BY <1>1, <1>2, <1>8
  <2>4. f[W] \in Int /\ f[r + h] \in Int
    BY <1>1, <1>2, <1>8
  <2>5. f[W] = f[r + h]
    BY <1>1, <2>1, <2>2, <2>3, <2>4
  <2>6. r + h # W
    BY <1>2, <1>8
  <2>7. PICK g \in 1..M : g = r + h
    BY <1>2
  <2>8. NameBefore(u, W, g)
    BY <1>1, <1>2, <1>7, <1>8, <2>5, <2>6, <2>7, WinsAgainst
  <2>9. ~(W > u.references) /\ g > u.references
    BY <1>1, <1>2, <1>8, <2>7
  <2> QED
    BY <2>8, <2>9 DEF NameBefore
<1>10. W - r \in 1..n /\ r + (W - r) = W
  BY <1>8, <1>9 DEF M
<1>11. OnHull(u, f, W)
  BY <1>6, <1>7, <1>8 DEF OnHull
<1> QED
  BY <1>8, <1>10, <1>11 DEF x, K, Represented

NoneIsLost(xs, w, p, n, o, S) ==
  Cardinality(S \intersect Membership(xs, w, p))
    <= Cardinality(Membership([k \in 1..n |-> xs[o[k]]], [k \in 1..n |-> w[o[k]]], p))

\* Members of the whole hull that are selected are as many as members of the hull
\* of the selected ones, at most.
LEMMA MembersStayMembers ==
  ASSUME NEW r \in Nat, NEW p, Complete(p, r), NEW m \in Nat, NEW xs \in [1..m -> Compositions],
         NEW w \in [1..m -> Int], NEW n \in Nat, NEW o \in [1..n -> 1..m], NEW S,
         \A x \in S : \E k \in 1..n : x = o[k]
  PROVE  NoneIsLost(xs, w, p, n, o, S)
<1> DEFINE ys == [k \in 1..n |-> xs[o[k]]]
           v == [k \in 1..n |-> w[o[k]]]
           T == S \intersect Membership(xs, w, p)
           U == Membership(ys, v, p)
           t == CallTemplate(xs, p)
           e == CallEnergies(w, p)
           u == CallTemplate(ys, p)
           f == CallEnergies(v, p)
<1>1. /\ ys \in [1..n -> Compositions] /\ v \in [1..n -> Int]
      /\ \A k \in 1..n : ys[k] = xs[o[k]] /\ v[k] = w[o[k]]
  OBVIOUS
<1>2. /\ t.references = r /\ IsTemplate(t, r + m) /\ e \in [1..(r + m) -> Int]
      /\ \A i \in 1..r : t.xs[i] = p[i].x /\ e[i] = p[i].e
      /\ \A k \in 1..m : r + k \in 1..(r + m) /\ t.xs[r + k] = xs[k] /\ e[r + k] = w[k]
      /\ \A k \in 1..m : k \in Membership(xs, w, p) <=> OnHull(t, e, r + k)
  <2> HIDE DEF t, e
  <2> QED
    BY CallFacts DEF t, e
<1> HIDE DEF ys, v
<1>3. /\ u.references = r /\ IsTemplate(u, r + n) /\ f \in [1..(r + n) -> Int]
      /\ \A i \in 1..r : u.xs[i] = p[i].x /\ f[i] = p[i].e
      /\ \A k \in 1..n : r + k \in 1..(r + n) /\ u.xs[r + k] = ys[k] /\ f[r + k] = v[k]
      /\ \A k \in 1..n : k \in U <=> OnHull(u, f, r + k)
  <2> HIDE DEF u, f
  <2> QED
    BY <1>1, CallFacts DEF u, f
<1> HIDE DEF t, e, u, f
<1>4. Reduced(t, e, u, f, r, m, n, o)
  BY <1>1, <1>2, <1>3 DEF Reduced
<1>5. U \subseteq 1..n
  BY <1>1 DEF Membership
<1>6. \A k \in T : k \in S /\ k \in Membership(xs, w, p)
  OBVIOUS
<1> HIDE DEF T, U
<1>7. ASSUME NEW k \in T
      PROVE  \E j \in U : ys[j] = xs[k]
  <2>1. PICK h \in 1..n : k = o[h]
    BY <1>6
  <2>2. o[h] \in 1..m /\ OnHull(t, e, r + o[h])
    BY <1>2, <1>6, <2>1
  <2>3. PICK j \in 1..n : u.xs[r + j] = t.xs[r + o[h]] /\ OnHull(u, f, r + j)
    <3>1. Represented(t, u, f, r, n, r + o[h])
      BY <1>4, <2>2, HullOfReduced
    <3> QED
      BY <3>1 DEF Represented
  <2>4. j \in U
    BY <1>3, <2>3
  <2>5. u.xs[r + j] = ys[j] /\ t.xs[r + o[h]] = xs[k]
    BY <1>2, <1>3, <2>1, <2>2
  <2> QED
    BY <2>3, <2>4, <2>5
<1>8. ASSUME NEW k \in T, NEW l \in T, xs[k] = xs[l]
      PROVE  k = l
  <2>1. k \in 1..m /\ l \in 1..m
    BY <1>6 DEF Membership
  <2>2. OnHull(t, e, r + k) /\ OnHull(t, e, r + l)
    BY <1>2, <1>6, <2>1
  <2>3. Winner(t, e, xs[k]) = r + k /\ Winner(t, e, xs[l]) = r + l
    BY <1>2, <2>1, <2>2 DEF OnHull
  <2> QED
    BY <1>8, <2>1, <2>3
<1> DEFINE g == [k \in T |-> CHOOSE j \in U : ys[j] = xs[k]]
<1>9. \A k \in T : g[k] \in U /\ ys[g[k]] = xs[k]
  BY <1>7
<1> HIDE DEF g
<1>10. g \in Injection(T, U)
  <2>1. g = [k \in T |-> g[k]]
    BY DEF g
  <2>2. g \in [T -> U]
    BY <1>9, <2>1
  <2>3. \A k, l \in T : g[k] = g[l] => k = l
    BY <1>8, <1>9
  <2> QED
    BY <2>2, <2>3 DEF Injection, IsInjective
<1>11. IsFiniteSet(U)
  <2>1. IsFiniteSet(1..n)
    BY FirstNumbers
  <2> QED
    BY <1>5, <2>1, FS_Subset
<1>12. Cardinality(T) <= Cardinality(U)
  BY <1>10, <1>11, FS_Injection
<1> QED
  BY <1>12 DEF T, U, ys, v, NoneIsLost

-------------------------------------------------------------------------------
(* The rounds of a campaign.                                                *)

\* What a rollout selects that is on the complete hull is on the hull of what it
\* selects, for every first action.
LEMMA TerminalIsCausal ==
  ASSUME NEW m, NEW r, NEW c, IsRound(c, m, r), NEW w \in [1..m -> Int], NEW a \in 1..m
  PROVE  Rewards(c, w)[a].terminal <= Rewards(c, w)[a].causal
<1> DEFINE S == SelectedBy(c, w, a)
           o == InOrder(S)
           n == Cardinality(S)
<1>1. /\ m \in Nat /\ r \in Nat /\ Complete(c.references, r)
      /\ c.xs \in [1..m -> Compositions] /\ Queries(c) = 1..m
  BY CallFits DEF IsRound, IsCall
<1>2. Rewards(c, w)[a] =
        [terminal |-> Cardinality(S \intersect Membership(c.xs, w, c.references)),
         causal |-> Cardinality(Membership([k \in DOMAIN o |-> c.xs[o[k]]], [k \in DOMAIN o |-> w[o[k]]],
                                           c.references))]
  BY <1>1 DEF Rewards
<1>3. S \in SUBSET (1..m)
  BY SelectedAreQueries
<1> HIDE DEF S
<1>4. IsFiniteSet(S) /\ S \in SUBSET Int
  <2>1. IsFiniteSet(1..m)
    BY <1>1, FirstNumbers
  <2>2. \A k \in 1..m : k \in Int
    BY <1>1
  <2>3. IsFiniteSet(S)
    BY <1>3, <2>1, FS_Subset
  <2> QED
    BY <1>3, <2>2, <2>3
<1>5. n \in Nat /\ o \in [1..n -> S] /\ \A x \in S : \E i \in 1..n : o[i] = x
  BY <1>4, InOrderFacts
<1>6. DOMAIN o = 1..n /\ o \in [1..n -> 1..m]
  BY <1>3, <1>5
<1> HIDE DEF o, n
<1>7. PICK p, xs : p = c.references /\ xs = c.xs
  OBVIOUS
<1>8. \A x \in S : \E k \in 1..n : x = o[k]
  BY <1>5
<1>9. NoneIsLost(xs, w, p, n, o, S)
  BY <1>1, <1>5, <1>6, <1>7, <1>8, MembersStayMembers
<1> QED
  BY <1>2, <1>6, <1>7, <1>9 DEF NoneIsLost

\* The same for the history of a campaign.
LEMMA HistoryKeepsMembers ==
  ASSUME NEW s \in Systems, NEW q, IsHistory(q, s), NEW w \in s.worlds
  PROVE  Value(s, q, w).terminal <= Value(s, q, w).history
<1>1. /\ Len(s.xs) \in Nat /\ s.xs \in [1..Len(s.xs) -> Compositions] /\ w \in [1..Len(s.xs) -> Int]
      /\ Len(s.references) \in Nat /\ Complete(s.references, Len(s.references))
  BY SystemShape
<1>2. PICK m, r, p, xs : /\ m \in Nat /\ r \in Nat
                        /\ m = Len(s.xs) /\ r = Len(s.references) /\ p = s.references /\ xs = s.xs
  BY <1>1
<1>3. Picks(q, m)
  BY <1>2 DEF IsHistory, Picks
<1>4. PICK n \in Nat : n = Len(q)
  BY <1>3, PicksFacts
<1>5. q \in [1..n -> 1..m] /\ \A x \in ToSet(q) : \E k \in 1..n : x = q[k]
  <2>1. m \in Nat
    BY <1>2
  <2>2. q \in [1..n -> 1..m]
    BY <1>3, <1>4, <2>1, PicksFacts
  <2>3. \A x \in ToSet(q) : \E k \in 1..n : x = q[k]
    BY <1>3, <1>4, <2>1, PicksFacts
  <2> QED
    BY <2>2, <2>3
<1>6. DOMAIN q = 1..n
  BY <1>5
<1>7. PICK S : S = ToSet(q)
  OBVIOUS
<1>8. NoneIsLost(xs, w, p, n, q, S)
  BY <1>1, <1>2, <1>5, <1>7, MembersStayMembers
<1> QED
  BY <1>2, <1>6, <1>7, <1>8 DEF Value, NoneIsLost

\* What is left for a history, and what it can still pay for.
LEMMA LeftIsPayable ==
  ASSUME NEW s \in Systems, NEW q, IsHistory(q, s), Len(q) < s.budget,
         (DOMAIN s.xs) \ ToSet(q) # {}
  PROVE  LET m == Cardinality((DOMAIN s.xs) \ ToSet(q)) IN
         m \in Nat \ {0} /\ Min({s.budget - (Len(s.xs) - m), m}) \in 1..m
<1> DEFINE D == DOMAIN s.xs
           T == ToSet(q)
           rest == D \ T
           m == Cardinality(rest)
<1>1. D = 1..Len(s.xs) /\ Len(s.xs) \in Nat /\ s.budget \in Nat
  BY SystemShape
<1>2. IsFiniteSet(D) /\ Cardinality(D) = Len(s.xs)
  <2>1. IsFiniteSet(D)
    BY <1>1, FirstNumbers
  <2>2. Cardinality(D) = Len(s.xs)
    BY <1>1, FirstNumbers
  <2> QED
    BY <2>1, <2>2
<1>3. IsFiniteSet(T) /\ Cardinality(T) <= Len(q) /\ Len(q) \in Nat
  <2>1. IsFiniteSet(T) /\ Cardinality(T) <= Len(q)
    BY ElementsAreAtMost DEF IsHistory
  <2>2. Len(q) \in Nat
    BY LenProperties DEF IsHistory, AnySeq
  <2> QED
    BY <2>1, <2>2
<1> HIDE DEF D, T
<1>4. IsFiniteSet(rest) /\ m = Cardinality(D) - Cardinality(D \intersect T)
  BY <1>2, FS_Difference
<1>5. Cardinality(D \intersect T) <= Cardinality(T) /\ Cardinality(D \intersect T) \in Nat /\ Cardinality(T) \in Nat
  <2>1. D \intersect T \subseteq T
    OBVIOUS
  <2>2. IsFiniteSet(D \intersect T) /\ Cardinality(D \intersect T) <= Cardinality(T)
    BY <1>3, <2>1, FS_Subset
  <2> QED
    BY <1>3, <2>2, FS_CardinalityType
<1>6. rest # {}
  BY DEF D, T
<1> HIDE DEF rest
<1>7. m \in Nat \ {0}
  <2>1. m \in Nat
    BY <1>4, FS_CardinalityType
  <2>2. m # 0
    BY <1>4, <1>6, FS_EmptySet
  <2> QED
    BY <2>1, <2>2
<1>8. s.budget - (Len(s.xs) - m) \in Nat \ {0}
  BY <1>1, <1>2, <1>3, <1>4, <1>5, <1>7
<1>9. Min({s.budget - (Len(s.xs) - m), m}) \in 1..m
  <2>1. PICK b \in Nat \ {0} : b = s.budget - (Len(s.xs) - m)
    BY <1>8
  <2>2. {b, m} \in SUBSET Int /\ {b, m} # {}
    BY <1>7
  <2>3. IsFiniteSet({b, m})
    <3>1. IsFiniteSet({m})
      BY FS_Singleton
    <3>2. IsFiniteSet({m} \union {b})
      BY <3>1, FS_AddElement
    <3>3. {m} \union {b} = {b, m}
      OBVIOUS
    <3> QED
      BY <3>2, <3>3
  <2>4. Min({b, m}) \in {b, m} /\ \A x \in {b, m} : Min({b, m}) <= x
    BY <2>2, <2>3, LeastOf
  <2> QED
    BY <1>7, <2>1, <2>4
<1> QED
  BY <1>7, <1>9 DEF D, T, rest

\* The call of a round that can be paid, and its samples.
LEMMA RoundsAreRounds ==
  ASSUME NEW s \in Systems, NEW q, IsHistory(q, s), NEW w \in s.worlds, Len(q) < s.budget,
         (DOMAIN s.xs) \ ToSet(q) # {}
  PROVE  LET m == Cardinality((DOMAIN s.xs) \ ToSet(q)) IN
         /\ \E r : IsRound(CallAfter(s, q, w), m, r)
         /\ \A v \in SamplesAfter(s, q, w) : v \in [1..m -> Int]
<1> DEFINE rest == (DOMAIN s.xs) \ ToSet(q)
           m == Cardinality(rest)
           left == LeftAfter(s, q)
           c == CallAfter(s, q, w)
           p == CausalPhases(s, q, w)
           r == Len(s.references)
           n == Len(q)
<1>1. IsCall(c, m) /\ left \in [1..m -> rest]
  BY CallsAreCalls
<1>2. m \in Nat \ {0} /\ Min({s.budget - (Len(s.xs) - m), m}) \in 1..m
  BY LeftIsPayable
<1>3. DOMAIN left = 1..m /\ Len(left) = m
  <2>1. left \in [1..m -> rest] /\ m \in Nat
    BY <1>1, <1>2
  <2> HIDE DEF left, m, rest
  <2> QED
    BY <2>1, IntervalIsSeq
<1>4. \A k \in 1..m : left[k] \in 1..Len(s.xs)
  BY <1>1, SystemShape
<1>5. /\ c.xs = [k \in DOMAIN left |-> s.xs[left[k]]] /\ c.references = p
      /\ c.hull = CurrentHull([k \in DOMAIN left |-> s.xs[left[k]]], p)
      /\ c.horizon = Min({s.budget - (Len(s.xs) - Len(left)), Len(left)})
  BY DEF CallAfter, CallWith
<1> HIDE DEF left, m, rest, c
<1>6. c.hull = CurrentHull(c.xs, c.references)
  BY <1>5
<1>7. c.horizon \in 1..m
  BY <1>2, <1>3, <1>5
<1>8. \A k \in 1..m : c.xs[k] \notin Elements
  <2> TAKE k \in 1..m
  <2>1. c.xs[k] = s.xs[left[k]]
    BY <1>3, <1>5
  <2> QED
    BY <1>4, <2>1, SystemShape
<1>9. /\ Len(s.xs) \in Nat /\ s.xs \in [1..Len(s.xs) -> Compositions] /\ w \in [1..Len(s.xs) -> Int]
      /\ r \in Nat /\ Complete(s.references, r) /\ Grounded(s.references, r)
  BY SystemShape
<1>10. Picks(q, Len(s.xs))
  BY DEF IsHistory, Picks
<1>11. n \in Nat /\ q \in [1..n -> 1..Len(s.xs)]
  BY <1>9, <1>10, PicksFacts
<1>12. p = Extended(s.references, s.xs, w, q)
  BY DEF CausalPhases, Extended
<1> HIDE DEF p, r, n
<1>13. IsExtended(p, s.references, r, s.xs, w, q, n)
  <2>1. PICK R, xs, L : R = s.references /\ xs = s.xs /\ L = Len(s.xs)
    OBVIOUS
  <2>2. IsExtended(Extended(R, xs, w, q), R, r, xs, w, q, n)
    BY <1>9, <1>11, <2>1, ExtendedFacts
  <2> QED
    BY <1>12, <2>1, <2>2
<1>14. Complete(p, r + n) /\ r + n \in Nat
  BY <1>9, <1>11, <1>13 DEF IsExtended
<1>15. Grounded(p, r + n)
  <2> SUFFICES ASSUME NEW i \in 1..(r + n), p[i].x \in Elements
               PROVE  p[i].e = 0
    BY DEF Grounded
  <2>1. CASE i <= r
    <3>1. i \in 1..r
      BY <1>9, <2>1
    <3>2. p[i] = s.references[i]
      BY <1>13, <3>1 DEF IsExtended
    <3> QED
      BY <1>9, <3>1, <3>2 DEF Grounded
  <2>2. CASE i > r
    <3>1. i - r \in 1..n /\ r + (i - r) = i
      BY <1>9, <1>11, <2>2
    <3>2. p[i] = [x |-> s.xs[q[i - r]], e |-> w[q[i - r]]]
      BY <1>13, <3>1 DEF IsExtended
    <3>3. q[i - r] \in 1..Len(s.xs)
      BY <1>11, <3>1
    <3>4. s.xs[q[i - r]] \notin Elements
      BY <3>3, SystemShape
    <3> QED
      BY <3>2, <3>4
  <2> QED
    BY <1>9, <1>11, <2>1, <2>2
<1>16. IsRound(c, m, r + n)
  BY <1>1, <1>5, <1>6, <1>7, <1>8, <1>14, <1>15 DEF IsRound
<1>17. ASSUME NEW v \in SamplesAfter(s, q, w)
       PROVE  v \in [1..m -> Int]
  <2>1. PICK z \in s.worlds : v = VisibleAfter(s, q, z)
    BY DEF SamplesAfter
  <2>2. z \in [1..Len(s.xs) -> Int]
    BY SystemShape
  <2>3. v = [k \in 1..m |-> z[left[k]]]
    BY <1>3, <2>1 DEF VisibleAfter, left
  <2> QED
    BY <1>4, <2>2, <2>3
<1> QED
  BY <1>16, <1>17 DEF c, m, rest

-------------------------------------------------------------------------------
(* Every policy selects a query.                                            *)

\* The best of all the queries, for any score.
LEMMA BestQuery ==
  ASSUME NEW m, NEW c, IsCall(c, m), NEW D \in SUBSET (1..m), D # {}, NEW f \in [D -> Int]
  PROVE  Best(D, f, [a \in D |-> c.rank[a]]) \in D
<1> DEFINE g == [a \in D |-> c.rank[a]]
<1>1. m \in Nat /\ c.rank \in [1..m -> Int]
  BY DEF IsCall
<1>2. IsFiniteSet(1..m)
  BY <1>1, FirstNumbers
<1>3. IsFiniteSet(D)
  BY <1>2, FS_Subset
<1>4. \A a \in D : c.rank[a] \in Int
  BY <1>1
<1>5. g \in [D -> Int]
  BY <1>4
<1> HIDE DEF g
<1>6. Best(D, f, g) \in D
  BY <1>3, <1>5, BestIs
<1> QED
  BY <1>6 DEF g

\* What is believed in a call: finitely many samples, and one at least.
IsBelief(L, m) ==
  /\ IsFiniteSet(DOMAIN L) /\ DOMAIN L # {} /\ \A s \in DOMAIN L : s \in [1..m -> Int]
  /\ \A s \in DOMAIN L : L[s] \in SUBSET (1..m)

LEMMA VotesAreNat ==
  ASSUME NEW L, IsFiniteSet(DOMAIN L), NEW a
  PROVE  Votes(L, a) \in Nat
<1>1. {s \in DOMAIN L : a \in L[s]} \subseteq DOMAIN L
  OBVIOUS
<1>2. IsFiniteSet({s \in DOMAIN L : a \in L[s]})
  BY <1>1, FS_Subset
<1> QED
  BY <1>2, FS_CardinalityType DEF Votes

LEMMA LocalVotesAreNat ==
  ASSUME NEW L, IsFiniteSet(DOMAIN L), NEW c, NEW a
  PROVE  LocalVotes(c, L, a) \in Nat
<1>1. {s \in DOMAIN L : Scale * s[a] <= c.hull[a]} \subseteq DOMAIN L
  OBVIOUS
<1>2. IsFiniteSet({s \in DOMAIN L : Scale * s[a] <= c.hull[a]})
  BY <1>1, FS_Subset
<1> QED
  BY <1>2, FS_CardinalityType DEF LocalVotes

\* The sum of the sampled energies of a query.
LEMMA SampleSumIsInt ==
  ASSUME NEW m, NEW L, IsBelief(L, m), NEW a \in 1..m
  PROVE  SampleSum(L, a) \in Int
<1> DEFINE F == [s \in DOMAIN L |-> s[a]]
<1>1. \A s \in DOMAIN L : s[a] \in Int
  BY DEF IsBelief
<1>2. F \in [DOMAIN L -> Int] /\ DOMAIN F = DOMAIN L /\ IsFiniteSet(DOMAIN L)
  BY <1>1 DEF IsBelief
<1>3. SampleSum(L, a) = SumFunctionOnSet(F, DOMAIN F)
  BY DEF SampleSum, SumOver
<1> HIDE DEF F
<1>4. SumFunctionOnSet(F, DOMAIN L) \in Int
  BY <1>2, SumIsInt
<1> QED
  BY <1>2, <1>3, <1>4

LEMMA MeanMarginIsInt ==
  ASSUME NEW m, NEW c, IsCall(c, m), NEW L, IsBelief(L, m), NEW a \in 1..m
  PROVE  MeanMargin(c, L, a) \in Int
<1>1. Cardinality(DOMAIN L) \in Int
  BY FS_CardinalityType DEF IsBelief
<1>2. c.hull[a] \in Int /\ SampleSum(L, a) \in Int /\ Scale \in Int
  BY SampleSumIsInt, GeometryAssumption DEF IsCall
<1>3. PICK n \in Int, h \in Int, s \in Int : n = Cardinality(DOMAIN L) /\ h = c.hull[a] /\ s = SampleSum(L, a)
  BY <1>1, <1>2
<1>4. n * h - Scale * s \in Int
  BY <1>2
<1> QED
  BY <1>3, <1>4 DEF MeanMargin

LEMMA DeltaIsAQuery ==
  ASSUME NEW m, NEW c, IsCall(c, m), NEW L, IsBelief(L, m)
  PROVE  DeltaAction(c, L) \in 1..m
<1> DEFINE f == [a \in 1..m |-> Votes(L, a)]
<1>1. f \in [1..m -> Int]
  BY VotesAreNat DEF IsBelief
<1>2. Queries(c) = 1..m /\ 1..m # {}
  BY CallFits DEF IsCall
<1>3. DeltaAction(c, L) = Best(1..m, f, [a \in 1..m |-> c.rank[a]])
  BY <1>2 DEF DeltaAction, BestById, Best
<1> HIDE DEF f
<1> QED
  BY <1>1, <1>2, <1>3, BestQuery

LocalAction(c, L) == BestById(c, Queries(c), LAMBDA a : LocalVotes(c, L, a))

LEMMA LocalActionIsAQuery ==
  ASSUME NEW m, NEW c, IsCall(c, m), NEW L, IsBelief(L, m)
  PROVE  LocalAction(c, L) \in 1..m
<1> DEFINE f == [a \in 1..m |-> LocalVotes(c, L, a)]
<1>1. f \in [1..m -> Int]
  BY LocalVotesAreNat DEF IsBelief
<1>2. Queries(c) = 1..m /\ 1..m # {}
  BY CallFits DEF IsCall
<1>3. LocalAction(c, L) = Best(1..m, f, [a \in 1..m |-> c.rank[a]])
  BY <1>2 DEF LocalAction, BestById, Best
<1> HIDE DEF f
<1> QED
  BY <1>1, <1>2, <1>3, BestQuery

LEMMA BestVotesAreInt ==
  ASSUME NEW L, IsFiniteSet(DOMAIN L), NEW A, IsFiniteSet(A), NEW k \in Nat, k <= Cardinality(A)
  PROVE  BestVotes(L, A, k) \in Int
<1> DEFINE Counted(T) == SumOver([a \in T |-> Votes(L, a)])
           S == kSubset(k, A)
           f == [T \in S |-> Counted(T)]
<1>1. S = {T \in SUBSET A : Cardinality(T) = k}
  BY DEF kSubset
<1>2. S # {}
  BY <1>1, SubsetsOfSize
<1>3. ASSUME NEW T \in SUBSET A
      PROVE  Counted(T) \in Int
  <2> DEFINE F == [a \in T |-> Votes(L, a)]
  <2>1. F \in [T -> Int] /\ DOMAIN F = T
    BY VotesAreNat
  <2>2. IsFiniteSet(T)
    BY FS_Subset
  <2>3. Counted(T) = SumFunctionOnSet(F, DOMAIN F)
    BY DEF SumOver
  <2> HIDE DEF F
  <2> QED
    BY <2>1, <2>2, <2>3, SumIsInt
<1>4. IsFiniteSet(S)
  <2>1. IsFiniteSet(SUBSET A)
    BY FS_SUBSET
  <2>2. S \subseteq SUBSET A
    BY <1>1
  <2> QED
    BY <2>1, <2>2, FS_Subset
<1> HIDE DEF Counted
<1>5. f \in [S -> Int]
  BY <1>1, <1>3
<1>6. BestVotes(L, A, k) = Max({f[T] : T \in S})
  <2>1. \A T \in S : f[T] = SumOver([a \in T |-> Votes(L, a)])
    BY DEF Counted
  <2>2. {f[T] : T \in S} = {SumOver([a \in T |-> Votes(L, a)]) : T \in kSubset(k, A)}
    BY <2>1
  <2> QED
    BY <2>2 DEF BestVotes
<1> HIDE DEF f, S
<1> QED
  BY <1>2, <1>4, <1>5, <1>6, ExtremesOfFamily

\* A finite sum over a set that need not be numbers.
LEMMA SumOverIsInt ==
  ASSUME NEW D, IsFiniteSet(D), NEW F \in [D -> Int]
  PROVE  SumOver(F) \in Int
<1>1. DOMAIN F = D
  OBVIOUS
<1> QED
  BY <1>1, SumIsInt DEF SumOver

LEMMA UngatedIsAQuery ==
  ASSUME NEW m, NEW c, IsCall(c, m), NEW stream, IsStream(stream, m)
  PROVE  UngatedAction(c, stream) \in 1..m
<1> DEFINE f == [a \in 1..m |-> Score(stream, a)]
           g == [a \in 1..m |-> a]
<1>1. m \in Nat /\ Queries(c) = 1..m /\ 1..m # {}
  BY CallFits DEF IsCall
<1>2. f \in [1..m -> Int]
  BY <1>1, ScoreIsInt
<1>3. g \in [1..m -> Int]
  BY <1>1
<1>4. IsFiniteSet(1..m)
  BY <1>1, FirstNumbers
<1>5. UngatedAction(c, stream) = Best(1..m, f, g)
  BY <1>1 DEF UngatedAction, Best
<1> HIDE DEF f, g
<1> QED
  BY <1>1, <1>2, <1>3, <1>4, <1>5, BestIs

\* Streams whose columns come from streams are streams.
LEMMA RecombinedAreStreams ==
  ASSUME NEW m \in Nat, NEW streams, \A s \in streams : IsStream(s, m),
         NEW stream \in Recombined(streams, 1..m)
  PROVE  IsStream(stream, m)
<1> DEFINE own(a) == {[b \in 1..BlockCount |-> s[b][a]] : s \in streams}
<1>1. PICK f : /\ \A a \in 1..m : f[a] \in own(a)
               /\ stream = [b \in 1..BlockCount |-> [a \in 1..m |-> f[a][b]]]
  BY DEF Recombined
<1>2. ASSUME NEW k \in 1..BlockCount, NEW a \in 1..m
      PROVE  stream[k][a].terminal \in Int
  <2>1. PICK s \in streams : f[a] = [b \in 1..BlockCount |-> s[b][a]]
    BY <1>1
  <2>2. stream[k][a] = s[k][a]
    BY <1>1, <2>1
  <2> QED
    BY <2>1, <2>2 DEF IsStream
<1>3. DOMAIN stream = 1..BlockCount
  BY <1>1
<1> QED
  BY <1>2, <1>3 DEF IsStream

LEMMA SamplesAreBelieved ==
  ASSUME NEW m \in Nat, NEW c, c.xs \in [1..m -> Compositions], NEW samples, IsFiniteSet(samples),
         samples # {}, \A v \in samples : v \in [1..m -> Int]
  PROVE  IsBelief(Labelled(c, samples), m)
<1>1. DOMAIN Labelled(c, samples) = samples
  BY DEF Labelled
<1>2. ASSUME NEW v \in samples
      PROVE  Labelled(c, samples)[v] \in SUBSET (1..m)
  <2>1. Labelled(c, samples)[v] = Membership(c.xs, v, c.references)
    BY DEF Labelled
  <2>2. DOMAIN c.xs = 1..m
    OBVIOUS
  <2> QED
    BY <2>1, <2>2 DEF Membership
<1> QED
  BY <1>1, <1>2 DEF IsBelief

\* The energies of a query are finitely many, and so are the samples that agree
\* with one of them.
LEMMA AnswersAreFinite ==
  ASSUME NEW m, NEW L, IsBelief(L, m), NEW a \in 1..m
  PROVE  /\ IsFiniteSet(Energies(L, a))
         /\ \A e \in Energies(L, a) : IsFiniteSet(DOMAIN Given(L, a, e)) /\ DOMAIN Given(L, a, e) # {}
<1>1. IsFiniteSet(DOMAIN L)
  BY DEF IsBelief
<1>2. IsFiniteSet(Energies(L, a))
  <2> DEFINE f == [s \in DOMAIN L |-> s[a]]
  <2>1. f \in Surjection(DOMAIN L, Energies(L, a))
    BY DEF Surjection, Energies
  <2> HIDE DEF f
  <2> QED
    BY <1>1, <2>1, FS_Surjection
<1>3. ASSUME NEW e \in Energies(L, a)
      PROVE  IsFiniteSet(DOMAIN Given(L, a, e)) /\ DOMAIN Given(L, a, e) # {}
  <2>1. DOMAIN Given(L, a, e) = {t \in DOMAIN L : t[a] = e}
    BY DEF Given
  <2>2. {t \in DOMAIN L : t[a] = e} # {}
    BY DEF Energies
  <2>3. {t \in DOMAIN L : t[a] = e} \subseteq DOMAIN L
    OBVIOUS
  <2>4. IsFiniteSet({t \in DOMAIN L : t[a] = e})
    BY <1>1, <2>3, FS_Subset
  <2> QED
    BY <2>1, <2>2, <2>4
<1> QED
  BY <1>2, <1>3

\* The best batches of k after the answers.
LEMMA BatchesAreInt ==
  ASSUME NEW m, NEW L, IsBelief(L, m), NEW a \in 1..m, NEW A, IsFiniteSet(A), NEW k \in Nat,
         k <= Cardinality(A)
  PROVE  SumOver([e \in Energies(L, a) |-> BestVotes(Given(L, a, e), A, k)]) \in Int
<1> DEFINE F == [e \in Energies(L, a) |-> BestVotes(Given(L, a, e), A, k)]
<1>1. ASSUME NEW e \in Energies(L, a)
      PROVE  BestVotes(Given(L, a, e), A, k) \in Int
  <2>1. PICK G : G = Given(L, a, e)
    OBVIOUS
  <2>2. IsFiniteSet(DOMAIN G)
    BY <2>1, AnswersAreFinite
  <2>3. BestVotes(G, A, k) \in Int
    BY <2>2, BestVotesAreInt
  <2> QED
    BY <2>1, <2>3
<1>2. F \in [Energies(L, a) -> Int]
  BY <1>1
<1>3. IsFiniteSet(Energies(L, a))
  BY AnswersAreFinite
<1> HIDE DEF F
<1>4. SumOver(F) \in Int
  BY <1>2, <1>3, SumOverIsInt
<1> QED
  BY <1>4 DEF F

\* The queries of a call but one.
LEMMA RestFacts ==
  ASSUME NEW m \in Nat, NEW a \in 1..m
  PROVE  /\ IsFiniteSet((1..m) \ {a}) /\ Cardinality((1..m) \ {a}) = m - 1 /\ m - 1 \in Nat
         /\ (1..m) \ {a} # {} => m > 1
<1>1. IsFiniteSet(1..m) /\ Cardinality(1..m) = m
  BY FirstNumbers
<1>2. IsFiniteSet((1..m) \ {a}) /\ Cardinality((1..m) \ {a}) = Cardinality(1..m) - 1
  BY <1>1, FS_RemoveElement
<1>3. (1..m) \ {a} # {} => m > 1
  OBVIOUS
<1> QED
  BY <1>1, <1>2, <1>3

LEMMA FutureIsInt ==
  ASSUME NEW m, NEW c, IsCall(c, m), c.horizon \in 1..m, NEW L, IsBelief(L, m), NEW a \in 1..m
  PROVE  /\ Future(c, L, a) \in Int /\ EnsScore(c, L, a) \in Int
         /\ GradientScore(c, L, a) \in Int /\ Information(c, L, a) \in Int
<1> DEFINE A == (1..m) \ {a}
           k == Min({c.horizon - 1, Cardinality(A)})
           B(n) == SumOver([e \in Energies(L, a) |-> BestVotes(Given(L, a, e), A, n)])
<1>1. m \in Nat /\ Queries(c) = 1..m
  BY CallFits
<1>2. IsFiniteSet(A) /\ Cardinality(A) = m - 1 /\ m - 1 \in Nat /\ (A # {} => m > 1)
  BY <1>1, RestFacts
<1>3. c.horizon - 1 \in Nat
  BY <1>1
<1> HIDE DEF A
<1>4. k \in Nat /\ k <= Cardinality(A)
  <2>1. PICK x \in Nat, y \in Nat : x = c.horizon - 1 /\ y = Cardinality(A)
    BY <1>2, <1>3
  <2>2. x \in Int /\ y \in Int
    OBVIOUS
  <2>3. Min({x, y}) \in {x, y}
    BY <2>2, LeastOfTwo
  <2>4. Min({x, y}) <= y
    BY <2>2, LeastOfTwo
  <2> QED
    BY <2>1, <2>3, <2>4
<1> HIDE DEF k
<1>5. \A n \in Nat : n <= Cardinality(A) => B(n) \in Int
  BY <1>2, BatchesAreInt
<1>6. IsFiniteSet(DOMAIN L)
  BY DEF IsBelief
<1>7. Votes(L, a) \in Int
  <2>1. Votes(L, a) \in Nat
    BY <1>6, VotesAreNat
  <2> QED
    BY <2>1
<1>8. Future(c, L, a) = IF c.horizon <= 1 \/ k = 0 THEN 0 ELSE B(k)
  BY <1>1 DEF Future, A, k
<1>9. GradientScore(c, L, a) = Votes(L, a) + (IF c.horizon >= 2 /\ A # {} THEN B(1) ELSE 0)
  BY <1>1 DEF GradientScore, A
<1>10. Information(c, L, a) = IF c.horizon <= 1 \/ A = {} THEN 0 ELSE B(1) - BestVotes(L, A, 1)
  BY <1>1 DEF Information, A
<1>0. A # {} => 1 \in Nat /\ 1 <= Cardinality(A)
  BY <1>1, <1>2
<1>11. A # {} => BestVotes(L, A, 1) \in Int
  BY <1>0, <1>2, <1>6, BestVotesAreInt
<1> HIDE DEF B
<1>12. A # {} => B(1) \in Int
  BY <1>0, <1>5
<1>13. B(k) \in Int
  BY <1>4, <1>5
<1>14. Future(c, L, a) \in Int
  BY <1>8, <1>13
<1>15. EnsScore(c, L, a) \in Int
  BY <1>7, <1>14 DEF EnsScore
<1>16. GradientScore(c, L, a) \in Int
  BY <1>7, <1>9, <1>12
<1>17. Information(c, L, a) \in Int
  BY <1>10, <1>11, <1>12
<1> QED
  BY <1>14, <1>15, <1>16, <1>17

LEMMA AnchoredScoreIsInt ==
  ASSUME NEW m, NEW c, IsCall(c, m), NEW L, IsBelief(L, m), NEW a, NEW horizon
  PROVE  AnchoredScore(c, L, a, horizon) \in Int
<1> DEFINE F == [s \in DOMAIN L |-> Cardinality(AnchoredSelection(c, L, s, a, horizon) \intersect L[s])]
<1>1. ASSUME NEW s \in DOMAIN L, NEW S
      PROVE  Cardinality(S \intersect L[s]) \in Int
  <2>1. S \intersect L[s] \subseteq 1..m
    BY DEF IsBelief
  <2>2. IsFiniteSet(1..m)
    BY FirstNumbers DEF IsCall
  <2>3. IsFiniteSet(S \intersect L[s])
    BY <2>1, <2>2, FS_Subset
  <2> QED
    BY <2>3, FS_CardinalityType
<1>2. \A s \in DOMAIN L : Cardinality(AnchoredSelection(c, L, s, a, horizon) \intersect L[s]) \in Int
  BY <1>1
<1>3. F \in [DOMAIN L -> Int]
  BY <1>2
<1>4. IsFiniteSet(DOMAIN L)
  BY DEF IsBelief
<1>5. AnchoredScore(c, L, a, horizon) = SumOver(F)
  BY DEF AnchoredScore
<1> HIDE DEF F
<1> QED
  BY <1>3, <1>4, <1>5, SumOverIsInt

\* The references with the outcomes of all queries.
LEMMA PooledIsComplete ==
  ASSUME NEW r \in Nat, NEW references, Complete(references, r), NEW m \in Nat,
         NEW xs \in [1..m -> Compositions], NEW energies \in [1..m -> Int]
  PROVE  /\ Complete(references \o ComputedEntries(xs, energies), r + m)
         /\ \A i \in 1..r : (references \o ComputedEntries(xs, energies))[i] = references[i]
<1> DEFINE new == ComputedEntries(xs, energies)
<1>1. references \in [1..r -> PhaseRecord]
  BY DEF Complete
<1>2. new \in [1..m -> PhaseRecord]
  BY DEF ComputedEntries, PhaseRecord
<1>3. PICK a \in 1..r, b \in 1..r : references[a].x = 0 /\ references[b].x = Grid
  BY DEF Complete
<1> HIDE DEF new
<1>4. references \o new \in [1..(r + m) -> PhaseRecord]
  BY <1>1, <1>2, JoinedSequence
<1>5. \A i \in 1..r : (references \o new)[i] = references[i]
  BY <1>1, <1>2, JoinedSequence
<1>6. a \in 1..(r + m) /\ b \in 1..(r + m)
  OBVIOUS
<1>7. (references \o new)[a].x = 0 /\ (references \o new)[b].x = Grid
  BY <1>3, <1>5
<1>8. Complete(references \o new, r + m)
  BY <1>4, <1>6, <1>7 DEF Complete
<1> QED
  BY <1>5, <1>8 DEF new

\* Without a query the elements among the references still decompose.
LEMMA LeaveOneOutIsInt ==
  ASSUME NEW r \in Nat, NEW references, Complete(references, r), Len(references) = r, NEW m \in Nat,
         NEW xs \in [1..m -> Compositions], NEW energies \in [1..m -> Int], NEW k \in 1..m
  PROVE  LeaveOneOutMargin(xs, energies, references, k) \in Int
<1> DEFINE p == references \o ComputedEntries(xs, energies)
           n == r + m
           D == {d \in Decompositions(XsOf(p), xs[k]) : r + k \notin DOMAIN d}
<1>1. Complete(p, n) /\ n \in Nat
  BY PooledIsComplete
<1>2. \A i \in 1..r : p[i] = references[i]
  BY PooledIsComplete
<1>3. LeaveOneOutMargin(xs, energies, references, k) = Scale * energies[k] - Lowest(D, EsOf(p))
  BY DEF LeaveOneOutMargin, Lowest, XsOf, EsOf
<1>4. PICK a \in 1..r, b \in 1..r : references[a].x = 0 /\ references[b].x = Grid
  BY DEF Complete
<1> HIDE DEF p
<1>5. XsOf(p) \in [1..n -> Compositions] /\ EsOf(p) \in [1..n -> Int]
  BY <1>1, TableFacts
<1>6. xs[k] \in Compositions
  OBVIOUS
<1>7. a \in 1..n /\ b \in 1..n /\ XsOf(p)[a] = 0 /\ XsOf(p)[b] = Grid
  <2>1. a \in 1..n /\ b \in 1..n
    OBVIOUS
  <2>2. XsOf(p)[a] = p[a].x /\ XsOf(p)[b] = p[b].x
    BY <1>1, <2>1, TableFacts
  <2> QED
    BY <1>2, <1>4, <2>1, <2>2
<1>8. PICK X, E, x : X = XsOf(p) /\ E = EsOf(p) /\ x = xs[k]
  OBVIOUS
<1>9. IsFiniteSet(Decompositions(X, x)) /\ Decompositions(X, x) \subseteq Shared(n)
  BY <1>1, <1>5, <1>6, <1>8, DecompositionsFacts
<1>10. Between(X, a, b, x) \in Decompositions(X, x)
  <2>1. <<a, b>> \in Pairs(X, x)
    <3>1. DOMAIN X = 1..n
      BY <1>5, <1>8
    <3>2. X[a] <= x /\ x <= X[b] /\ X[a] < X[b]
      BY <1>6, <1>7, <1>8, GeometryAssumption DEF Compositions
    <3> QED
      BY <1>7, <3>1, <3>2 DEF Pairs
  <2>2. Decompositions(X, x) = {Between(X, q[1], q[2], x) : q \in Pairs(X, x)}
    BY DecompositionsAre
  <2> QED
    BY <2>1, <2>2
<1>11. r + k \notin DOMAIN Between(X, a, b, x)
  BY DEF Between
<1>12. D # {} /\ D \in SUBSET Shared(n) /\ IsFiniteSet(D)
  <2>1. D \subseteq Decompositions(X, x)
    BY <1>8
  <2>2. Between(X, a, b, x) \in D
    BY <1>8, <1>10, <1>11
  <2> HIDE DEF D
  <2> QED
    BY <1>9, <2>1, <2>2, FS_Subset
<1> HIDE DEF D, n
<1>13. Lowest(D, E) \in Int
  BY <1>1, <1>5, <1>8, <1>12, LowestIs
<1>14. Scale * energies[k] \in Int
  BY GeometryAssumption
<1> QED
  BY <1>3, <1>8, <1>13, <1>14

LEMMA CompletePoolIsInt ==
  ASSUME NEW m, NEW r, NEW c, IsRound(c, m, r), NEW L, IsBelief(L, m), NEW a \in 1..m
  PROVE  CompletePoolMargin(c, L, a) \in Int
<1> DEFINE n == Cardinality(DOMAIN L)
           E == [b \in Queries(c) |-> SampleSum(L, b)]
           R == [k \in DOMAIN c.references |-> [c.references[k] EXCEPT !.e = n * c.references[k].e]]
<1>1. /\ m \in Nat /\ r \in Nat /\ Complete(c.references, r) /\ Queries(c) = 1..m
      /\ c.xs \in [1..m -> Compositions] /\ IsCall(c, m)
  BY CallFits DEF IsRound, IsCall
<1>2. n \in Nat
  BY FS_CardinalityType DEF IsBelief
<1>3. E \in [1..m -> Int]
  BY <1>1, SampleSumIsInt
<1>4. CompletePoolMargin(c, L, a) = 0 - LeaveOneOutMargin(c.xs, E, R, a)
  BY DEF CompletePoolMargin
<1> HIDE DEF n, E
<1>5. c.references \in [1..r -> PhaseRecord] /\ DOMAIN c.references = 1..r
  BY <1>1 DEF Complete
<1>6. ASSUME NEW k \in 1..r
      PROVE  R[k] \in PhaseRecord /\ R[k].x = c.references[k].x
  <2>1. PICK p \in PhaseRecord : p = c.references[k]
    BY <1>5
  <2>2. R[k] = [p EXCEPT !.e = n * p.e]
    BY <1>5, <2>1
  <2>3. p.e \in Int /\ n * p.e \in Int
    BY <1>2, <2>1 DEF PhaseRecord
  <2> QED
    BY <2>1, <2>2, <2>3 DEF PhaseRecord
<1>7. R \in [1..r -> PhaseRecord]
  BY <1>5, <1>6
<1> HIDE DEF R
<1>8. Complete(R, r)
  BY <1>1, <1>6, <1>7 DEF Complete
<1>9. Len(R) = r
  BY <1>1, <1>7, IntervalIsSeq
<1>10. LeaveOneOutMargin(c.xs, E, R, a) \in Int
  <2>1. PICK xs : xs = c.xs
    OBVIOUS
  <2>2. LeaveOneOutMargin(xs, E, R, a) \in Int
    BY <1>1, <1>3, <1>8, <1>9, <2>1, LeaveOneOutIsInt
  <2> QED
    BY <2>1, <2>2
<1> QED
  BY <1>4, <1>10

\* The square of the distance to the hull with its sign, and its variance.
SquareOf(c, L, a) ==
  IF MeanMargin(c, L, a) >= 0 THEN MeanMargin(c, L, a) * MeanMargin(c, L, a)
  ELSE -(MeanMargin(c, L, a) * MeanMargin(c, L, a))
SpreadOf(L, a) ==
  Cardinality(DOMAIN L) * SumOver([s \in DOMAIN L |-> s[a] * s[a]]) - SampleSum(L, a) * SampleSum(L, a)
VarianceOf(L, a) == IF SpreadOf(L, a) = 0 THEN 1 ELSE Scale * Scale * Scale * SpreadOf(L, a)

\* The query a comes before b.
Ahead(c, L, a, b) ==
  \/ SquareOf(c, L, a) * VarianceOf(L, b) > SquareOf(c, L, b) * VarianceOf(L, a)
  \/ SquareOf(c, L, a) * VarianceOf(L, b) = SquareOf(c, L, b) * VarianceOf(L, a) /\ c.rank[a] < c.rank[b]

LEMMA VarianceIsPositive ==
  ASSUME NEW m, NEW L, IsBelief(L, m), NEW a \in 1..m
  PROVE  VarianceOf(L, a) \in Nat \ {0}
<1> DEFINE F == [s \in DOMAIN L |-> s[a]]
           Q == [s \in DOMAIN L |-> s[a] * s[a]]
<1>1. IsFiniteSet(DOMAIN L) /\ \A s \in DOMAIN L : s[a] \in Int
  BY DEF IsBelief
<1>2. F \in [DOMAIN L -> Int] /\ Q \in [DOMAIN L -> Int] /\ \A s \in DOMAIN L : Q[s] = F[s] * F[s]
  <2>1. \A s \in DOMAIN L : s[a] * s[a] \in Int
    <3> TAKE s \in DOMAIN L
    <3>1. PICK y \in Int : y = s[a]
      BY <1>1
    <3> QED
      BY <3>1
  <2> QED
    BY <1>1, <2>1
<1>3. SpreadOf(L, a) = Cardinality(DOMAIN L) * SumFunctionOnSet(Q, DOMAIN L)
                       - SumFunctionOnSet(F, DOMAIN L) * SumFunctionOnSet(F, DOMAIN L)
  <2>1. DOMAIN F = DOMAIN L /\ DOMAIN Q = DOMAIN L
    OBVIOUS
  <2>2. SpreadOf(L, a) = Cardinality(DOMAIN L) * SumOver(Q) - SumOver(F) * SumOver(F)
    BY DEF SpreadOf, SampleSum
  <2> HIDE DEF F, Q
  <2> QED
    BY <2>1, <2>2 DEF SumOver
<1> HIDE DEF F, Q
<1>4. SpreadOf(L, a) \in Nat
  BY <1>1, <1>2, <1>3, SpreadIsNat
<1>5. CASE SpreadOf(L, a) = 0
  BY <1>5 DEF VarianceOf
<1>6. CASE SpreadOf(L, a) # 0
  <2>1. PICK k \in Nat \ {0}, s \in Nat \ {0} : k = Scale /\ s = SpreadOf(L, a)
    BY <1>4, <1>6, GeometryAssumption
  <2>2. k * k \in Nat \ {0}
    OBVIOUS
  <2>3. PICK k2 \in Nat \ {0} : k2 = k * k
    BY <2>2
  <2>4. k2 * k \in Nat \ {0}
    OBVIOUS
  <2>5. PICK k3 \in Nat \ {0} : k3 = k2 * k
    BY <2>4
  <2>6. k3 * s \in Nat \ {0}
    OBVIOUS
  <2> QED
    BY <1>6, <2>1, <2>3, <2>5, <2>6 DEF VarianceOf
<1> QED
  BY <1>5, <1>6

LEMMA SquareIsInt ==
  ASSUME NEW m, NEW c, IsCall(c, m), NEW L, IsBelief(L, m), NEW a \in 1..m
  PROVE  SquareOf(c, L, a) \in Int
<1>1. PICK x \in Int : x = MeanMargin(c, L, a)
  BY MeanMarginIsInt
<1>2. x * x \in Int /\ -(x * x) \in Int
  OBVIOUS
<1> QED
  BY <1>1, <1>2 DEF SquareOf

LEMMA CurrentHullIsAQuery ==
  ASSUME NEW m, NEW c, IsCall(c, m), NEW L, IsBelief(L, m),
         \A i, j \in 1..m : c.rank[i] = c.rank[j] => i = j
  PROVE  CurrentHullAction(c, L) \in 1..m
<1> DEFINE S == 1..m
           R == {p \in S \X S : Ahead(c, L, p[1], p[2])}
<1>1. m \in Nat /\ Queries(c) = S /\ S # {} /\ IsFiniteSet(S) /\ c.rank \in [S -> Int]
  BY CallFits, FirstNumbers DEF IsCall
<1>2. CurrentHullAction(c, L) = CHOOSE a \in S : \A b \in S \ {a} : Ahead(c, L, a, b)
  BY <1>1 DEF CurrentHullAction, Ahead, SquareOf, VarianceOf, SpreadOf
<1>3. \A a \in S : SquareOf(c, L, a) \in Int
  BY SquareIsInt
<1>4. \A a \in S : VarianceOf(L, a) \in Nat \ {0}
  BY VarianceIsPositive
<1> HIDE DEF S
<1>5. ASSUME NEW a \in S
      PROVE  ~Ahead(c, L, a, a)
  <2>1. PICK u \in Int, d \in Int, g \in Int : u = SquareOf(c, L, a) /\ d = VarianceOf(L, a) /\ g = c.rank[a]
    BY <1>1, <1>3, <1>4
  <2>2. u * d \in Int
    OBVIOUS
  <2> QED
    BY <2>1, <2>2 DEF Ahead
<1>6. ASSUME NEW a \in S, NEW b \in S, a # b
      PROVE  Ahead(c, L, a, b) \/ Ahead(c, L, b, a)
  <2>1. PICK u \in Int, d \in Int, g \in Int : u = SquareOf(c, L, a) /\ d = VarianceOf(L, a) /\ g = c.rank[a]
    BY <1>1, <1>3, <1>4
  <2>2. PICK v \in Int, e \in Int, h \in Int : v = SquareOf(c, L, b) /\ e = VarianceOf(L, b) /\ h = c.rank[b]
    BY <1>1, <1>3, <1>4
  <2>3. u * e \in Int /\ v * d \in Int
    OBVIOUS
  <2>4. g # h
    BY <1>6, <2>1, <2>2 DEF S
  <2> QED
    BY <2>1, <2>2, <2>3, <2>4 DEF Ahead
<1>7. ASSUME NEW a \in S, NEW b \in S, NEW k \in S, Ahead(c, L, a, b), Ahead(c, L, b, k)
      PROVE  Ahead(c, L, a, k)
  <2>1. PICK u \in Int, d \in Nat \ {0}, g \in Int : u = SquareOf(c, L, a) /\ d = VarianceOf(L, a) /\ g = c.rank[a]
    BY <1>1, <1>3, <1>4
  <2>2. PICK v \in Int, e \in Nat \ {0}, h \in Int : v = SquareOf(c, L, b) /\ e = VarianceOf(L, b) /\ h = c.rank[b]
    BY <1>1, <1>3, <1>4
  <2>3. PICK w \in Int, f \in Nat \ {0}, i \in Int : w = SquareOf(c, L, k) /\ f = VarianceOf(L, k) /\ i = c.rank[k]
    BY <1>1, <1>3, <1>4
  <2>4. u * e > v * d \/ (u * e = v * d /\ g < h)
    BY <1>7, <2>1, <2>2 DEF Ahead
  <2>5. v * f > w * e \/ (v * f = w * e /\ h < i)
    BY <1>7, <2>2, <2>3 DEF Ahead
  <2>6. u * e \in Int /\ v * d \in Int /\ v * f \in Int /\ w * e \in Int /\ u * f \in Int /\ w * d \in Int
    OBVIOUS
  <2>7. u * e >= v * d /\ v * f >= w * e
    BY <2>4, <2>5, <2>6
  <2>8. /\ u * f >= w * d
        /\ u * e > v * d \/ v * f > w * e => u * f > w * d
    BY <2>7, FractionsInOrder
  <2>9. u * f > w * d \/ (u * f = w * d /\ g < i)
    BY <2>4, <2>5, <2>6, <2>8
  <2> QED
    BY <2>1, <2>3, <2>9 DEF Ahead
<1>8. \E a \in S : \A b \in S \ {a} : <<a, b>> \in R
  <2>1. R \in SUBSET (S \X S) /\ \A a \in S : <<a, a>> \notin R
    BY <1>5
  <2>2. \A a, b \in S : a # b => <<a, b>> \in R \/ <<b, a>> \in R
    BY <1>6
  <2>3. \A a, b, k \in S : <<a, b>> \in R /\ <<b, k>> \in R => <<a, k>> \in R
    BY <1>7
  <2> HIDE DEF R
  <2> QED
    BY <1>1, <2>1, <2>2, <2>3, ForemostExists
<1>9. \E a \in S : \A b \in S \ {a} : Ahead(c, L, a, b)
  BY <1>8
<1>10. (CHOOSE a \in S : \A b \in S \ {a} : Ahead(c, L, a, b)) \in S
  BY <1>9
<1> QED
  BY <1>2, <1>10 DEF S

LEMMA EvaluationSetFacts ==
  ASSUME NEW m \in Nat, NEW xs \in [1..m -> Compositions], NEW r \in Nat, NEW references,
         Complete(references, r)
  PROVE  /\ EvaluationCompositions(xs, references) \subseteq Compositions
         /\ IsFiniteSet(EvaluationCompositions(xs, references))
<1>1. references \in [1..r -> PhaseRecord]
  BY DEF Complete
<1>2. \A k \in 1..r : references[k].x \in Compositions
  BY <1>1 DEF PhaseRecord
<1>3. EvaluationCompositions(xs, references) \subseteq Compositions
  BY <1>1, <1>2 DEF EvaluationCompositions, ToSet
<1>4. IsFiniteSet(Compositions)
  <2>1. IsFiniteSet(1..Grid) /\ Compositions = (1..Grid) \union {0}
    BY FirstNumbers, GeometryAssumption DEF Compositions
  <2>2. IsFiniteSet((1..Grid) \union {0})
    BY <2>1, FS_AddElement
  <2> QED
    BY <2>1, <2>2
<1> QED
  BY <1>3, <1>4, FS_Subset

\* The complete hull at a composition, in a sample.
HullIn(c, s, x) == HullOf(c.references \o ComputedEntries(c.xs, s), x)
HullSum(c, S, x) == SumOver([s \in S |-> HullIn(c, s, x)])
Squared(c, S, x) == (Scale \div Cardinality(S)) * HullSum(c, S, x) * HullSum(c, S, x)

LEMMA HullInIsInt ==
  ASSUME NEW m, NEW r, NEW c, IsRound(c, m, r), NEW s \in [1..m -> Int], NEW x \in Compositions
  PROVE  HullIn(c, s, x) \in Int
<1>1. m \in Nat /\ r \in Nat /\ Complete(c.references, r) /\ c.xs \in [1..m -> Compositions]
  BY DEF IsRound, IsCall
<1>2. PICK xs, R : xs = c.xs /\ R = c.references
  OBVIOUS
<1>3. Complete(R \o ComputedEntries(xs, s), r + m)
  BY <1>1, <1>2, PooledIsComplete
<1>4. PICK p : p = R \o ComputedEntries(xs, s)
  OBVIOUS
<1>5. r + m \in Nat
  BY <1>1
<1>6. HullOf(p, x) \in Int
  BY <1>3, <1>4, <1>5, HullOfPhases
<1> QED
  BY <1>2, <1>4, <1>6 DEF HullIn

LEMMA HullSumIs ==
  ASSUME NEW m, NEW r, NEW c, IsRound(c, m, r), NEW S, \A s \in S : s \in [1..m -> Int],
         NEW x \in Compositions
  PROVE  /\ [s \in S |-> HullIn(c, s, x)] \in [S -> Int]
         /\ HullSum(c, S, x) = SumFunctionOnSet([s \in S |-> HullIn(c, s, x)], S)
<1> DEFINE F == [s \in S |-> HullIn(c, s, x)]
<1>1. \A s \in S : HullIn(c, s, x) \in Int
  BY HullInIsInt
<1>2. F \in [S -> Int] /\ DOMAIN F = S
  BY <1>1
<1>3. HullSum(c, S, x) = SumFunctionOnSet(F, DOMAIN F)
  BY DEF HullSum, SumOver
<1> HIDE DEF F
<1>4. HullSum(c, S, x) = SumFunctionOnSet(F, S)
  BY <1>2, <1>3
<1> QED
  BY <1>2, <1>4 DEF F

LEMMA SquaredIsInt ==
  ASSUME NEW m, NEW r, NEW c, IsRound(c, m, r), NEW S, IsFiniteSet(S), S # {},
         \A s \in S : s \in [1..m -> Int], NEW x \in Compositions
  PROVE  Squared(c, S, x) \in Int
<1>1. PICK F : F = [s \in S |-> HullIn(c, s, x)]
  OBVIOUS
<1>2. F \in [S -> Int] /\ HullSum(c, S, x) = SumFunctionOnSet(F, S)
  BY <1>1, HullSumIs
<1>3. HullSum(c, S, x) \in Int
  BY <1>2, SumIsInt
<1>4. PICK h \in Int : h = HullSum(c, S, x)
  BY <1>3
<1>5. PICK n \in Nat \ {0} : n = Cardinality(S)
  BY FS_CardinalityType, FS_EmptySet
<1>6. Scale \div n \in Int
  BY GeometryAssumption
<1>7. PICK k \in Int : k = Scale \div n
  BY <1>6
<1>8. k * h * h \in Int
  OBVIOUS
<1> QED
  BY <1>4, <1>5, <1>7, <1>8 DEF Squared

\* What an answer at x tells about the hull at x, summed over the answers.
AnswersSquared(c, L, a, x) == SumOver([e \in Energies(L, a) |-> Squared(c, DOMAIN Given(L, a, e), x)])

LEMMA AnswersSquaredIs ==
  ASSUME NEW m, NEW r, NEW c, IsRound(c, m, r), NEW L, IsBelief(L, m), NEW a \in 1..m,
         NEW x \in Compositions
  PROVE  /\ [e \in Energies(L, a) |-> Squared(c, DOMAIN Given(L, a, e), x)] \in [Energies(L, a) -> Int]
         /\ AnswersSquared(c, L, a, x)
              = SumFunctionOnSet([e \in Energies(L, a) |-> Squared(c, DOMAIN Given(L, a, e), x)], Energies(L, a))
         /\ AnswersSquared(c, L, a, x) \in Int
<1> DEFINE F == [e \in Energies(L, a) |-> Squared(c, DOMAIN Given(L, a, e), x)]
<1>1. ASSUME NEW e \in Energies(L, a)
      PROVE  Squared(c, DOMAIN Given(L, a, e), x) \in Int
  <2>1. PICK S : S = DOMAIN Given(L, a, e)
    OBVIOUS
  <2>2. IsFiniteSet(S) /\ S # {}
    BY <2>1, AnswersAreFinite
  <2>3. S \subseteq DOMAIN L
    BY <2>1 DEF Given
  <2>4. \A s \in S : s \in [1..m -> Int]
    BY <2>3 DEF IsBelief
  <2>5. Squared(c, S, x) \in Int
    BY <2>2, <2>4, SquaredIsInt
  <2> QED
    BY <2>1, <2>5
<1>2. F \in [Energies(L, a) -> Int] /\ DOMAIN F = Energies(L, a)
  BY <1>1
<1>3. IsFiniteSet(Energies(L, a))
  BY AnswersAreFinite
<1>4. AnswersSquared(c, L, a, x) = SumFunctionOnSet(F, DOMAIN F)
  BY DEF AnswersSquared, SumOver
<1> HIDE DEF F
<1>5. SumFunctionOnSet(F, Energies(L, a)) \in Int
  BY <1>2, <1>3, SumIsInt
<1>6. AnswersSquared(c, L, a, x) = SumFunctionOnSet(F, Energies(L, a))
  BY <1>2, <1>4
<1> QED
  BY <1>2, <1>5, <1>6 DEF F

LEMMA RiskReductionIs ==
  ASSUME NEW m, NEW r, NEW c, IsRound(c, m, r), NEW L, IsBelief(L, m), NEW a \in 1..m
  PROVE  LET X == EvaluationCompositions(c.xs, c.references)
             F == [x \in X |-> AnswersSquared(c, L, a, x) - Squared(c, DOMAIN L, x)] IN
         /\ X \subseteq Compositions /\ IsFiniteSet(X) /\ F \in [X -> Int]
         /\ RiskReduction(c, L, a) = SumFunctionOnSet(F, X)
<1> DEFINE X == EvaluationCompositions(c.xs, c.references)
           F == [x \in X |-> AnswersSquared(c, L, a, x) - Squared(c, DOMAIN L, x)]
<1>1. X \subseteq Compositions /\ IsFiniteSet(X)
  <2>1. PICK xs, R : xs = c.xs /\ R = c.references
    OBVIOUS
  <2>2. m \in Nat /\ r \in Nat /\ Complete(R, r) /\ xs \in [1..m -> Compositions]
    BY <2>1 DEF IsRound, IsCall
  <2> QED
    BY <2>1, <2>2, EvaluationSetFacts
<1>2. ASSUME NEW x \in X, NEW S, S \subseteq DOMAIN L
      PROVE  SumOver([s \in S |-> [t \in DOMAIN L |-> FinalHull(c.xs, t, c.references)][s][x]]) = HullSum(c, S, x)
  <2>1. \A s \in S : [t \in DOMAIN L |-> FinalHull(c.xs, t, c.references)][s][x] = HullIn(c, s, x)
    BY <1>2 DEF FinalHull, HullIn
  <2>2. [s \in S |-> [t \in DOMAIN L |-> FinalHull(c.xs, t, c.references)][s][x]] = [s \in S |-> HullIn(c, s, x)]
    BY <2>1
  <2> QED
    BY <2>2 DEF HullSum
<1>3. RiskReduction(c, L, a) = SumOver(F)
  <2> DEFINE hull == [s \in DOMAIN L |-> FinalHull(c.xs, s, c.references)]
             squared(S, x) == (Scale \div Cardinality(S)) * SumOver([s \in S |-> hull[s][x]])
                                 * SumOver([s \in S |-> hull[s][x]])
             G == [x \in X |-> SumOver([e \in Energies(L, a) |-> squared(DOMAIN Given(L, a, e), x)])
                                 - squared(DOMAIN L, x)]
  <2>1. RiskReduction(c, L, a) = SumOver(G)
    BY DEF RiskReduction
  <2>2. ASSUME NEW x \in X, NEW S, S \subseteq DOMAIN L
        PROVE  squared(S, x) = Squared(c, S, x)
    <3>1. SumOver([s \in S |-> hull[s][x]]) = HullSum(c, S, x)
      BY <1>2, <2>2
    <3> QED
      BY <3>1 DEF Squared
  <2> HIDE DEF squared
  <2>3. ASSUME NEW x \in X
        PROVE  SumOver([e \in Energies(L, a) |-> squared(DOMAIN Given(L, a, e), x)]) = AnswersSquared(c, L, a, x)
    <3>1. \A e \in Energies(L, a) : DOMAIN Given(L, a, e) \subseteq DOMAIN L
      BY DEF Given
    <3>2. \A e \in Energies(L, a) : squared(DOMAIN Given(L, a, e), x) = Squared(c, DOMAIN Given(L, a, e), x)
      BY <2>2, <2>3, <3>1
    <3>3. [e \in Energies(L, a) |-> squared(DOMAIN Given(L, a, e), x)]
            = [e \in Energies(L, a) |-> Squared(c, DOMAIN Given(L, a, e), x)]
      BY <3>2
    <3> QED
      BY <3>3 DEF AnswersSquared
  <2>4. \A x \in X : squared(DOMAIN L, x) = Squared(c, DOMAIN L, x)
    BY <2>2
  <2>5. G = F
    BY <2>3, <2>4
  <2> QED
    BY <2>1, <2>5
<1>4. ASSUME NEW x \in X
      PROVE  AnswersSquared(c, L, a, x) - Squared(c, DOMAIN L, x) \in Int
  <2>1. AnswersSquared(c, L, a, x) \in Int
    BY <1>1, AnswersSquaredIs
  <2>2. Squared(c, DOMAIN L, x) \in Int
    <3>1. PICK S : S = DOMAIN L
      OBVIOUS
    <3>2. IsFiniteSet(S) /\ S # {} /\ \A s \in S : s \in [1..m -> Int]
      BY <3>1 DEF IsBelief
    <3>3. x \in Compositions
      BY <1>1
    <3>4. Squared(c, S, x) \in Int
      BY <3>2, <3>3, SquaredIsInt
    <3> QED
      BY <3>1, <3>4
  <2> QED
    BY <2>1, <2>2
<1>5. F \in [X -> Int] /\ DOMAIN F = X
  BY <1>4
<1>6. RiskReduction(c, L, a) = SumFunctionOnSet(F, DOMAIN F)
  BY <1>3 DEF SumOver
<1> HIDE DEF F, X
<1>7. RiskReduction(c, L, a) = SumFunctionOnSet(F, X)
  BY <1>5, <1>6
<1> QED
  BY <1>1, <1>5, <1>7 DEF F, X

LEMMA RiskReductionIsInt ==
  ASSUME NEW m, NEW r, NEW c, IsRound(c, m, r), NEW L, IsBelief(L, m), NEW a \in 1..m
  PROVE  RiskReduction(c, L, a) \in Int
<1>1. PICK X : X = EvaluationCompositions(c.xs, c.references)
  OBVIOUS
<1>2. PICK F : F = [x \in X |-> AnswersSquared(c, L, a, x) - Squared(c, DOMAIN L, x)]
  OBVIOUS
<1>3. IsFiniteSet(X) /\ F \in [X -> Int] /\ RiskReduction(c, L, a) = SumFunctionOnSet(F, X)
  BY <1>1, <1>2, RiskReductionIs
<1> QED
  BY <1>3, SumIsInt

LEMMA AffineIsAQuery ==
  ASSUME system \in Systems, truth \in system.worlds, IsHistory(revealed, system), NEW m, NEW c, IsCall(c, m)
  PROVE  AffineAction(c) \in 1..m
<1> DEFINE source(k) == system.source[revealed[k]]
           answer(k) == truth[revealed[k]]
           run == source(2) - source(1)
           rise == answer(2) - answer(1)
           sign == IF run > 0 THEN 1 ELSE -1
           score(a) == sign * (run * c.hull[a] - Scale * (rise * (c.source[a] - source(1)) + run * answer(1)))
           f == [a \in 1..m |-> score(a)]
<1>1. AffineAction(c) = IF Len(revealed) < 2 \/ run = 0 THEN SourceAction(c)
                        ELSE BestById(c, Queries(c), LAMBDA a : score(a))
  BY DEF AffineAction
<1>2. SourceAction(c) \in 1..m /\ Queries(c) = 1..m /\ 1..m # {}
  BY CallFits DEF IsCall
<1>3. CASE Len(revealed) < 2 \/ run = 0
  BY <1>1, <1>2, <1>3
<1>4. CASE ~(Len(revealed) < 2 \/ run = 0)
  <2>1. Len(revealed) \in Nat
    BY LenProperties DEF IsHistory, AnySeq
  <2>2. revealed[1] \in 1..Len(system.xs) /\ revealed[2] \in 1..Len(system.xs)
    BY <1>4, <2>1 DEF IsHistory
  <2>3. source(1) \in Int /\ source(2) \in Int /\ answer(1) \in Int /\ answer(2) \in Int
    BY <2>2, SystemShape
  <2>4. run \in Int /\ rise \in Int /\ sign \in Int
    BY <2>3
  <2>5. PICK s1 \in Int, a1 \in Int, dx \in Int, dy \in Int, g \in Int :
          s1 = source(1) /\ a1 = answer(1) /\ dx = run /\ dy = rise /\ g = sign
    BY <2>3, <2>4
  <2> HIDE DEF source, answer, run, rise, sign
  <2>6. ASSUME NEW a \in 1..m
        PROVE  score(a) \in Int
    <3>1. PICK h \in Int, s \in Int : h = c.hull[a] /\ s = c.source[a]
      BY DEF IsCall
    <3>2. dx * h \in Int /\ dy * (s - s1) \in Int /\ dx * a1 \in Int
      OBVIOUS
    <3>3. PICK u \in Int, v \in Int : u = dx * h /\ v = dy * (s - s1) + dx * a1
      BY <3>2
    <3>4. Scale * v \in Int
      BY GeometryAssumption
    <3>5. PICK y \in Int : y = Scale * v
      BY <3>4
    <3>6. g * (u - y) \in Int
      OBVIOUS
    <3> QED
      BY <2>5, <3>1, <3>3, <3>5, <3>6
  <2> HIDE DEF score
  <2>7. f \in [1..m -> Int]
    BY <2>6
  <2>8. BestById(c, Queries(c), LAMBDA a : score(a)) = Best(1..m, f, [a \in 1..m |-> c.rank[a]])
    BY <1>2 DEF BestById, Best
  <2> HIDE DEF f
  <2>9. Best(1..m, f, [a \in 1..m |-> c.rank[a]]) \in 1..m
    BY <1>2, <2>7, BestQuery
  <2> QED
    BY <1>1, <1>4, <2>8, <2>9
<1> QED
  BY <1>3, <1>4

\* The best mean margins, below the hull now and below the hull of all means.
MeanAction(c, L) == BestById(c, Queries(c), LAMBDA a : MeanMargin(c, L, a))
PoolAction(c, L) == BestById(c, Queries(c), LAMBDA a : CompletePoolMargin(c, L, a))

LEMMA MeansAreQueries ==
  ASSUME NEW m, NEW r, NEW c, IsRound(c, m, r), NEW L, IsBelief(L, m)
  PROVE  MeanAction(c, L) \in 1..m /\ PoolAction(c, L) \in 1..m
<1> DEFINE mean == [a \in 1..m |-> MeanMargin(c, L, a)]
           whole == [a \in 1..m |-> CompletePoolMargin(c, L, a)]
           g == [a \in 1..m |-> c.rank[a]]
<1>1. IsCall(c, m) /\ Queries(c) = 1..m /\ 1..m # {}
  BY CallFits DEF IsCall, IsRound
<1>2. MeanAction(c, L) = Best(1..m, mean, g)
  BY <1>1 DEF MeanAction, BestById, Best
<1>3. PoolAction(c, L) = Best(1..m, whole, g)
  BY <1>1 DEF PoolAction, BestById, Best
<1>4. mean \in [1..m -> Int]
  BY <1>1, MeanMarginIsInt
<1>5. whole \in [1..m -> Int]
  BY CompletePoolIsInt
<1> HIDE DEF mean, whole
<1>6. Best(1..m, mean, g) \in 1..m
  BY <1>1, <1>4, BestQuery
<1>7. Best(1..m, whole, g) \in 1..m
  BY <1>1, <1>5, BestQuery
<1> QED
  BY <1>2, <1>3, <1>6, <1>7

LEMMA MarginIsAQuery ==
  ASSUME NEW m, NEW r, NEW c, IsRound(c, m, r), NEW L, IsBelief(L, m),
         \A i, j \in 1..m : c.rank[i] = c.rank[j] => i = j, NEW p \in MarginPolicies
  PROVE  MarginAction(p, c, L) \in 1..m
<1>1. IsCall(c, m)
  BY DEF IsRound
<1>2. CASE p = "posterior_mean_target_margin"
  <2>1. MarginAction(p, c, L) = MeanAction(c, L)
    BY <1>2 DEF MarginAction, MeanAction
  <2> QED
    BY <2>1, MeansAreQueries
<1>3. CASE p = "complete_pool_posterior_mean_hull_margin"
  <2>1. MarginAction(p, c, L) = PoolAction(c, L)
    BY <1>3 DEF MarginAction, PoolAction
  <2> QED
    BY <2>1, MeansAreQueries
<1>4. CASE p = "posterior_current_hull_probability"
  <2>1. MarginAction(p, c, L) = CurrentHullAction(c, L)
    BY <1>4 DEF MarginAction
  <2> QED
    BY <1>1, <2>1, CurrentHullIsAQuery
<1> QED
  BY <1>2, <1>3, <1>4 DEF MarginPolicies

LEMMA RolloutsSelectQueries ==
  ASSUME NEW m, NEW c, IsCall(c, m), NEW samples, NEW p \in RolloutPolicies \ PairedPolicies,
         NEW a \in RolloutActions(p, c, samples)
  PROVE  a \in 1..m
<1>1. m \in Nat /\ Queries(c) = 1..m
  BY CallFits
<1>2. \A stream \in Streams(c, samples) : IsStream(stream, m)
  BY StreamsAreOfSamples
<1>3. CASE p = "ungated_source_rollout"
  <2>1. PICK stream \in Streams(c, samples) : a = UngatedAction(c, stream)
    BY <1>3 DEF RolloutActions, StreamActions
  <2> QED
    BY <1>2, <2>1, UngatedIsAQuery
<1>4. CASE p = "diagonal_ic_sarr"
  <2>1. PICK D : D = Diagonal(c, samples)
    OBVIOUS
  <2>2. a \in ConfirmedActions(c, Streams(c, D))
    BY <1>4, <2>1 DEF RolloutActions, ConfirmedVariants
  <2>3. PICK T : T = Streams(c, D)
    OBVIOUS
  <2>4. \A stream \in T : IsStream(stream, m)
    BY <2>3, StreamsAreOfSamples
  <2> QED
    BY <2>2, <2>3, <2>4, ConfirmedPays
<1>5. CASE p = "independent_mc_ic_sarr"
  <2>1. a \in ConfirmedActions(c, IndependentStreams(c, samples))
    BY <1>5 DEF RolloutActions, ConfirmedVariants
  <2>2. PICK S : S = Streams(c, samples)
    OBVIOUS
  <2>3. IndependentStreams(c, samples) = Recombined(S, 1..m)
    BY <1>1, <2>2 DEF IndependentStreams
  <2>4. PICK T : T = Recombined(S, 1..m)
    OBVIOUS
  <2>5. \A stream \in T : IsStream(stream, m)
    BY <1>1, <1>2, <2>2, <2>4, RecombinedAreStreams
  <2> QED
    BY <2>1, <2>3, <2>4, <2>5, ConfirmedPays
<1> QED
  BY <1>3, <1>4, <1>5 DEF RolloutPolicies, PairedPolicies

\* The safe gate replaces Delta-Hull by a query of its screen.
LEMMA SafeIsAQuery ==
  ASSUME NEW m, NEW c, IsCall(c, m), c.horizon \in 1..m, NEW L, IsBelief(L, m), NEW k, NEW radius
  PROVE  SafeAction(c, L, k, radius) \in 1..m
<1> DEFINE delta == DeltaAction(c, L)
           improving == {a \in TopUnion(c, L, k) \ {delta} :
                           EnsScore(c, L, a) - EnsScore(c, L, delta) > c.horizon * radius}
           f == [a \in 1..m |-> EnsScore(c, L, a)]
           g == [a \in improving |-> EnsScore(c, L, a)]
<1>1. delta \in 1..m /\ Queries(c) = 1..m
  BY CallFits, DeltaIsAQuery
<1>2. TopUnion(c, L, k) \subseteq 1..m
  BY <1>1 DEF TopUnion
<1>3. improving \in SUBSET (1..m)
  BY <1>2
<1>4. SafeAction(c, L, k, radius) =
        IF improving = {} THEN delta ELSE BestById(c, improving, LAMBDA a : EnsScore(c, L, a))
  BY DEF SafeAction
<1> HIDE DEF improving, delta
<1>5. \A a \in 1..m : EnsScore(c, L, a) \in Int
  BY FutureIsInt
<1>6. g \in [improving -> Int]
  BY <1>3, <1>5
<1>7. BestById(c, improving, LAMBDA a : EnsScore(c, L, a)) = Best(improving, g, [a \in improving |-> c.rank[a]])
  BY DEF BestById, Best
<1> HIDE DEF g
<1>8. improving # {} => Best(improving, g, [a \in improving |-> c.rank[a]]) \in improving
  BY <1>3, <1>6, BestQuery
<1> QED
  BY <1>1, <1>3, <1>4, <1>7, <1>8

\* The policies that rank scores of a call.
LEMMA RankedIsAQuery ==
  ASSUME NEW m, NEW r, NEW c, IsRound(c, m, r), NEW L, IsBelief(L, m)
  PROVE  TwoQueryRollout(c, L) \in 1..m /\ RiskAction(c, L) \in 1..m /\ GradientAction(c, L) \in 1..m
<1> DEFINE two == [a \in 1..m |-> AnchoredScore(c, L, a, 2)]
           risk == [a \in 1..m |-> RiskReduction(c, L, a)]
           gradient == [a \in 1..m |-> GradientScore(c, L, a)]
           g == [a \in 1..m |-> c.rank[a]]
<1>1. IsCall(c, m) /\ Queries(c) = 1..m /\ 1..m # {} /\ c.horizon \in 1..m
  BY CallFits DEF IsCall, IsRound
<1>2. TwoQueryRollout(c, L) = Best(1..m, two, g)
  BY <1>1 DEF TwoQueryRollout, AnchoredAction, BestById, Best
<1>3. RiskAction(c, L) = Best(1..m, risk, g)
  BY <1>1 DEF RiskAction, BestById, Best
<1>4. GradientAction(c, L) = Best(1..m, gradient, g)
  BY <1>1 DEF GradientAction, BestById, Best
<1>5. two \in [1..m -> Int]
  BY <1>1, AnchoredScoreIsInt
<1>6. risk \in [1..m -> Int]
  BY RiskReductionIsInt
<1>7. gradient \in [1..m -> Int]
  BY <1>1, FutureIsInt
<1> HIDE DEF two, risk, gradient
<1>8. Best(1..m, two, g) \in 1..m
  BY <1>1, <1>5, BestQuery
<1>9. Best(1..m, risk, g) \in 1..m
  BY <1>1, <1>6, BestQuery
<1>10. Best(1..m, gradient, g) \in 1..m
  BY <1>1, <1>7, BestQuery
<1> QED
  BY <1>2, <1>3, <1>4, <1>8, <1>9, <1>10

\* Every policy of the command line that does not raise selects a query of the
\* call: the scores it ranks are numbers, and the best of a finite family of
\* numbers exists.
LEMMA PolicySelectsAQuery ==
  ASSUME system \in Systems, truth \in system.worlds, IsHistory(revealed, system),
         NEW m, NEW r, NEW c, IsRound(c, m, r), NEW samples, NEW L, IsBelief(L, m),
         \A i, j \in 1..m : c.rank[i] = c.rank[j] => i = j,
         NEW p \in SourcePolicies \union HullPolicies, ~Raises(p), NEW a \in ActionsFrom(p, c, samples, L)
  PROVE  a \in 1..m
<1>1. IsCall(c, m) /\ c.horizon \in 1..m
  BY DEF IsRound
<1>2. Queries(c) = 1..m /\ SourceAction(c) \in 1..m
  BY <1>1, CallFits
<1>3. CASE p \in {"random"} \union RidgePolicies
  <2>1. a \in Queries(c)
    BY <1>3 DEF ActionsFrom, RidgePolicies, HullPolicies, MarginPolicies, RolloutPolicies
  <2> QED
    BY <1>2, <2>1
<1>4. CASE p \in {"source_margin", "source_online_offset"}
  <2>1. a = SourceAction(c)
    BY <1>4 DEF ActionsFrom, RidgePolicies, HullPolicies, MarginPolicies, RolloutPolicies
  <2> QED
    BY <1>2, <2>1
<1>5. CASE p = "source_online_affine"
  <2>1. a = AffineAction(c)
    BY <1>5 DEF ActionsFrom, RidgePolicies, HullPolicies, MarginPolicies, RolloutPolicies
  <2> QED
    BY <1>1, <2>1, AffineIsAQuery
<1>6. CASE p \in PairedPolicies
  BY <1>1, <1>6, PairedPoliciesPay
<1>7. CASE p \in HullPolicies \ PairedPolicies
  <2>1. a \in IF system.supported THEN PosteriorActions(p, c, samples, L) ELSE {SourceAction(c)}
    BY <1>7 DEF ActionsFrom, HullPolicies, MarginPolicies, RolloutPolicies, RidgePolicies
  <2>2. CASE ~system.supported
    BY <1>2, <2>1, <2>2
  <2>3. CASE system.supported
    <3>0. a \in PosteriorActions(p, c, samples, L)
      BY <2>1, <2>3
    <3>1. CASE p \in MarginPolicies
      <4>1. a = MarginAction(p, c, L)
        BY <3>0, <3>1 DEF PosteriorActions, MarginPolicies, RolloutPolicies
      <4> QED
        BY <3>1, <4>1, MarginIsAQuery
    <3>2. CASE p \in RolloutPolicies
      <4>1. a \in RolloutActions(p, c, samples)
        BY <3>0, <3>2 DEF PosteriorActions, MarginPolicies, RolloutPolicies
      <4> QED
        BY <1>1, <1>7, <3>2, <4>1, RolloutsSelectQueries
    <3>3. CASE p = "delta_hull_anchored_rollout"
      <4>1. a = TwoQueryRollout(c, L)
        BY <3>0, <3>3 DEF PosteriorActions, MarginPolicies, RolloutPolicies
      <4> QED
        BY <4>1, RankedIsAQuery
    <3>4. CASE p = "protocol_hull_risk_reduction"
      <4>1. a = RiskAction(c, L)
        BY <3>0, <3>4 DEF PosteriorActions, MarginPolicies, RolloutPolicies
      <4> QED
        BY <4>1, RankedIsAQuery
    <3>5. CASE p = "cal_style_hull_entropy"
      <4>1. a \in Queries(c)
        BY <3>0, <3>5 DEF PosteriorActions, MarginPolicies, RolloutPolicies, EntropyActions
      <4> QED
        BY <1>2, <4>1
    <3>6. CASE p = "protocol_hull_knowledge_gradient"
      <4>1. a = GradientAction(c, L)
        BY <3>0, <3>6 DEF PosteriorActions, MarginPolicies, RolloutPolicies
      <4> QED
        BY <4>1, RankedIsAQuery
    <3>7. CASE p = "delta_hull_active_search"
      <4>1. a = DeltaAction(c, L)
        BY <3>0, <3>7 DEF PosteriorActions, HullActions, MarginPolicies, RolloutPolicies
      <4> QED
        BY <1>1, <4>1, DeltaIsAQuery
    <3>8. CASE p = "matched_local_hull_probability"
      <4>1. a = LocalAction(c, L)
        BY <3>0, <3>8 DEF PosteriorActions, HullActions, LocalAction, MarginPolicies, RolloutPolicies
      <4> QED
        BY <1>1, <4>1, LocalActionIsAQuery
    <3>9. CASE p = "safe_hull_ens"
      <4>1. PICK radius \in Radii : a = SafeAction(c, L, 2, radius)
        BY <3>0, <3>9 DEF PosteriorActions, HullActions, MarginPolicies, RolloutPolicies
      <4> QED
        BY <1>1, <4>1, SafeIsAQuery
    <3> QED
      BY <1>7, <2>3, <3>1, <3>2, <3>3, <3>4, <3>5, <3>6, <3>7, <3>8, <3>9 DEF HullPolicies, Raises
  <2> QED
    BY <2>2, <2>3
<1> QED
  BY <1>3, <1>4, <1>5, <1>6, <1>7 DEF SourcePolicies

\* The ids that a call sends are different ids of the pool.
LEMMA RanksAreDifferent ==
  ASSUME NEW s \in Systems, NEW q, IsHistory(q, s), NEW w \in s.worlds, (DOMAIN s.xs) \ ToSet(q) # {}
  PROVE  LET m == Cardinality((DOMAIN s.xs) \ ToSet(q))  c == CallAfter(s, q, w) IN
         \A i, j \in 1..m : c.rank[i] = c.rank[j] => i = j
<1> DEFINE rest == (DOMAIN s.xs) \ ToSet(q)
           m == Cardinality(rest)
           left == LeftAfter(s, q)
           c == CallAfter(s, q, w)
<1>1. IsCall(c, m)
  BY CallsAreCalls
<1>2. left \in [1..m -> rest]
  BY CallsAreCalls
<1>3. \A i, j \in 1..m : i < j => left[i] < left[j]
  BY CallsAreCalls
<1>4. c.rank = [k \in DOMAIN left |-> s.rank[left[k]]]
  BY DEF CallAfter, CallWith
<1>5. m \in Nat
  BY <1>1 DEF IsCall
<1>6. rest \subseteq 1..Len(s.xs) /\ Len(s.xs) \in Nat
  BY SystemShape
<1> HIDE DEF rest, m, left, c
<1>7. ASSUME NEW i \in 1..m, NEW j \in 1..m, c.rank[i] = c.rank[j]
      PROVE  i = j
  <2>1. left[i] \in 1..Len(s.xs) /\ left[j] \in 1..Len(s.xs)
    BY <1>2, <1>6
  <2>2. s.rank[left[i]] = s.rank[left[j]]
    BY <1>2, <1>4, <1>7
  <2>3. left[i] = left[j]
    BY <2>1, <2>2, SystemShape
  <2> QED
    BY <1>3, <1>5, <1>6, <2>1, <2>3
<1>8. \A i, j \in 1..m : c.rank[i] = c.rank[j] => i = j
  BY <1>7
<1> QED
  BY <1>8 DEF rest, m, c

\* The samples of a round: finitely many, and the answers so far are of one.
LEMMA SamplesFacts ==
  ASSUME NEW s \in Systems, NEW q, IsHistory(q, s), NEW w \in s.worlds
  PROVE  IsFiniteSet(SamplesAfter(s, q, w)) /\ SamplesAfter(s, q, w) # {}
<1> DEFINE W == {v \in s.worlds : \A k \in ToSet(q) : v[k] = w[k]}
           f == [v \in W |-> VisibleAfter(s, q, v)]
<1>1. IsFiniteSet(W)
  <2>1. W \subseteq s.worlds
    OBVIOUS
  <2> QED
    BY <2>1, SystemShape, FS_Subset
<1>2. w \in W
  OBVIOUS
<1>3. SamplesAfter(s, q, w) = {f[v] : v \in W}
  BY DEF SamplesAfter
<1>4. f \in Surjection(W, {f[v] : v \in W})
  BY DEF Surjection
<1> HIDE DEF f, W
<1>5. IsFiniteSet({f[v] : v \in W})
  BY <1>1, <1>4, FS_Surjection
<1> QED
  BY <1>2, <1>3, <1>5

-------------------------------------------------------------------------------
(* The loop and its simulation.                                             *)

\* Every round of the loop is one of those that the gate has simulated.
LoopFollows ==
  policy \in {"source_margin", IC} /\ system.supported =>
    \A after : AreRounds(after, policy, system, truth) => revealed \in after[Len(revealed)]

\* What is revealed are queries, no more than can be paid, and the rounds of the
\* policies that the gate chooses between are simulated ones.
CampaignInvariant ==
  /\ GateInvariant /\ IsHistory(revealed, system)
  /\ policy \in {"undecided", "source_margin", IC} \union Policies
  /\ Len(revealed) <= system.budget
  /\ LoopFollows

\* What the gate chooses the worker selects in the same way.
LEMMA WorkerIsSimulated ==
  ASSUME NEW p \in {"source_margin", IC}, system.supported, NEW c, NEW samples, NEW L,
         NEW a \in ActionsFrom(p, c, samples, L)
  PROVE  a \in RoundActions(p, c, samples)
<1>1. CASE p = "source_margin"
  BY <1>1 DEF ActionsFrom, RidgePolicies, HullPolicies, MarginPolicies, RolloutPolicies, RoundActions
<1>2. CASE p = IC
  <2>1. a \in PosteriorActions(p, c, samples, L)
    BY <1>2 DEF IC, ActionsFrom, RidgePolicies, HullPolicies, MarginPolicies, RolloutPolicies
  <2>2. a \in RolloutActions(p, c, samples)
    BY <1>2, <2>1 DEF IC, PosteriorActions, MarginPolicies, RolloutPolicies
  <2>3. a \in ConfirmedActions(c, Streams(c, samples))
    BY <1>2, <2>2 DEF IC, RolloutActions, ConfirmedFromSamples
  <2> QED
    BY <1>2, <2>3 DEF IC, RoundActions
<1> QED
  BY <1>1, <1>2

LEMMA CampaignStarts ==
  ASSUME GateInit \/ Init
  PROVE  CampaignInvariant
<1>1. GateInvariant
  BY EmptyHistory DEF GateInit, Init, GateInvariant
<1>2. revealed = <<>> /\ IsHistory(revealed, system) /\ Len(revealed) = 0
  BY EmptyHistory, EmptyFacts DEF GateInit, Init
<1>3. policy \in {"undecided", "source_margin", IC} \union Policies
  BY DEF GateInit, Init
<1>4. system.budget \in Nat
  BY <1>1, SystemShape DEF GateInvariant
<1>5. LoopFollows
  BY <1>2 DEF LoopFollows, AreRounds
<1> QED
  BY <1>1, <1>2, <1>3, <1>4, <1>5 DEF CampaignInvariant

\* A round reveals a query of the pool, as the simulation does.
LEMMA RoundsFollow ==
  ASSUME CampaignInvariant, Respond, policy # "undecided"
  PROVE  /\ IsHistory(revealed', system) /\ AnySeq(revealed')
         /\ Len(revealed') = Len(revealed) + 1 /\ Len(revealed) \in Nat
         /\ Len(revealed') <= system.budget
         /\ policy \in {"source_margin", IC} /\ system.supported =>
              \A after : AreRounds(after, policy, system, truth) => revealed' \in after[Len(revealed')]
<1> DEFINE m == Cardinality((DOMAIN system.xs) \ ToSet(revealed))
           L == Labelled(Call, Samples)
<1>1. /\ system \in Systems /\ truth \in system.worlds /\ AnySeq(revealed) /\ IsHistory(revealed, system)
      /\ policy \in SourcePolicies \union HullPolicies /\ ~Raises(policy)
      /\ (DOMAIN system.xs) \ ToSet(revealed) # {} /\ Len(revealed) < system.budget
  <2>1. policy \in SourcePolicies \union HullPolicies
    <3>1. policy \in {"source_margin", IC} \union Policies
      BY DEF CampaignInvariant
    <3>2. "source_margin" \in SourcePolicies /\ IC \in HullPolicies
      BY DEF SourcePolicies, HullPolicies, IC, RolloutPolicies
    <3> QED
      BY <3>1, <3>2, PolicyAssumption
  <2> QED
    BY <2>1 DEF CampaignInvariant, GateInvariant, Respond, CanPay, Remaining
<1>2. PICK a \in Actions(policy, Call) : revealed' = Append(revealed, Left[a])
  BY DEF Respond
<1>3. /\ AnySeq(revealed') /\ Len(revealed') = Len(revealed) + 1 /\ Len(revealed) \in Nat
      /\ \A k \in 1..Len(revealed) : revealed'[k] = revealed[k]
      /\ revealed'[Len(revealed) + 1] = Left[a]
  BY <1>1, <1>2, AppendFacts
<1>4. a \in ActionsFrom(policy, Call, Samples, L)
  BY <1>2 DEF Actions
<1>5. PICK r : IsRound(Call, m, r)
  BY <1>1, RoundsAreRounds DEF Call
<1>6. \A v \in Samples : v \in [1..m -> Int]
  BY <1>1, RoundsAreRounds DEF Samples
<1>7. IsFiniteSet(Samples) /\ Samples # {}
  BY <1>1, SamplesFacts DEF Samples
<1>8. \A i, j \in 1..m : Call.rank[i] = Call.rank[j] => i = j
  BY <1>1, RanksAreDifferent DEF Call
<1>9. Left \in [1..m -> (DOMAIN system.xs) \ ToSet(revealed)]
  BY <1>1, CallsAreCalls DEF Left
<1> HIDE DEF m
<1>10. IsBelief(L, m)
  <2>1. PICK c, S : c = Call /\ S = Samples
    OBVIOUS
  <2>2. m \in Nat /\ c.xs \in [1..m -> Compositions]
    BY <1>5, <2>1 DEF IsRound, IsCall
  <2>3. IsBelief(Labelled(c, S), m)
    BY <1>6, <1>7, <2>1, <2>2, SamplesAreBelieved
  <2> QED
    BY <2>1, <2>3
<1> HIDE DEF L
<1>11. a \in 1..m
  <2>1. PICK c, S : c = Call /\ S = Samples
    OBVIOUS
  <2> QED
    BY <1>1, <1>4, <1>5, <1>8, <1>10, <2>1, PolicySelectsAQuery
<1>12. Left[a] \in 1..Len(system.xs)
  BY <1>1, <1>9, <1>11, SystemShape
<1>13. IsHistory(revealed', system)
  <2>1. \A k \in 1..(Len(revealed) + 1) : k \in 1..Len(revealed) \/ k = Len(revealed) + 1
    BY <1>3
  <2> QED
    BY <1>1, <1>3, <1>12, <2>1 DEF IsHistory
<1>14. Len(revealed') <= system.budget
  <2>1. system.budget \in Nat
    BY <1>1, SystemShape
  <2> QED
    BY <1>1, <1>3, <2>1
<1>15. ASSUME policy \in {"source_margin", IC}, system.supported,
              NEW after, AreRounds(after, policy, system, truth)
       PROVE  revealed' \in after[Len(revealed')]
  <2>1. revealed \in after[Len(revealed)]
    BY <1>15 DEF CampaignInvariant, LoopFollows
  <2>2. a \in RoundActions(policy, Call, Samples)
    BY <1>4, <1>15, WorkerIsSimulated
  <2>3. Left[a] \in Selections(policy, system, revealed, truth)
    BY <2>2 DEF Selections, Left, Call, Samples
  <2>4. revealed' \in RoundsOf(policy, system, truth, after[Len(revealed)])
    BY <1>2, <2>1, <2>3 DEF RoundsOf
  <2>5. Len(revealed) + 1 \in 1..system.budget /\ (Len(revealed) + 1) - 1 = Len(revealed)
    <3>1. system.budget \in Nat
      BY <1>1, SystemShape
    <3> QED
      BY <1>1, <1>3, <3>1
  <2>6. after[Len(revealed) + 1] = RoundsOf(policy, system, truth, after[(Len(revealed) + 1) - 1])
    BY <1>15, <2>5 DEF AreRounds
  <2> QED
    BY <1>3, <2>4, <2>5, <2>6
<1> QED
  BY <1>3, <1>13, <1>14, <1>15

\* The invariant of the closed loop: whatever the policy, each round that does
\* not raise selects a query and reveals it, within the budget, and the loop after
\* a decision of the gate goes through rounds that the gate has simulated.
THEOREM CampaignInvariantHolds == GateSpec => []CampaignInvariant
<1>1. GateInit \/ Init => CampaignInvariant
  BY CampaignStarts
<1>2. ASSUME CampaignInvariant, GateInvariant', GateNext
      PROVE  CampaignInvariant'
  <2>1. system' = system /\ truth' = truth
    BY <1>2 DEF GateNext, Decide, Next, Respond, Crash
  <2>2. CASE Decide
    <3>1. revealed' = <<>> /\ Len(<<>>) = 0 /\ policy' \in {"source_margin", IC}
      <4>1. revealed' = <<>>
        BY <1>2, <2>2 DEF CampaignInvariant, GateInvariant, Decide
      <4>2. policy' \in {"source_margin", IC}
        BY <2>2 DEF Decide, Gate
      <4> QED
        BY <4>1, <4>2, EmptyFacts
    <3>2. IsHistory(revealed', system')
      BY <3>1, EmptyHistory
    <3>3. Len(revealed') <= system'.budget
      <4>1. system.budget \in Nat
        BY <1>2, SystemShape DEF CampaignInvariant, GateInvariant
      <4> QED
        BY <2>1, <3>1, <4>1
    <3>4. LoopFollows'
      BY <3>1 DEF LoopFollows, AreRounds
    <3> QED
      BY <1>2, <3>1, <3>2, <3>3, <3>4 DEF CampaignInvariant
  <2>3. CASE policy # "undecided" /\ Crash
    <3>1. revealed' = revealed /\ policy' = policy
      BY <2>3 DEF Crash
    <3>2. LoopFollows'
      BY <1>2, <2>1, <3>1 DEF CampaignInvariant, LoopFollows, AreRounds
    <3> QED
      BY <1>2, <2>1, <3>1, <3>2 DEF CampaignInvariant, IsHistory
  <2>4. CASE policy # "undecided" /\ Respond
    <3>1. policy' = policy
      BY <2>4 DEF Respond
    <3>2. IsHistory(revealed', system)
      BY <1>2, <2>4, RoundsFollow
    <3>3. Len(revealed') <= system.budget
      BY <1>2, <2>4, RoundsFollow
    <3>4. LoopFollows'
      <4>1. policy \in {"source_margin", IC} /\ system.supported =>
              \A after : AreRounds(after, policy, system, truth) => revealed' \in after[Len(revealed')]
        BY <1>2, <2>4, RoundsFollow
      <4> QED
        BY <2>1, <3>1, <4>1 DEF LoopFollows
    <3> QED
      BY <1>2, <2>1, <3>1, <3>2, <3>3, <3>4 DEF CampaignInvariant
  <2> QED
    BY <1>2, <2>2, <2>3, <2>4 DEF GateNext, Next
<1>3. CampaignInvariant /\ UNCHANGED vars => CampaignInvariant'
  BY DEF CampaignInvariant, GateInvariant, LoopFollows, AreRounds, IsHistory, vars
<1> QED
  BY <1>1, <1>2, <1>3, GateInvariantHolds, PTL DEF GateSpec

LEMMA RolloutsAreDeployed ==
  ASSUME CampaignInvariant
  PROVE  SimulatedIsDeployed
<1> SUFFICES ASSUME CanPay, system.supported, NEW c, c = Call, NEW w \in Samples
             PROVE  /\ SelectedBy(c, w, SourceAction(c)) = Deployed(c, w)
                    /\ \A a \in Queries(c) : Rewards(c, w)[a].terminal <= Rewards(c, w)[a].causal
  BY DEF SimulatedIsDeployed
<1> DEFINE m == Cardinality((DOMAIN system.xs) \ ToSet(revealed))
<1>1. /\ system \in Systems /\ truth \in system.worlds /\ IsHistory(revealed, system)
      /\ Len(revealed) < system.budget /\ (DOMAIN system.xs) \ ToSet(revealed) # {}
  BY DEF CampaignInvariant, GateInvariant, CanPay, Remaining
<1>2. PICK r : IsRound(c, m, r)
  BY <1>1, RoundsAreRounds DEF Call
<1>3. w \in [1..m -> Int]
  BY <1>1, RoundsAreRounds DEF Samples
<1> HIDE DEF m
<1>4. Queries(c) = 1..m
  BY <1>2, CallFits DEF IsRound
<1>5. SelectedBy(c, w, SourceAction(c)) = Deployed(c, w)
  BY <1>2, <1>3, SimulatedSelection
<1>6. \A a \in 1..m : Rewards(c, w)[a].terminal <= Rewards(c, w)[a].causal
  BY <1>2, <1>3, TerminalIsCausal
<1> QED
  BY <1>4, <1>5, <1>6

LEMMA LoopsAreSimulated ==
  ASSUME CampaignInvariant
  PROVE  LoopIsSimulated
<1> SUFFICES ASSUME policy \in {"source_margin", IC}, system.supported, Len(revealed) = system.budget
             PROVE  /\ revealed \in Campaigns(policy, system, truth)
                    /\ Value(system, revealed, truth).terminal <= Value(system, revealed, truth).history
  BY DEF LoopIsSimulated
<1>1. system \in Systems /\ truth \in system.worlds /\ IsHistory(revealed, system)
  BY DEF CampaignInvariant, GateInvariant
<1>2. PICK after : AreRounds(after, policy, system, truth)
  <2>1. system.budget \in Nat
    BY <1>1, SystemShape
  <2> QED
    BY <2>1, CampaignsByRounds
<1>3. revealed \in after[system.budget]
  BY <1>2 DEF CampaignInvariant, LoopFollows
<1>4. Campaigns(policy, system, truth) = after[system.budget]
  BY <1>2 DEF AreRounds
<1>5. Value(system, revealed, truth).terminal <= Value(system, revealed, truth).history
  BY <1>1, HistoryKeepsMembers
<1> QED
  BY <1>3, <1>4, <1>5

\* What a rollout or the gate simulates is what the worker and the loop then do:
\* with any systems, samples, thresholds and blocks, a rollout selects the set
\* that source_margin would, no reward counts a member that the selected queries
\* do not show, and the loop of a gated campaign is one of its simulated ones.
THEOREM SimulationIsAlwaysFaithful == GateSpec => []SimulationIsFaithful
<1>1. CampaignInvariant => SimulationIsFaithful
  BY RolloutsAreDeployed, LoopsAreSimulated DEF SimulationIsFaithful
<1> QED
  BY <1>1, CampaignInvariantHolds, PTL

-------------------------------------------------------------------------------
(* Counting votes: by query, by sample, and by answer.                      *)

\* What a batch of queries is worth: their members, in all samples.
Worth(L, T) == SumOver([b \in T |-> Votes(L, b)])

LEMMA WorthIs ==
  ASSUME NEW L, IsFiniteSet(DOMAIN L), NEW T, IsFiniteSet(T)
  PROVE  /\ [b \in T |-> Votes(L, b)] \in [T -> Int]
         /\ Worth(L, T) = SumFunctionOnSet([b \in T |-> Votes(L, b)], T)
         /\ Worth(L, T) \in Int
<1> DEFINE F == [b \in T |-> Votes(L, b)]
<1>1. \A b \in T : Votes(L, b) \in Int
  <2> TAKE b \in T
  <2>1. Votes(L, b) \in Nat
    BY VotesAreNat
  <2> QED
    BY <2>1
<1>2. F \in [T -> Int] /\ DOMAIN F = T
  BY <1>1
<1>3. Worth(L, T) = SumFunctionOnSet(F, DOMAIN F)
  BY DEF Worth, SumOver
<1> HIDE DEF F
<1>4. SumFunctionOnSet(F, T) \in Int
  BY <1>2, SumIsInt
<1>5. Worth(L, T) = SumFunctionOnSet(F, T)
  BY <1>2, <1>3
<1> QED
  BY <1>2, <1>4, <1>5 DEF F

\* The votes for a query, one sample at a time.
Ballot(L, b) == [s \in DOMAIN L |-> IF b \in L[s] THEN 1 ELSE 0]

LEMMA VotesAreBallots ==
  ASSUME NEW L, IsFiniteSet(DOMAIN L), NEW b
  PROVE  /\ Ballot(L, b) \in [DOMAIN L -> Int]
         /\ Votes(L, b) = SumFunctionOnSet(Ballot(L, b), DOMAIN L)
<1>1. PICK D, T : D = DOMAIN L /\ T = {s \in DOMAIN L : b \in L[s]}
  OBVIOUS
<1>2. PICK G : G = Ballot(L, b)
  OBVIOUS
<1>3. G \in [D -> Int] /\ T \in SUBSET D /\ \A s \in D : G[s] = IF s \in T THEN 1 ELSE 0
  BY <1>1, <1>2 DEF Ballot
<1>4. SumFunctionOnSet(G, D) = Cardinality(T)
  BY <1>1, <1>3, CountIsSum
<1> QED
  BY <1>1, <1>2, <1>3, <1>4 DEF Votes

\* The members that a batch finds in every sample.
Found(L, T) == [s \in DOMAIN L |-> Cardinality(T \intersect L[s])]

LEMMA WorthIsFound ==
  ASSUME NEW L, IsFiniteSet(DOMAIN L), NEW T, IsFiniteSet(T)
  PROVE  /\ Found(L, T) \in [DOMAIN L -> Int]
         /\ Worth(L, T) = SumFunctionOnSet(Found(L, T), DOMAIN L)
<1> DEFINE f == [b \in T |-> Ballot(L, b)]
           rows == [b \in T |-> Votes(L, b)]
           columns == [s \in DOMAIN L |-> [b \in T |-> IF b \in L[s] THEN 1 ELSE 0]]
           sums == Found(L, T)
<1>1. rows \in [T -> Int] /\ Worth(L, T) = SumFunctionOnSet(rows, T)
  BY WorthIs
<1>2. f \in [T -> [DOMAIN L -> Int]] /\ columns \in [DOMAIN L -> [T -> Int]]
  BY VotesAreBallots
<1>3. \A b \in T, s \in DOMAIN L : columns[s][b] = f[b][s]
  BY DEF Ballot
<1>4. \A b \in T : rows[b] = SumFunctionOnSet(f[b], DOMAIN L)
  BY VotesAreBallots
<1>5. ASSUME NEW s \in DOMAIN L
      PROVE  sums[s] = SumFunctionOnSet(columns[s], T) /\ sums[s] \in Int
  <2>1. PICK G, U : G = columns[s] /\ U = T \intersect L[s]
    OBVIOUS
  <2>2. G \in [T -> Int] /\ U \in SUBSET T /\ \A b \in T : G[b] = IF b \in U THEN 1 ELSE 0
    BY <2>1
  <2>3. SumFunctionOnSet(G, T) = Cardinality(U)
    BY <2>2, CountIsSum
  <2>4. SumFunctionOnSet(G, T) \in Int
    BY <2>2, SumIsInt
  <2>5. sums[s] = Cardinality(U)
    BY <2>1 DEF Found
  <2> QED
    BY <2>1, <2>3, <2>4, <2>5
<1>6. sums \in [DOMAIN L -> Int]
  <2>1. sums = [s \in DOMAIN L |-> sums[s]]
    BY DEF Found
  <2>2. \A s \in DOMAIN L : sums[s] \in Int
    BY <1>5
  <2> HIDE DEF sums
  <2> QED
    BY <2>1, <2>2
<1>7. \A s \in DOMAIN L : sums[s] = SumFunctionOnSet(columns[s], T)
  BY <1>5
<1> HIDE DEF f, rows, columns, sums
<1>8. Tabled(T, DOMAIN L, f, rows, columns, sums)
  BY <1>1, <1>2, <1>3, <1>4, <1>6, <1>7 DEF Tabled
<1>9. SumFunctionOnSet(rows, T) = SumFunctionOnSet(sums, DOMAIN L)
  BY <1>8, SumsExchange
<1> QED
  BY <1>1, <1>6, <1>9 DEF sums

\* A function of the samples, summed over those that give an answer.
PartsOf(L, a, F) ==
  [e \in Energies(L, a) |-> SumFunctionOnSet(F, {s \in DOMAIN L : s[a] = e})]

LEMMA SumByAnswers ==
  ASSUME NEW m, NEW L, IsBelief(L, m), NEW a \in 1..m, NEW F \in [DOMAIN L -> Int]
  PROVE  /\ PartsOf(L, a, F) \in [Energies(L, a) -> Int]
         /\ SumFunctionOnSet(F, DOMAIN L) = SumFunctionOnSet(PartsOf(L, a, F), Energies(L, a))
<1> DEFINE p == [s \in DOMAIN L |-> s[a]]
<1>1. PICK D, E : D = DOMAIN L /\ E = Energies(L, a)
  OBVIOUS
<1>2. IsFiniteSet(D) /\ IsFiniteSet(E)
  BY <1>1, AnswersAreFinite DEF IsBelief
<1>3. p \in [D -> E]
  BY <1>1 DEF Energies
<1>4. PICK parts : parts = PartsOf(L, a, F)
  OBVIOUS
<1>5. ASSUME NEW e \in E
      PROVE  SumFunctionOnSet(F, {s \in D : s[a] = e}) \in Int
  <2>1. PICK T : T = {s \in D : s[a] = e}
    OBVIOUS
  <2>2. T \in SUBSET D /\ F \in [D -> Int]
    BY <1>1, <2>1
  <2>3. IsFiniteSet(T)
    BY <1>2, <2>2, FS_Subset
  <2>4. SumFunctionOnSet(F, T) \in Int
    BY <2>2, <2>3, SumAdds
  <2> QED
    BY <2>1, <2>4
<1>6. parts \in [E -> Int] /\ \A e \in E : parts[e] = SumFunctionOnSet(F, {s \in D : s[a] = e})
  BY <1>1, <1>4, <1>5 DEF PartsOf
<1>7. \A e \in E : {s \in D : p[s] = e} = {s \in D : s[a] = e}
  BY <1>1
<1>8. \A e \in E : parts[e] = SumFunctionOnSet(F, {s \in D : p[s] = e})
  BY <1>6, <1>7
<1> HIDE DEF p
<1>9. Parted(D, F, E, p, parts)
  BY <1>1, <1>3, <1>6, <1>8 DEF Parted
<1>10. SumFunctionOnSet(F, D) = SumFunctionOnSet(parts, E)
  BY <1>2, <1>9, SumOfParts
<1> QED
  BY <1>1, <1>4, <1>6, <1>10

\* What is believed after an answer.
LEMMA GivenIsBelief ==
  ASSUME NEW m, NEW L, IsBelief(L, m), NEW a \in 1..m, NEW e \in Energies(L, a)
  PROVE  /\ IsBelief(Given(L, a, e), m) /\ DOMAIN Given(L, a, e) = {s \in DOMAIN L : s[a] = e}
         /\ \A s \in DOMAIN Given(L, a, e) : s \in DOMAIN L /\ Given(L, a, e)[s] = L[s]
<1>1. DOMAIN Given(L, a, e) = {s \in DOMAIN L : s[a] = e}
  BY DEF Given
<1>2. \A s \in DOMAIN Given(L, a, e) : s \in DOMAIN L /\ Given(L, a, e)[s] = L[s]
  BY DEF Given
<1>3. IsFiniteSet(DOMAIN Given(L, a, e)) /\ DOMAIN Given(L, a, e) # {}
  BY AnswersAreFinite
<1> QED
  BY <1>1, <1>2, <1>3 DEF IsBelief

LEMMA VotesByAnswers ==
  ASSUME NEW m, NEW L, IsBelief(L, m), NEW a \in 1..m, NEW b
  PROVE  /\ [e \in Energies(L, a) |-> Votes(Given(L, a, e), b)] \in [Energies(L, a) -> Int]
         /\ Votes(L, b) = SumFunctionOnSet([e \in Energies(L, a) |-> Votes(Given(L, a, e), b)], Energies(L, a))
<1>1. IsFiniteSet(DOMAIN L)
  BY DEF IsBelief
<1>2. PICK F : F = Ballot(L, b)
  OBVIOUS
<1>3. F \in [DOMAIN L -> Int] /\ Votes(L, b) = SumFunctionOnSet(F, DOMAIN L)
  BY <1>1, <1>2, VotesAreBallots
<1>4. /\ PartsOf(L, a, F) \in [Energies(L, a) -> Int]
      /\ SumFunctionOnSet(F, DOMAIN L) = SumFunctionOnSet(PartsOf(L, a, F), Energies(L, a))
  BY <1>3, SumByAnswers
<1>5. ASSUME NEW e \in Energies(L, a)
      PROVE  Votes(Given(L, a, e), b) = SumFunctionOnSet(F, {s \in DOMAIN L : s[a] = e})
  <2>1. PICK G, T : G = Given(L, a, e) /\ T = {s \in DOMAIN L : s[a] = e}
    OBVIOUS
  <2>2. IsBelief(G, m) /\ DOMAIN G = T /\ \A s \in DOMAIN G : s \in DOMAIN L /\ G[s] = L[s]
    BY <2>1, GivenIsBelief
  <2>3. IsFiniteSet(T)
    BY <2>2 DEF IsBelief
  <2>4. Votes(G, b) = SumFunctionOnSet(Ballot(G, b), T)
    BY <2>2, <2>3, VotesAreBallots
  <2>5. PICK H : H = Ballot(G, b)
    OBVIOUS
  <2>6. \A s \in T : F[s] = H[s]
    BY <1>2, <2>2, <2>5 DEF Ballot
  <2>7. SumFunctionOnSet(F, T) = SumFunctionOnSet(H, T)
    BY <2>3, <2>6, SumSame
  <2> QED
    BY <2>1, <2>4, <2>5, <2>7
<1>6. PartsOf(L, a, F) = [e \in Energies(L, a) |-> Votes(Given(L, a, e), b)]
  BY <1>5 DEF PartsOf
<1> QED
  BY <1>3, <1>4, <1>6

LEMMA WorthByAnswers ==
  ASSUME NEW m, NEW L, IsBelief(L, m), NEW a \in 1..m, NEW T, IsFiniteSet(T)
  PROVE  /\ [e \in Energies(L, a) |-> Worth(Given(L, a, e), T)] \in [Energies(L, a) -> Int]
         /\ Worth(L, T) = SumFunctionOnSet([e \in Energies(L, a) |-> Worth(Given(L, a, e), T)], Energies(L, a))
<1> DEFINE E == Energies(L, a)
           f == [e \in E |-> [b \in T |-> Votes(Given(L, a, e), b)]]
           rows == [e \in E |-> Worth(Given(L, a, e), T)]
           columns == [b \in T |-> [e \in E |-> Votes(Given(L, a, e), b)]]
           sums == [b \in T |-> Votes(L, b)]
<1>1. IsFiniteSet(DOMAIN L)
  BY DEF IsBelief
<1>2. IsFiniteSet(E)
  BY AnswersAreFinite
<1>3. ASSUME NEW e \in E
      PROVE  /\ f[e] \in [T -> Int] /\ rows[e] \in Int
             /\ rows[e] = SumFunctionOnSet(f[e], T)
  <2>1. PICK G : G = Given(L, a, e)
    OBVIOUS
  <2>2. IsFiniteSet(DOMAIN G)
    BY <2>1, AnswersAreFinite
  <2>3. /\ [b \in T |-> Votes(G, b)] \in [T -> Int]
        /\ Worth(G, T) = SumFunctionOnSet([b \in T |-> Votes(G, b)], T) /\ Worth(G, T) \in Int
    BY <2>2, WorthIs
  <2> QED
    BY <2>1, <2>3
<1>4. f \in [E -> [T -> Int]] /\ rows \in [E -> Int] /\ \A e \in E : rows[e] = SumFunctionOnSet(f[e], T)
  BY <1>3
<1>5. ASSUME NEW b \in T
      PROVE  columns[b] \in [E -> Int] /\ sums[b] = SumFunctionOnSet(columns[b], E)
  BY VotesByAnswers
<1>6. columns \in [T -> [E -> Int]] /\ \A b \in T : sums[b] = SumFunctionOnSet(columns[b], E)
  BY <1>5
<1>7. sums \in [T -> Int] /\ Worth(L, T) = SumFunctionOnSet(sums, T)
  BY <1>1, WorthIs
<1>8. \A e \in E, b \in T : columns[b][e] = f[e][b]
  OBVIOUS
<1> HIDE DEF E, f, rows, columns, sums
<1>9. Tabled(E, T, f, rows, columns, sums)
  BY <1>4, <1>6, <1>7, <1>8 DEF Tabled
<1>10. SumFunctionOnSet(rows, E) = SumFunctionOnSet(sums, T)
  BY <1>2, <1>9, SumsExchange
<1> QED
  BY <1>4, <1>7, <1>10 DEF rows, E

\* The best batch is a batch, and no other of its size is worth more.
LEMMA BestBatch ==
  ASSUME NEW L, IsFiniteSet(DOMAIN L), NEW A, IsFiniteSet(A), NEW k \in Nat, k <= Cardinality(A)
  PROVE  /\ \E T \in SUBSET A : Cardinality(T) = k /\ BestVotes(L, A, k) = Worth(L, T)
         /\ \A T \in SUBSET A : Cardinality(T) = k => Worth(L, T) <= BestVotes(L, A, k)
<1> DEFINE S == {T \in SUBSET A : Cardinality(T) = k}
           f == [T \in S |-> Worth(L, T)]
<1>1. S = kSubset(k, A)
  BY DEF kSubset
<1>2. S # {}
  BY <1>1, SubsetsOfSize
<1>3. IsFiniteSet(S)
  <2>1. IsFiniteSet(SUBSET A)
    BY FS_SUBSET
  <2>2. S \subseteq SUBSET A
    OBVIOUS
  <2> QED
    BY <2>1, <2>2, FS_Subset
<1>4. \A T \in S : Worth(L, T) \in Int
  <2> TAKE T \in S
  <2>1. IsFiniteSet(T)
    BY FS_Subset
  <2> QED
    BY <2>1, WorthIs
<1>5. f \in [S -> Int]
  BY <1>4
<1>6. BestVotes(L, A, k) = Max({f[T] : T \in S})
  <2>1. {f[T] : T \in S} = {Worth(L, T) : T \in S}
    OBVIOUS
  <2>2. BestVotes(L, A, k) = Max({Worth(L, T) : T \in kSubset(k, A)})
    BY DEF BestVotes, Worth
  <2> QED
    BY <1>1, <2>1, <2>2
<1>7. \A T \in S : f[T] = Worth(L, T)
  OBVIOUS
<1>8. \A T : T \in S <=> T \in SUBSET A /\ Cardinality(T) = k
  OBVIOUS
<1> HIDE DEF f, S
<1>9. \E T \in S : Max({f[U] : U \in S}) = f[T] /\ \A U \in S : f[T] >= f[U]
  BY <1>2, <1>3, <1>5, ExtremesOfFamily
<1>10. PICK T \in S : BestVotes(L, A, k) = f[T] /\ \A U \in S : f[T] >= f[U]
  BY <1>6, <1>9
<1>11. \A U \in S : Worth(L, U) <= BestVotes(L, A, k)
  <2> TAKE U \in S
  <2>1. f[U] = Worth(L, U) /\ f[U] \in Int /\ f[T] \in Int /\ f[T] >= f[U]
    BY <1>5, <1>7, <1>10
  <2> QED
    BY <1>10, <2>1
<1> QED
  BY <1>7, <1>8, <1>10, <1>11

\* The best batch of k after an answer, for every answer.
BestAfter(L, a, A, k) == [e \in Energies(L, a) |-> BestVotes(Given(L, a, e), A, k)]

LEMMA BestAfterIsInt ==
  ASSUME NEW m, NEW L, IsBelief(L, m), NEW a \in 1..m, NEW A, IsFiniteSet(A), NEW k \in Nat,
         k <= Cardinality(A)
  PROVE  /\ BestAfter(L, a, A, k) \in [Energies(L, a) -> Int]
         /\ SumOver(BestAfter(L, a, A, k)) = SumFunctionOnSet(BestAfter(L, a, A, k), Energies(L, a))
<1>1. ASSUME NEW e \in Energies(L, a)
      PROVE  BestVotes(Given(L, a, e), A, k) \in Int
  <2>1. PICK G : G = Given(L, a, e)
    OBVIOUS
  <2>2. IsFiniteSet(DOMAIN G)
    BY <2>1, AnswersAreFinite
  <2>3. BestVotes(G, A, k) \in Int
    BY <2>2, BestVotesAreInt
  <2> QED
    BY <2>1, <2>3
<1>2. PICK F : F = BestAfter(L, a, A, k)
  OBVIOUS
<1>3. F \in [Energies(L, a) -> Int] /\ DOMAIN F = Energies(L, a)
  BY <1>1, <1>2 DEF BestAfter
<1>4. SumOver(F) = SumFunctionOnSet(F, Energies(L, a))
  BY <1>3 DEF SumOver
<1> QED
  BY <1>2, <1>3, <1>4

\* Choosing the batch after the answer is worth no less than choosing it before.
LEMMA AnswersHelp ==
  ASSUME NEW m, NEW L, IsBelief(L, m), NEW a \in 1..m, NEW A, IsFiniteSet(A), NEW k \in Nat,
         k <= Cardinality(A)
  PROVE  BestVotes(L, A, k) <= SumOver(BestAfter(L, a, A, k))
<1>1. IsFiniteSet(DOMAIN L) /\ IsFiniteSet(Energies(L, a))
  BY AnswersAreFinite DEF IsBelief
<1>2. PICK T \in SUBSET A : Cardinality(T) = k /\ BestVotes(L, A, k) = Worth(L, T)
  BY <1>1, BestBatch
<1>3. IsFiniteSet(T)
  BY FS_Subset
<1>4. PICK E, F, G : /\ E = Energies(L, a) /\ F = [e \in Energies(L, a) |-> Worth(Given(L, a, e), T)]
                     /\ G = BestAfter(L, a, A, k)
  OBVIOUS
<1>5. F \in [E -> Int] /\ Worth(L, T) = SumFunctionOnSet(F, E)
  BY <1>3, <1>4, WorthByAnswers
<1>6. G \in [E -> Int] /\ SumOver(G) = SumFunctionOnSet(G, E)
  BY <1>4, BestAfterIsInt
<1>7. \A e \in E : F[e] <= G[e]
  <2> TAKE e \in E
  <2>1. PICK H : H = Given(L, a, e)
    OBVIOUS
  <2>2. IsFiniteSet(DOMAIN H)
    BY <1>4, <2>1, AnswersAreFinite
  <2>3. Worth(H, T) <= BestVotes(H, A, k)
    BY <1>2, <2>2, BestBatch
  <2>4. F[e] = Worth(H, T) /\ G[e] = BestVotes(H, A, k)
    BY <1>4, <2>1 DEF BestAfter
  <2> QED
    BY <2>3, <2>4
<1>8. SumFunctionOnSet(F, E) <= SumFunctionOnSet(G, E)
  BY <1>1, <1>4, <1>5, <1>6, <1>7, SumGrowsWithTerms
<1> QED
  BY <1>2, <1>4, <1>5, <1>6, <1>8

LEMMA SumIsNat ==
  ASSUME NEW D, IsFiniteSet(D), NEW F \in [D -> Nat]
  PROVE  SumFunctionOnSet(F, D) \in Nat
<1> DEFINE Z == [x \in D |-> 0]
<1>1. F \in [D -> Int] /\ Z \in [D -> Int] /\ {} \in SUBSET D
  OBVIOUS
<1>2. (\A x \in D \ {} : Z[x] = 0) /\ (\A x \in D : Z[x] <= F[x])
  OBVIOUS
<1> HIDE DEF Z
<1>3. PICK none : none = {}
  OBVIOUS
<1>4. none \in SUBSET D /\ \A x \in D \ none : Z[x] = 0
  BY <1>1, <1>2, <1>3
<1>5. SumFunctionOnSet(Z, D) = SumFunctionOnSet(Z, none)
  BY <1>1, <1>4, SumRestricts
<1>6. SumFunctionOnSet(Z, none) = 0
  BY <1>3, SumOfNone
<1>7. SumFunctionOnSet(Z, D) <= SumFunctionOnSet(F, D)
  BY <1>1, <1>2, SumGrowsWithTerms
<1>8. SumFunctionOnSet(F, D) \in Int
  BY <1>1, SumIsInt
<1> QED
  BY <1>5, <1>6, <1>7, <1>8

\* What can be found with h more queries by someone who knows the sample.
Reachable(L, a, h) == [s \in DOMAIN L |-> Min({h, Cardinality(L[s] \ {a})})]

LEMMA ReachableIsNat ==
  ASSUME NEW m \in Nat, NEW L, IsBelief(L, m), NEW a, NEW h \in Nat
  PROVE  /\ Reachable(L, a, h) \in [DOMAIN L -> Nat]
         /\ \A s \in DOMAIN L, T \in SUBSET ((1..m) \ {a}) :
              Cardinality(T) <= h => Cardinality(T \intersect L[s]) <= Reachable(L, a, h)[s]
<1>1. IsFiniteSet(1..m)
  BY FirstNumbers
<1>2. ASSUME NEW s \in DOMAIN L
      PROVE  /\ Reachable(L, a, h)[s] \in Nat
             /\ \A T \in SUBSET ((1..m) \ {a}) :
                  Cardinality(T) <= h => Cardinality(T \intersect L[s]) <= Reachable(L, a, h)[s]
  <2>1. PICK M : M = L[s] \ {a}
    OBVIOUS
  <2>2. M \in SUBSET (1..m)
    BY <2>1 DEF IsBelief
  <2>3. IsFiniteSet(M)
    BY <1>1, <2>2, FS_Subset
  <2>4. PICK n \in Nat : n = Cardinality(M)
    BY <2>3, FS_CardinalityType
  <2>5. Reachable(L, a, h)[s] = Min({h, n})
    BY <2>1, <2>4 DEF Reachable
  <2>6. h \in Int /\ n \in Int
    OBVIOUS
  <2>7. Min({h, n}) \in {h, n}
    BY <2>6, LeastOfTwo
  <2>8. ASSUME NEW T \in SUBSET ((1..m) \ {a}), Cardinality(T) <= h
        PROVE  Cardinality(T \intersect L[s]) <= Reachable(L, a, h)[s]
    <3>1. PICK U : U = T \intersect L[s]
      OBVIOUS
    <3>2. U \subseteq M /\ U \subseteq T /\ T \subseteq 1..m
      BY <2>1, <3>1
    <3>3. IsFiniteSet(T)
      BY <1>1, <3>2, FS_Subset
    <3>4. Cardinality(U) <= Cardinality(M)
      BY <2>3, <3>2, FS_Subset
    <3>5. Cardinality(U) <= Cardinality(T) /\ IsFiniteSet(U)
      BY <3>2, <3>3, FS_Subset
    <3>6. Cardinality(U) \in Nat /\ Cardinality(T) \in Nat
      BY <3>3, <3>5, FS_CardinalityType
    <3>7. Cardinality(U) <= h /\ Cardinality(U) <= n
      BY <2>4, <2>8, <3>4, <3>5, <3>6
    <3> QED
      BY <2>5, <2>7, <3>1, <3>7
  <2> QED
    BY <2>5, <2>7, <2>8
<1>3. Reachable(L, a, h) = [s \in DOMAIN L |-> Reachable(L, a, h)[s]]
  BY DEF Reachable
<1> QED
  BY <1>2, <1>3

\* Knowing the sample is worth no less than knowing an answer.
LEMMA KnowingHelps ==
  ASSUME NEW m \in Nat, NEW L, IsBelief(L, m), NEW a \in 1..m, NEW k \in Nat,
         k <= Cardinality((1..m) \ {a}), NEW h \in Nat, k <= h
  PROVE  SumOver(BestAfter(L, a, (1..m) \ {a}, k)) <= SumFunctionOnSet(Reachable(L, a, h), DOMAIN L)
<1>1. PICK A : A = (1..m) \ {a}
  OBVIOUS
<1>2. IsFiniteSet(A) /\ IsFiniteSet(Energies(L, a))
  BY <1>1, RestFacts, AnswersAreFinite
<1>3. PICK F, E : F = Reachable(L, a, h) /\ E = Energies(L, a)
  OBVIOUS
<1>4. F \in [DOMAIN L -> Nat]
  BY <1>3, ReachableIsNat
<1>5. \A s \in DOMAIN L, T \in SUBSET A : Cardinality(T) <= h => Cardinality(T \intersect L[s]) <= F[s]
  BY <1>1, <1>3, ReachableIsNat
<1>6. F \in [DOMAIN L -> Int]
  BY <1>4
<1>7. PICK P : P = PartsOf(L, a, F)
  OBVIOUS
<1>8. P \in [E -> Int] /\ SumFunctionOnSet(F, DOMAIN L) = SumFunctionOnSet(P, E)
  BY <1>3, <1>6, <1>7, SumByAnswers
<1>9. PICK B : B = BestAfter(L, a, A, k)
  OBVIOUS
<1>10. B \in [E -> Int] /\ SumOver(B) = SumFunctionOnSet(B, E)
  BY <1>1, <1>2, <1>3, <1>9, BestAfterIsInt
<1>11. \A e \in E : B[e] <= P[e]
  <2> TAKE e \in E
  <2>1. PICK G, D : G = Given(L, a, e) /\ D = {s \in DOMAIN L : s[a] = e}
    OBVIOUS
  <2>2. IsBelief(G, m) /\ DOMAIN G = D /\ \A s \in D : s \in DOMAIN L /\ G[s] = L[s]
    <3>1. IsBelief(G, m)
      BY <1>3, <2>1, GivenIsBelief
    <3>2. DOMAIN G = D /\ \A s \in D : s \in DOMAIN L /\ G[s] = L[s]
      BY <2>1 DEF Given
    <3> QED
      BY <3>1, <3>2
  <2>3. IsFiniteSet(D) /\ D \in SUBSET (DOMAIN L)
    BY <2>2 DEF IsBelief
  <2>4. PICK T \in SUBSET A : Cardinality(T) = k /\ BestVotes(G, A, k) = Worth(G, T)
    BY <1>1, <1>2, <2>2, <2>3, BestBatch
  <2>5. IsFiniteSet(T)
    BY <1>2, FS_Subset
  <2>6. Found(G, T) \in [D -> Int] /\ Worth(G, T) = SumFunctionOnSet(Found(G, T), D)
    BY <2>2, <2>3, <2>5, WorthIsFound
  <2>7. PICK H, R : H = Found(G, T) /\ R = [s \in D |-> F[s]]
    OBVIOUS
  <2>8. R \in [D -> Int] /\ \A s \in D : R[s] = F[s]
    BY <1>6, <2>3, <2>7
  <2>9. \A s \in D : H[s] <= R[s]
    <3> TAKE s \in D
    <3>1. H[s] = Cardinality(T \intersect L[s])
      BY <2>2, <2>7 DEF Found
    <3>2. Cardinality(T \intersect L[s]) <= F[s]
      BY <1>5, <2>3, <2>4
    <3> QED
      BY <2>8, <3>1, <3>2
  <2>10. SumFunctionOnSet(H, D) <= SumFunctionOnSet(R, D)
    BY <2>3, <2>6, <2>7, <2>8, <2>9, SumGrowsWithTerms
  <2>11. SumFunctionOnSet(R, D) = SumFunctionOnSet(F, D)
    BY <2>3, <2>8, SumSame
  <2>12. P[e] = SumFunctionOnSet(F, D)
    BY <1>3, <1>7, <2>1 DEF PartsOf
  <2>13. B[e] = BestVotes(G, A, k)
    BY <1>3, <1>9, <2>1 DEF BestAfter
  <2> QED
    BY <2>4, <2>6, <2>7, <2>10, <2>11, <2>12, <2>13
<1>12. SumFunctionOnSet(B, E) <= SumFunctionOnSet(P, E)
  BY <1>2, <1>3, <1>8, <1>10, <1>11, SumGrowsWithTerms
<1> QED
  BY <1>1, <1>3, <1>8, <1>9, <1>10, <1>12

-------------------------------------------------------------------------------
(* The order of the lookahead values.                                       *)

\* The scores, with the batches that a horizon leaves room for.
LEMMA ScoresAre ==
  ASSUME NEW m, NEW c, IsCall(c, m), c.horizon \in 1..m, NEW L, IsBelief(L, m), NEW a \in 1..m
  PROVE  /\ m \in Nat /\ c.horizon - 1 \in Nat /\ Queries(c) = 1..m /\ IsFiniteSet((1..m) \ {a})
         /\ c.horizon - 1 <= Cardinality((1..m) \ {a})
         /\ Votes(L, a) \in Nat
         /\ Future(c, L, a) = IF c.horizon = 1 THEN 0 ELSE SumOver(BestAfter(L, a, (1..m) \ {a}, c.horizon - 1))
         /\ GradientScore(c, L, a)
              = Votes(L, a) + (IF c.horizon = 1 THEN 0 ELSE SumOver(BestAfter(L, a, (1..m) \ {a}, 1)))
         /\ Information(c, L, a)
              = IF c.horizon = 1 THEN 0
                ELSE SumOver(BestAfter(L, a, (1..m) \ {a}, 1)) - BestVotes(L, (1..m) \ {a}, 1)
<1>1. m \in Nat /\ Queries(c) = 1..m
  BY CallFits
<1>2. PICK A : A = (1..m) \ {a}
  OBVIOUS
<1>3. IsFiniteSet(A) /\ Cardinality(A) = m - 1 /\ m - 1 \in Nat
  BY <1>1, <1>2, RestFacts
<1>4. PICK h \in Nat : h = c.horizon /\ 1 <= h /\ h <= m
  BY <1>1
<1>5. Min({h - 1, m - 1}) = h - 1
  <2>1. h - 1 \in Int /\ m - 1 \in Int
    BY <1>1, <1>4
  <2>2. PICK x \in Int, y \in Int : x = h - 1 /\ y = m - 1
    BY <2>1
  <2>3. Min({x, y}) \in {x, y} /\ Min({x, y}) <= x /\ Min({x, y}) <= y
    BY LeastOfTwo
  <2> QED
    BY <1>1, <1>4, <2>2, <2>3
<1>6. h > 1 => A # {}
  <2>1. Cardinality({}) = 0
    BY FS_EmptySet
  <2> QED
    BY <1>1, <1>3, <1>4, <2>1
<1>7. Votes(L, a) \in Nat
  BY VotesAreNat DEF IsBelief
<1>8. Future(c, L, a) = IF h = 1 THEN 0 ELSE SumOver(BestAfter(L, a, A, h - 1))
  <2>1. Future(c, L, a) = IF h <= 1 \/ h - 1 = 0 THEN 0 ELSE SumOver(BestAfter(L, a, A, h - 1))
    BY <1>1, <1>2, <1>3, <1>4, <1>5 DEF Future, BestAfter
  <2> QED
    BY <1>4, <2>1
<1>9. GradientScore(c, L, a) = Votes(L, a) + (IF h = 1 THEN 0 ELSE SumOver(BestAfter(L, a, A, 1)))
  <2>1. GradientScore(c, L, a) = Votes(L, a) + (IF h >= 2 /\ A # {} THEN SumOver(BestAfter(L, a, A, 1)) ELSE 0)
    BY <1>1, <1>2, <1>4 DEF GradientScore, BestAfter
  <2>2. h >= 2 /\ A # {} <=> h # 1
    BY <1>4, <1>6
  <2> QED
    BY <2>1, <2>2
<1>10. Information(c, L, a) = IF h = 1 THEN 0 ELSE SumOver(BestAfter(L, a, A, 1)) - BestVotes(L, A, 1)
  <2>1. Information(c, L, a)
          = IF h <= 1 \/ A = {} THEN 0 ELSE SumOver(BestAfter(L, a, A, 1)) - BestVotes(L, A, 1)
    BY <1>1, <1>2, <1>4 DEF Information, BestAfter
  <2>2. h <= 1 \/ A = {} <=> h = 1
    BY <1>4, <1>6
  <2> QED
    BY <2>1, <2>2
<1> QED
  BY <1>1, <1>2, <1>3, <1>4, <1>7, <1>8, <1>9, <1>10

LEMMA NothingIsWorthNothing ==
  ASSUME NEW L, IsFiniteSet(DOMAIN L), NEW A, IsFiniteSet(A)
  PROVE  BestVotes(L, A, 0) = 0
<1>1. PICK zero \in Nat : zero = 0
  OBVIOUS
<1>2. zero <= Cardinality(A)
  BY <1>1, FS_CardinalityType
<1>3. PICK T \in SUBSET A : Cardinality(T) = zero /\ BestVotes(L, A, zero) = Worth(L, T)
  BY <1>2, BestBatch
<1>4. IsFiniteSet(T)
  BY FS_Subset
<1>5. T = {}
  BY <1>1, <1>3, <1>4, FS_EmptySet
<1>6. Worth(L, T) = SumFunctionOnSet([b \in T |-> Votes(L, b)], T)
  BY <1>4, WorthIs
<1>7. Worth(L, T) = 0
  BY <1>5, <1>6, SumOfNone
<1> QED
  BY <1>1, <1>3, <1>7

\* The best batch with a query is worth no more than its score.
LEMMA BatchIsAtMostScore ==
  ASSUME NEW m, NEW c, IsCall(c, m), c.horizon \in 1..m, NEW L, IsBelief(L, m), NEW a \in 1..m
  PROVE  Votes(L, a) + BestVotes(L, (1..m) \ {a}, c.horizon - 1) <= EnsScore(c, L, a)
<1>0. PICK k \in Nat : k = c.horizon - 1
  BY ScoresAre
<1>1. PICK A : A = (1..m) \ {a} /\ k = c.horizon - 1
  BY <1>0
<1>2. /\ m \in Nat /\ IsFiniteSet(A) /\ k <= Cardinality(A) /\ Votes(L, a) \in Nat
      /\ Future(c, L, a) = IF c.horizon = 1 THEN 0 ELSE SumOver(BestAfter(L, a, A, k))
  <2>1. /\ m \in Nat /\ IsFiniteSet((1..m) \ {a}) /\ c.horizon - 1 <= Cardinality((1..m) \ {a})
        /\ Votes(L, a) \in Nat
    BY ScoresAre
  <2>2. Future(c, L, a)
          = IF c.horizon = 1 THEN 0 ELSE SumOver(BestAfter(L, a, (1..m) \ {a}, c.horizon - 1))
    BY ScoresAre
  <2> QED
    BY <1>1, <2>1, <2>2, Zenon
<1>3. BestVotes(L, A, k) \in Int
  BY <1>2, BestVotesAreInt DEF IsBelief
<1>4. BestVotes(L, A, k) <= Future(c, L, a) /\ Future(c, L, a) \in Int
  <2>1. Future(c, L, a) \in Int
    BY FutureIsInt
  <2>2. CASE c.horizon = 1
    <3>1. k = 0
      BY <1>1, <2>2
    <3>2. BestVotes(L, A, 0) = 0
      BY <1>2, NothingIsWorthNothing DEF IsBelief
    <3> QED
      BY <1>2, <2>1, <2>2, <3>1, <3>2
  <2>3. CASE c.horizon # 1
    <3>1. BestVotes(L, A, k) <= SumOver(BestAfter(L, a, A, k))
      BY <1>2, AnswersHelp
    <3> QED
      BY <1>2, <2>1, <2>3, <3>1
  <2> QED
    BY <2>2, <2>3
<1>5. Votes(L, a) + BestVotes(L, A, k) <= Votes(L, a) + Future(c, L, a)
  BY <1>2, <1>3, <1>4
<1> QED
  BY <1>1, <1>5 DEF EnsScore

\* Nothing is found that someone who knows the sample would not find.
LEMMA ScoreIsAtMostAllKnowing ==
  ASSUME NEW m, NEW c, IsCall(c, m), c.horizon \in 1..m, NEW L, IsBelief(L, m), NEW a \in 1..m
  PROVE  EnsScore(c, L, a) <= ClairvoyantValue(c, L, a)
<1>0. PICK k \in Nat : k = c.horizon - 1
  BY ScoresAre
<1>1. PICK A : A = (1..m) \ {a} /\ k = c.horizon - 1
  BY <1>0
<1>2. /\ m \in Nat /\ IsFiniteSet(A) /\ k <= Cardinality(A) /\ Votes(L, a) \in Nat
      /\ Future(c, L, a) = IF c.horizon = 1 THEN 0 ELSE SumOver(BestAfter(L, a, A, k))
  <2>1. /\ m \in Nat /\ IsFiniteSet((1..m) \ {a}) /\ c.horizon - 1 <= Cardinality((1..m) \ {a})
        /\ Votes(L, a) \in Nat
    BY ScoresAre
  <2>2. Future(c, L, a)
          = IF c.horizon = 1 THEN 0 ELSE SumOver(BestAfter(L, a, (1..m) \ {a}, c.horizon - 1))
    BY ScoresAre
  <2> QED
    BY <1>1, <2>1, <2>2, Zenon
<1>3. PICK D, F, G, H : /\ D = DOMAIN L /\ G = Ballot(L, a) /\ H = Reachable(L, a, k)
                        /\ F = [s \in DOMAIN L |-> (IF a \in L[s] THEN 1 ELSE 0) + Min({k, Cardinality(L[s] \ {a})})]
  OBVIOUS
<1>4. IsFiniteSet(D)
  BY <1>3 DEF IsBelief
<1>5. G \in [D -> Int] /\ Votes(L, a) = SumFunctionOnSet(G, D)
  BY <1>3, <1>4, VotesAreBallots
<1>6. H \in [D -> Nat]
  BY <1>2, <1>3, ReachableIsNat
<1>7. \A s \in D : F[s] = G[s] + H[s]
  BY <1>3 DEF Ballot, Reachable
<1>8. F \in [D -> Int]
  <2>1. F = [s \in D |-> F[s]]
    BY <1>3
  <2>2. \A s \in D : F[s] \in Int
    <3> TAKE s \in D
    <3>1. G[s] \in Int /\ H[s] \in Nat
      BY <1>5, <1>6
    <3> QED
      BY <1>7, <3>1
  <2> QED
    BY <2>1, <2>2
<1>9. H \in [D -> Int]
  BY <1>6
<1>10. SumFunctionOnSet(F, D) = SumFunctionOnSet(G, D) + SumFunctionOnSet(H, D)
  BY <1>4, <1>5, <1>7, <1>8, <1>9, SumOfSums
<1>11. SumFunctionOnSet(H, D) \in Nat
  BY <1>4, <1>6, SumIsNat
<1>12. Future(c, L, a) <= SumFunctionOnSet(H, D) /\ Future(c, L, a) \in Int
  <2>1. Future(c, L, a) \in Int
    BY FutureIsInt
  <2>2. CASE c.horizon = 1
    BY <1>2, <1>11, <2>1, <2>2
  <2>3. CASE c.horizon # 1
    <3>1. SumOver(BestAfter(L, a, A, k)) <= SumFunctionOnSet(H, D)
      <4>1. k <= k
        OBVIOUS
      <4>2. SumOver(BestAfter(L, a, (1..m) \ {a}, k)) <= SumFunctionOnSet(Reachable(L, a, k), DOMAIN L)
        BY <1>1, <1>2, <4>1, KnowingHelps
      <4> QED
        BY <1>1, <1>3, <4>2
    <3> QED
      BY <1>2, <2>1, <2>3, <3>1
  <2> QED
    BY <2>2, <2>3
<1>13. Votes(L, a) + Future(c, L, a) <= SumFunctionOnSet(F, D)
  BY <1>2, <1>5, <1>10, <1>11, <1>12
<1>14. SumOver(F) = SumFunctionOnSet(F, D)
  BY <1>8 DEF SumOver
<1> QED
  <2>1. F = [s \in DOMAIN L |-> (IF a \in L[s] THEN 1 ELSE 0)
                                  + Min({c.horizon - 1, Cardinality(L[s] \ {a})})]
    BY <1>1, <1>3
  <2>2. ClairvoyantValue(c, L, a) = SumOver(F)
    BY <2>1 DEF ClairvoyantValue
  <2> QED
    BY <1>13, <1>14, <2>2 DEF EnsScore

LEMMA InformationIsNat ==
  ASSUME NEW m, NEW c, IsCall(c, m), c.horizon \in 1..m, NEW L, IsBelief(L, m), NEW a \in 1..m
  PROVE  Information(c, L, a) >= 0
<1>1. PICK A : A = (1..m) \ {a}
  OBVIOUS
<1>2. /\ IsFiniteSet(A) /\ c.horizon - 1 \in Nat /\ c.horizon - 1 <= Cardinality(A)
      /\ Information(c, L, a)
           = IF c.horizon = 1 THEN 0 ELSE SumOver(BestAfter(L, a, A, 1)) - BestVotes(L, A, 1)
  BY <1>1, ScoresAre
<1>3. CASE c.horizon = 1
  BY <1>2, <1>3
<1>4. CASE c.horizon # 1
  <2>1. PICK one \in Nat : one = 1
    OBVIOUS
  <2>2. one <= Cardinality(A)
    BY <1>2, <1>4, <2>1, FS_CardinalityType
  <2>3. BestVotes(L, A, one) <= SumOver(BestAfter(L, a, A, one))
    BY <1>2, <2>2, AnswersHelp
  <2>4. BestVotes(L, A, one) \in Int
    BY <1>2, <2>2, BestVotesAreInt DEF IsBelief
  <2>5. SumOver(BestAfter(L, a, A, one)) \in Int
    <3>1. PICK B, E : B = BestAfter(L, a, A, one) /\ E = Energies(L, a)
      OBVIOUS
    <3>2. B \in [E -> Int] /\ IsFiniteSet(E)
      BY <1>2, <2>2, <3>1, BestAfterIsInt, AnswersAreFinite
    <3> QED
      BY <3>1, <3>2, SumOverIsInt
  <2> QED
    BY <1>2, <1>4, <2>1, <2>3, <2>4, <2>5
<1> QED
  BY <1>3, <1>4

LEMMA ScaleDivides ==
  ASSUME NEW n \in Nat \ {0}, Scale % n = 0
  PROVE  Scale \div n \in Nat /\ (Scale \div n) * n = Scale
<1>1. Scale \in Nat
  BY GeometryAssumption
<1> QED
  BY <1>1

\* How many samples give an answer, and how many there are.
LEMMA SamplesByAnswers ==
  ASSUME NEW m, NEW L, IsBelief(L, m), NEW a \in 1..m
  PROVE  /\ \A e \in Energies(L, a) : Cardinality(DOMAIN Given(L, a, e)) \in 1..Cardinality(DOMAIN L)
         /\ SumFunctionOnSet([e \in Energies(L, a) |-> Cardinality(DOMAIN Given(L, a, e))], Energies(L, a))
              = Cardinality(DOMAIN L)
         /\ Cardinality(DOMAIN L) \in Nat \ {0}
<1>1. PICK D, E : D = DOMAIN L /\ E = Energies(L, a)
  OBVIOUS
<1>2. IsFiniteSet(D) /\ D # {}
  BY <1>1 DEF IsBelief
<1>3. Cardinality(D) \in Nat \ {0}
  BY <1>2, FS_CardinalityType, FS_EmptySet
<1> DEFINE F == [s \in D |-> 1]
<1>4. F \in [D -> Int] /\ \A s \in D : F[s] = 1
  OBVIOUS
<1>5. D \in SUBSET D
  OBVIOUS
<1> HIDE DEF F
<1>6. SumFunctionOnSet(F, D) = Cardinality(D)
  BY <1>2, <1>4, <1>5, SumCounts
<1>7. SumFunctionOnSet(F, D) = SumFunctionOnSet(PartsOf(L, a, F), E)
  BY <1>1, <1>4, SumByAnswers
<1>8. ASSUME NEW e \in E
      PROVE  /\ SumFunctionOnSet(F, {s \in D : s[a] = e}) = Cardinality(DOMAIN Given(L, a, e))
             /\ Cardinality(DOMAIN Given(L, a, e)) \in 1..Cardinality(D)
  <2>1. PICK T : T = DOMAIN Given(L, a, e)
    OBVIOUS
  <2>2. T = {s \in D : s[a] = e} /\ IsFiniteSet(T) /\ T # {}
    <3>1. T = {s \in D : s[a] = e}
      BY <1>1, <2>1 DEF Given
    <3>2. IsFiniteSet(T) /\ T # {}
      BY <1>1, <2>1, AnswersAreFinite
    <3> QED
      BY <3>1, <3>2
  <2>3. T \in SUBSET D /\ \A s \in T : F[s] = 1
    BY <1>4, <2>2
  <2>4. SumFunctionOnSet(F, T) = Cardinality(T)
    BY <1>4, <2>2, <2>3, SumCounts
  <2>5. Cardinality(T) \in Nat \ {0}
    BY <2>2, FS_CardinalityType, FS_EmptySet
  <2>6. Cardinality(T) <= Cardinality(D)
    BY <1>2, <2>3, FS_Subset
  <2> QED
    BY <1>3, <2>1, <2>2, <2>4, <2>5, <2>6
<1>9. PartsOf(L, a, F) = [e \in E |-> Cardinality(DOMAIN Given(L, a, e))]
  BY <1>1, <1>8 DEF PartsOf
<1> QED
  BY <1>1, <1>3, <1>6, <1>7, <1>8, <1>9

\* Knowing an answer does not increase the variance of the hull at x.
LEMMA AnswersReduceVariance ==
  ASSUME NEW m, NEW r, NEW c, IsRound(c, m, r), NEW L, IsBelief(L, m), NEW a \in 1..m,
         \A n \in 1..Cardinality(DOMAIN L) : Scale % n = 0, NEW x \in Compositions
  PROVE  Squared(c, DOMAIN L, x) <= AnswersSquared(c, L, a, x)
<1>1. PICK D, E : D = DOMAIN L /\ E = Energies(L, a)
  OBVIOUS
<1>2. IsFiniteSet(E)
  BY <1>1, AnswersAreFinite
<1>3. PICK n \in Nat \ {0} : n = Cardinality(D)
  BY <1>1, SamplesByAnswers
<1>4. n \in 1..n
  BY <1>3
<1>5. Scale \div n \in Nat /\ (Scale \div n) * n = Scale /\ Scale \in Int
  BY <1>1, <1>3, <1>4, ScaleDivides, GeometryAssumption
<1>6. PICK F : F = [s \in D |-> HullIn(c, s, x)]
  OBVIOUS
<1>7. F \in [D -> Int] /\ HullSum(c, D, x) = SumFunctionOnSet(F, D)
  <2>1. \A s \in D : s \in [1..m -> Int]
    BY <1>1 DEF IsBelief
  <2>2. HullSum(c, D, x) = SumFunctionOnSet(F, D)
    BY <1>6, <2>1, HullSumIs
  <2>3. \A s \in D : HullIn(c, s, x) \in Int
    BY <2>1, HullInIsInt
  <2> QED
    BY <1>6, <2>2, <2>3
<1>8. PICK A : A = PartsOf(L, a, F)
  OBVIOUS
<1>9. A \in [E -> Int] /\ SumFunctionOnSet(F, D) = SumFunctionOnSet(A, E)
  BY <1>1, <1>7, <1>8, SumByAnswers
<1> DEFINE N == [e \in E |-> Cardinality(DOMAIN Given(L, a, e))]
           M == [e \in E |-> Scale \div Cardinality(DOMAIN Given(L, a, e))]
           Q == [e \in E |-> Squared(c, DOMAIN Given(L, a, e), x)]
<1>10. ASSUME NEW e \in E
       PROVE  /\ N[e] \in Int /\ M[e] \in Nat /\ M[e] * N[e] = Scale
              /\ Q[e] = M[e] * A[e] * A[e]
  <2>1. PICK T : T = DOMAIN Given(L, a, e)
    OBVIOUS
  <2>2. PICK k \in 1..n : k = Cardinality(T)
    BY <1>1, <1>3, <2>1, SamplesByAnswers
  <2>3. k \in Nat \ {0} /\ Scale % k = 0
    BY <1>1, <1>3, <2>2
  <2>4. Scale \div k \in Nat /\ (Scale \div k) * k = Scale
    BY <2>3, ScaleDivides
  <2>5. T = {s \in D : s[a] = e} /\ IsFiniteSet(T)
    <3>1. T = {s \in D : s[a] = e}
      BY <1>1, <2>1 DEF Given
    <3>2. IsFiniteSet(T)
      BY <1>1, <2>1, AnswersAreFinite
    <3> QED
      BY <3>1, <3>2
  <2>6. PICK H : H = [s \in T |-> HullIn(c, s, x)]
    OBVIOUS
  <2>7. HullSum(c, T, x) = SumFunctionOnSet(H, T)
    <3>1. \A s \in T : s \in [1..m -> Int]
      BY <1>1, <2>5 DEF IsBelief
    <3> QED
      BY <2>6, <3>1, HullSumIs
  <2>8. \A s \in T : H[s] = F[s]
    BY <1>6, <2>5, <2>6
  <2>9. SumFunctionOnSet(H, T) = SumFunctionOnSet(F, T)
    BY <2>5, <2>8, SumSame
  <2>10. A[e] = SumFunctionOnSet(F, T)
    BY <1>1, <1>8, <2>5 DEF PartsOf
  <2>11. Q[e] = (Scale \div k) * A[e] * A[e]
    BY <2>1, <2>2, <2>7, <2>9, <2>10 DEF Squared
  <2> QED
    BY <2>1, <2>2, <2>3, <2>4, <2>11
<1>11. N \in [E -> Int] /\ M \in [E -> Nat]
  BY <1>10
<1>12. Q \in [E -> Int] /\ AnswersSquared(c, L, a, x) = SumFunctionOnSet(Q, E)
  BY <1>1, AnswersSquaredIs
<1>13. SumFunctionOnSet(N, E) = n
  BY <1>1, <1>3, SamplesByAnswers
<1> HIDE DEF N, M, Q
<1>14. Squares(E, N, M, A, Q, Scale)
  BY <1>9, <1>10, <1>11, <1>12 DEF Squares
<1>15. (Scale \div n) * SumFunctionOnSet(A, E) * SumFunctionOnSet(A, E) <= SumFunctionOnSet(Q, E)
  <2>1. PICK k \in Int : k = Scale \div n /\ k * n = Scale
    BY <1>5
  <2>2. k * SumFunctionOnSet(A, E) * SumFunctionOnSet(A, E) <= SumFunctionOnSet(Q, E)
    BY <1>2, <1>5, <1>13, <1>14, <2>1, SquaresOfParts
  <2> QED
    BY <2>1, <2>2
<1>16. Squared(c, D, x) = (Scale \div n) * SumFunctionOnSet(A, E) * SumFunctionOnSet(A, E)
  BY <1>3, <1>7, <1>9 DEF Squared
<1> QED
  BY <1>1, <1>12, <1>15, <1>16

LEMMA RiskReductionIsNat ==
  ASSUME NEW m, NEW r, NEW c, IsRound(c, m, r), NEW L, IsBelief(L, m), NEW a \in 1..m,
         \A n \in 1..Cardinality(DOMAIN L) : Scale % n = 0
  PROVE  RiskReduction(c, L, a) >= 0
<1>1. PICK X : X = EvaluationCompositions(c.xs, c.references)
  OBVIOUS
<1>2. PICK F : F = [x \in X |-> AnswersSquared(c, L, a, x) - Squared(c, DOMAIN L, x)]
  OBVIOUS
<1>3. /\ X \subseteq Compositions /\ IsFiniteSet(X) /\ F \in [X -> Int]
      /\ RiskReduction(c, L, a) = SumFunctionOnSet(F, X)
  BY <1>1, <1>2, RiskReductionIs
<1>4. ASSUME NEW x \in X
      PROVE  F[x] \in Nat
  <2>1. x \in Compositions
    BY <1>3
  <2>2. Squared(c, DOMAIN L, x) <= AnswersSquared(c, L, a, x)
    BY <2>1, AnswersReduceVariance
  <2>3. AnswersSquared(c, L, a, x) \in Int
    BY <2>1, AnswersSquaredIs
  <2>4. Squared(c, DOMAIN L, x) \in Int
    <3>1. PICK S : S = DOMAIN L
      OBVIOUS
    <3>2. IsFiniteSet(S) /\ S # {} /\ \A s \in S : s \in [1..m -> Int]
      BY <3>1 DEF IsBelief
    <3> QED
      BY <2>1, <3>1, <3>2, SquaredIsInt
  <2> QED
    BY <1>2, <2>2, <2>3, <2>4
<1>5. F \in [X -> Nat]
  BY <1>3, <1>4
<1>6. SumFunctionOnSet(F, X) \in Nat
  BY <1>3, <1>5, SumIsNat
<1> QED
  BY <1>3, <1>6

-------------------------------------------------------------------------------
(* Labels of a reduced problem.                                             *)

\* A query, and no other one has its composition.
OnlyQuery(t, n, K) ==
  /\ t.references \in Nat /\ K \in 1..n /\ K > t.references
  /\ \A j \in 1..n : j > t.references /\ t.xs[j] = t.xs[K] => j = K

\* A query that is the only one at its composition stands for it when no entry
\* there has a lower energy: its name comes before those of the references.
LEMMA QueryWins ==
  ASSUME NEW n \in Nat, NEW t, IsTemplate(t, n), NEW e \in [1..n -> Int], NEW K, OnlyQuery(t, n, K)
  PROVE  e[Winner(t, e, t.xs[K])] = e[K] => Winner(t, e, t.xs[K]) = K
<1> SUFFICES ASSUME e[Winner(t, e, t.xs[K])] = e[K], Winner(t, e, t.xs[K]) # K
             PROVE  FALSE
  OBVIOUS
<1>1. PICK x : x = t.xs[K]
  OBVIOUS
<1>2. PICK W \in 1..n : W = Winner(t, e, x) /\ t.xs[W] = x
  <2>1. \E i \in 1..n : t.xs[i] = x
    BY <1>1 DEF OnlyQuery
  <2>2. WinnersAreLowest(t, e, n)
    BY LowestWins
  <2> QED
    BY <2>1, <2>2 DEF WinnersAreLowest
<1>3. K # W /\ t.xs[K] = t.xs[W] /\ e[K] = e[W] /\ W = Winner(t, e, t.xs[W]) /\ K \in 1..n
  BY <1>1, <1>2 DEF OnlyQuery
<1>4. NameBefore(t, W, K)
  BY <1>3, WinsAgainst
<1>5. ~(W > t.references) /\ K > t.references
  BY <1>1, <1>2, <1>3 DEF OnlyQuery
<1> QED
  BY <1>4, <1>5 DEF NameBefore

LEMMA SameLabels ==
  ASSUME NEW n, NEW t, NEW e, NEW m, NEW u, NEW f, SamePhases(t, e, n, u, f, m),
         NEW K, OnlyQuery(t, n, K), NEW J, OnlyQuery(u, m, J),
         t.xs[K] = u.xs[J], e[K] = f[J]
  PROVE  OnHull(t, e, K) <=> OnHull(u, f, J)
<1>1. /\ n \in Nat /\ IsTemplate(t, n) /\ e \in [1..n -> Int]
      /\ m \in Nat /\ IsTemplate(u, m) /\ f \in [1..m -> Int]
  BY DEF SamePhases
<1>2. LowerChain(t, e) = LowerChain(u, f)
  BY SameChain
<1>3. e[Winner(t, e, t.xs[K])] = f[Winner(u, f, t.xs[K])]
  BY SameChain DEF OnlyQuery
<1>4. e[Winner(t, e, t.xs[K])] = e[K] => Winner(t, e, t.xs[K]) = K
  BY <1>1, QueryWins
<1>5. f[Winner(u, f, u.xs[J])] = f[J] => Winner(u, f, u.xs[J]) = J
  BY <1>1, QueryWins
<1>6. Winner(t, e, t.xs[K]) = K <=> Winner(u, f, u.xs[J]) = J
  BY <1>3, <1>4, <1>5
<1> QED
  BY <1>2, <1>6 DEF OnHull

\* The entries of a call, the references first, and its labels.
IsTabled(t, e, xs, w, p, r, m) ==
  /\ t.references = r /\ IsTemplate(t, r + m) /\ e \in [1..(r + m) -> Int]
  /\ \A i \in 1..r : t.xs[i] = p[i].x /\ e[i] = p[i].e
  /\ \A k \in 1..m : r + k \in 1..(r + m) /\ t.xs[r + k] = xs[k] /\ e[r + k] = w[k]
  /\ \A k \in 1..m : k \in Membership(xs, w, p) <=> OnHull(t, e, r + k)

LEMMA CallsAreTabled ==
  ASSUME NEW r \in Nat, NEW p, Complete(p, r), NEW m \in Nat, NEW xs \in [1..m -> Compositions],
         NEW w \in [1..m -> Int]
  PROVE  IsTabled(CallTemplate(xs, p), CallEnergies(w, p), xs, w, p, r, m)
<1> DEFINE t == CallTemplate(xs, p)
           e == CallEnergies(w, p)
<1> HIDE DEF t, e
<1>2. /\ t.references = r /\ IsTemplate(t, r + m) /\ e \in [1..(r + m) -> Int]
      /\ \A i \in 1..r : t.xs[i] = p[i].x /\ e[i] = p[i].e
      /\ \A k \in 1..m : r + k \in 1..(r + m) /\ t.xs[r + k] = xs[k] /\ e[r + k] = w[k]
      /\ \A k \in 1..m : k \in Membership(xs, w, p) <=> OnHull(t, e, r + k)
  BY CallFacts DEF t, e
<1>3. IsTabled(t, e, xs, w, p, r, m)
  BY <1>2 DEF IsTabled
<1> QED
  BY <1>3 DEF t, e

Different(f, n) == \A i, j \in 1..n : f[i] = f[j] => i = j

\* The queries but one, each once.
Others(o, n, m, a) ==
  o \in [1..n -> 1..m] /\ Different(o, n) /\ \A x \in 1..m : x # a <=> \E k \in 1..n : o[k] = x

\* The problem that remains: the query a is a reference, the others are ys and v.
ReducedProblem(A, ys, v, p, r, xs, w, m, a, o, n) ==
  /\ r \in Nat /\ Complete(p, r) /\ m \in Nat /\ xs \in [1..m -> Compositions] /\ Different(xs, m)
  /\ w \in [1..m -> Int] /\ a \in 1..m /\ n \in Nat /\ Others(o, n, m, a)
  /\ \E b : b[1] = a /\ IsExtended(A, p, r, xs, w, b, 1)
  /\ ys = [k \in 1..n |-> xs[o[k]]] /\ v = [k \in 1..n |-> w[o[k]]]

\* When the queries have different compositions, those that remain after one has
\* become a reference keep their labels.
LEMMA RemainingKeepLabels ==
  ASSUME NEW A, NEW ys, NEW v, NEW p, NEW r, NEW xs, NEW w, NEW m, NEW a, NEW o, NEW n,
         ReducedProblem(A, ys, v, p, r, xs, w, m, a, o, n), NEW j \in 1..n
  PROVE  o[j] \in Membership(xs, w, p) <=> j \in Membership(ys, v, A)
<1>z. /\ r \in Nat /\ Complete(p, r) /\ m \in Nat /\ xs \in [1..m -> Compositions] /\ Different(xs, m)
      /\ w \in [1..m -> Int] /\ a \in 1..m /\ n \in Nat /\ Others(o, n, m, a)
  BY DEF ReducedProblem
<1>o. /\ o \in [1..n -> 1..m] /\ \A x \in 1..m : x # a <=> \E k \in 1..n : o[k] = x
  BY <1>z DEF Others
<1>d. /\ \A i, k \in 1..n : o[i] = o[k] => i = k
      /\ \A i, k \in 1..m : xs[i] = xs[k] => i = k
  BY <1>z DEF Others, Different
<1>0. ys = [k \in 1..n |-> xs[o[k]]] /\ v = [k \in 1..n |-> w[o[k]]]
  BY DEF ReducedProblem
<1>b. PICK b : b[1] = a /\ IsExtended(A, p, r, xs, w, b, 1)
  BY DEF ReducedProblem
<1>1. /\ ys \in [1..n -> Compositions] /\ v \in [1..n -> Int]
      /\ \A k \in 1..n : ys[k] = xs[o[k]] /\ v[k] = w[o[k]]
  BY <1>z, <1>o, <1>0
<1>2. /\ Complete(A, r + 1) /\ r + 1 \in Nat /\ \A i \in 1..r : A[i] = p[i]
      /\ A[r + 1] = [x |-> xs[a], e |-> w[a]]
  <2>1. 1 \in 1..1
    OBVIOUS
  <2>2. /\ Complete(A, r + 1) /\ \A i \in 1..r : A[i] = p[i]
        /\ \A k \in 1..1 : A[r + k] = [x |-> xs[b[k]], e |-> w[b[k]]]
    BY <1>b DEF IsExtended
  <2>3. A[r + 1] = [x |-> xs[b[1]], e |-> w[b[1]]]
    BY <2>1, <2>2
  <2> QED
    BY <1>z, <1>b, <2>2, <2>3
<1>4. PICK s \in Nat : s = r + 1 /\ Complete(A, s)
  BY <1>2
<1>a. A[s].x = xs[a] /\ A[s].e = w[a]
  BY <1>2, <1>4
<1>p. \A i \in 1..r : A[i].x = p[i].x /\ A[i].e = p[i].e
  BY <1>2
<1>t. PICK t, e : IsTabled(t, e, xs, w, p, r, m)
  BY <1>z, CallsAreTabled
<1>u. PICK u, f : IsTabled(u, f, ys, v, A, s, n)
  BY <1>z, <1>1, <1>4, CallsAreTabled
<1>3. /\ t.references = r /\ IsTemplate(t, r + m) /\ e \in [1..(r + m) -> Int]
      /\ \A i \in 1..r : t.xs[i] = p[i].x /\ e[i] = p[i].e
      /\ \A k \in 1..m : r + k \in 1..(r + m) /\ t.xs[r + k] = xs[k] /\ e[r + k] = w[k]
      /\ \A k \in 1..m : k \in Membership(xs, w, p) <=> OnHull(t, e, r + k)
  BY <1>t DEF IsTabled
<1>5. /\ u.references = s /\ IsTemplate(u, s + n) /\ f \in [1..(s + n) -> Int]
      /\ \A i \in 1..s : u.xs[i] = A[i].x /\ f[i] = A[i].e
      /\ \A k \in 1..n : s + k \in 1..(s + n) /\ u.xs[s + k] = ys[k] /\ f[s + k] = v[k]
      /\ \A k \in 1..n : k \in Membership(ys, v, A) <=> OnHull(u, f, s + k)
  BY <1>u DEF IsTabled
<1>6. Within(t, e, r + m, u, f, s + n)
  <2>1. ASSUME NEW k \in 1..(r + m)
        PROVE  \E i \in 1..(s + n) : t.xs[k] = u.xs[i] /\ e[k] = f[i]
    <3>1. CASE k <= r
      <4>1. k \in 1..r /\ k \in 1..s /\ k \in 1..(s + n)
        BY <1>z, <1>4, <3>1
      <4>2. t.xs[k] = p[k].x /\ e[k] = p[k].e
        BY <1>z, <1>3, <4>1
      <4>3. u.xs[k] = A[k].x /\ f[k] = A[k].e
        BY <1>z, <1>5, <4>1
      <4> QED
        BY <1>z, <1>p, <4>1, <4>2, <4>3
    <3>2. CASE k > r
      <4>1. PICK l \in 1..m : k = r + l
        <5>1. k - r \in 1..m /\ k = r + (k - r)
          BY <1>z, <3>2
        <5> QED
          BY <1>z, <5>1
      <4>2. t.xs[k] = xs[l] /\ e[k] = w[l]
        BY <1>z, <1>3, <4>1
      <4>3. CASE l = a
        <5>1. s \in 1..s /\ s \in 1..(s + n)
          BY <1>z, <1>4
        <5>2. u.xs[s] = xs[a] /\ f[s] = w[a]
          BY <1>z, <1>a, <1>5, <5>1
        <5> QED
          BY <1>z, <4>2, <4>3, <5>1, <5>2
      <4>4. CASE l # a
        <5>1. PICK i \in 1..n : o[i] = l
          BY <1>z, <1>o, <4>4
        <5>2. s + i \in 1..(s + n) /\ u.xs[s + i] = xs[l] /\ f[s + i] = w[l]
          BY <1>z, <1>1, <1>5, <5>1
        <5> QED
          BY <1>z, <4>2, <5>2
      <4> QED
        BY <1>z, <4>3, <4>4
    <3> QED
      BY <1>z, <3>1, <3>2
  <2> QED
    BY <1>z, <2>1 DEF Within
<1>7. Within(u, f, s + n, t, e, r + m)
  <2>1. ASSUME NEW i \in 1..(s + n)
        PROVE  \E k \in 1..(r + m) : u.xs[i] = t.xs[k] /\ f[i] = e[k]
    <3>1. CASE i <= r
      <4>1. i \in 1..r /\ i \in 1..s /\ i \in 1..(r + m)
        BY <1>z, <1>4, <3>1
      <4>2. t.xs[i] = p[i].x /\ e[i] = p[i].e
        BY <1>z, <1>3, <4>1
      <4>3. u.xs[i] = A[i].x /\ f[i] = A[i].e
        BY <1>z, <1>5, <4>1
      <4> QED
        BY <1>z, <1>p, <4>1, <4>2, <4>3
    <3>2. CASE i = s
      <4>1. s \in 1..s
        BY <1>z, <1>4
      <4>2. u.xs[s] = xs[a] /\ f[s] = w[a]
        BY <1>z, <1>a, <1>5, <4>1
      <4>3. r + a \in 1..(r + m) /\ t.xs[r + a] = xs[a] /\ e[r + a] = w[a]
        BY <1>z, <1>3
      <4> QED
        BY <1>z, <3>2, <4>2, <4>3
    <3>3. CASE i > s
      <4>1. PICK l \in 1..n : i = s + l
        <5>1. i - s \in 1..n /\ i = s + (i - s)
          BY <1>z, <3>3
        <5> QED
          BY <1>z, <5>1
      <4>2. u.xs[i] = xs[o[l]] /\ f[i] = w[o[l]]
        BY <1>z, <1>1, <1>5, <4>1
      <4>3. PICK k \in 1..m : k = o[l]
        BY <1>z, <1>o
      <4>4. r + k \in 1..(r + m) /\ t.xs[r + k] = xs[k] /\ e[r + k] = w[k]
        BY <1>z, <1>3
      <4> QED
        BY <1>z, <4>2, <4>3, <4>4
    <3> QED
      BY <1>z, <1>4, <3>1, <3>2, <3>3
  <2> QED
    BY <1>z, <2>1 DEF Within
<1>8. SamePhases(t, e, r + m, u, f, s + n)
  BY <1>z, <1>3, <1>5, <1>6, <1>7 DEF SamePhases
<1>9. PICK K \in 1..(r + m), J \in 1..(s + n) : K = r + o[j] /\ J = s + j /\ K > r /\ J > s
  <2>1. PICK k \in 1..m : k = o[j]
    BY <1>z, <1>o
  <2>2. r + k \in 1..(r + m) /\ s + j \in 1..(s + n) /\ r + k > r /\ s + j > s
    BY <1>z
  <2> QED
    BY <1>z, <2>1, <2>2
<1>10. t.xs[K] = xs[o[j]] /\ e[K] = w[o[j]] /\ u.xs[J] = xs[o[j]] /\ f[J] = w[o[j]]
  <2>1. PICK k \in 1..m : k = o[j] /\ K = r + k
    BY <1>z, <1>o, <1>9
  <2>2. t.xs[K] = xs[k] /\ e[K] = w[k]
    BY <1>z, <1>3, <2>1
  <2>3. u.xs[J] = ys[j] /\ f[J] = v[j]
    BY <1>z, <1>5, <1>9
  <2> QED
    BY <1>z, <1>1, <2>1, <2>2, <2>3
<1>11. OnlyQuery(t, r + m, K)
  <2>1. ASSUME NEW i \in 1..(r + m), i > r, t.xs[i] = t.xs[K]
        PROVE  i = K
    <3>1. PICK l \in 1..m : i = r + l
      <4>1. i - r \in 1..m /\ i = r + (i - r)
        BY <1>z, <2>1
      <4> QED
        BY <1>z, <4>1
    <3>2. xs[l] = xs[o[j]]
      BY <1>z, <1>3, <1>10, <2>1, <3>1
    <3>3. l = o[j]
      BY <1>z, <1>o, <1>d, <3>2
    <3> QED
      BY <1>z, <1>9, <3>1, <3>3
  <2> QED
    BY <1>z, <1>3, <1>9, <2>1 DEF OnlyQuery
<1>12. OnlyQuery(u, s + n, J)
  <2>1. ASSUME NEW i \in 1..(s + n), i > s, u.xs[i] = u.xs[J]
        PROVE  i = J
    <3>1. PICK l \in 1..n : i = s + l
      <4>1. i - s \in 1..n /\ i = s + (i - s)
        BY <1>z, <2>1
      <4> QED
        BY <1>z, <4>1
    <3>2. xs[o[l]] = xs[o[j]]
      BY <1>z, <1>1, <1>5, <1>10, <2>1, <3>1
    <3>3. o[l] \in 1..m /\ o[j] \in 1..m
      BY <1>z, <1>o
    <3>4. o[l] = o[j]
      BY <1>z, <1>d, <3>2, <3>3
    <3>5. l = j
      BY <1>z, <1>d, <3>4
    <3> QED
      BY <1>z, <1>9, <3>1, <3>5
  <2> QED
    BY <1>z, <1>5, <1>9, <2>1 DEF OnlyQuery
<1>13. t.xs[K] = u.xs[J] /\ e[K] = f[J]
  BY <1>z, <1>10
<1>14. OnHull(t, e, K) <=> OnHull(u, f, J)
  <2>1. PICK N, M : N = r + m /\ M = s + n
    OBVIOUS
  <2>2. SamePhases(t, e, N, u, f, M)
    BY <1>z, <1>8, <2>1
  <2>3. OnlyQuery(t, N, K) /\ OnlyQuery(u, M, J)
    BY <1>z, <1>11, <1>12, <2>1
  <2> QED
    BY <1>z, <1>13, <2>2, <2>3, SameLabels
<1>15. o[j] \in Membership(xs, w, p) <=> OnHull(t, e, K)
  BY <1>z, <1>o, <1>3, <1>9
<1>16. j \in Membership(ys, v, A) <=> OnHull(u, f, J)
  BY <1>z, <1>5, <1>9
<1> QED
  BY <1>z, <1>0, <1>14, <1>15, <1>16

LEMMA LabelsAfterAre ==
  ASSUME NEW m, NEW r, NEW c, IsRound(c, m, r), Different(c.xs, m), NEW w \in [1..m -> Int], NEW a \in 1..m
  PROVE  LabelsAfter(c, w, {a}) = Membership(c.xs, w, c.references) \ {a}
<1>1. PICK xs, p : xs = c.xs /\ p = c.references
  OBVIOUS
<1>2. /\ m \in Nat /\ r \in Nat /\ Complete(p, r) /\ xs \in [1..m -> Compositions] /\ Different(xs, m)
      /\ Queries(c) = 1..m
  BY <1>1, CallFits DEF IsRound, IsCall
<1>3. PICK S : S = (1..m) \ {a}
  OBVIOUS
<1>4. IsFiniteSet(S) /\ S \in SUBSET Int
  <2>1. IsFiniteSet(S)
    BY <1>2, <1>3, RestFacts
  <2> QED
    BY <1>2, <1>3, <2>1
<1>5. PICK o, n : o = InOrder(S) /\ n = Cardinality(S)
  OBVIOUS
<1>6. /\ n \in Nat /\ o \in [1..n -> S] /\ \A i, j \in 1..n : i < j => o[i] < o[j]
      /\ \A x \in S : \E i \in 1..n : o[i] = x
  BY <1>4, <1>5, InOrderFacts
<1>7. Others(o, n, m, a)
  <2>1. \A i, j \in 1..n : o[i] = o[j] => i = j
    <3> TAKE i, j \in 1..n
    <3>1. o[i] \in Int /\ o[j] \in Int
      BY <1>4, <1>6
    <3> QED
      BY <1>6, <3>1
  <2>2. o \in [1..n -> 1..m] /\ \A x \in 1..m : x # a <=> \E k \in 1..n : o[k] = x
    BY <1>3, <1>6
  <2> QED
    BY <2>1, <2>2 DEF Others, Different
<1>8. PICK b : b = InOrder({a})
  OBVIOUS
<1>9. b \in [1..1 -> 1..m] /\ b[1] = a
  <2>1. IsFiniteSet({a}) /\ Cardinality({a}) = 1
    BY FS_Singleton
  <2>2. a \in Int
    BY <1>2
  <2>3. PICK only \in SUBSET Int : only = {a}
    BY <2>2
  <2>4. InOrder(only) \in [1..Cardinality(only) -> only]
    BY <2>1, <2>3, InOrderFacts
  <2>5. b \in [1..1 -> {a}]
    BY <1>8, <2>1, <2>3, <2>4
  <2> QED
    BY <2>5
<1>10. PICK A : A = ActivePhases(c, w, {a})
  OBVIOUS
<1>11. IsExtended(A, p, r, xs, w, b, 1)
  <2>1. PICK one \in Nat : one = 1
    OBVIOUS
  <2>2. IsExtended(Extended(p, xs, w, b), p, r, xs, w, b, one)
    BY <1>2, <1>9, <2>1, ExtendedFacts
  <2>3. A = Extended(p, xs, w, b)
    BY <1>1, <1>8, <1>10 DEF ActivePhases, Extended
  <2> QED
    BY <2>1, <2>2, <2>3
<1>12. PICK ys, v : ys = [k \in 1..n |-> xs[o[k]]] /\ v = [k \in 1..n |-> w[o[k]]]
  OBVIOUS
<1>13. LabelsAfter(c, w, {a}) = {o[k] : k \in Membership(ys, v, A)}
  <2>1. DOMAIN o = 1..n
    BY <1>6
  <2>2. o = InOrder(Queries(c) \ {a})
    BY <1>2, <1>3, <1>5
  <2>3. /\ ys = [k \in DOMAIN o |-> c.xs[o[k]]]
        /\ v = [k \in DOMAIN o |-> w[o[k]]]
    BY <1>1, <1>12, <2>1
  <2>4. LabelsAfter(c, w, {a})
          = {InOrder(Queries(c) \ {a})[k] : k \in Membership(
               [k \in DOMAIN InOrder(Queries(c) \ {a}) |-> c.xs[InOrder(Queries(c) \ {a})[k]]],
               [k \in DOMAIN InOrder(Queries(c) \ {a}) |-> w[InOrder(Queries(c) \ {a})[k]]],
               ActivePhases(c, w, {a}))}
    BY Zenon DEF LabelsAfter
  <2> QED
    BY <1>10, <2>2, <2>3, <2>4
<1>14. Membership(ys, v, A) \subseteq 1..n
  BY <1>12 DEF Membership
<1>15. Membership(xs, w, p) \subseteq 1..m
  BY <1>2 DEF Membership
<1>16. \A j \in 1..n : o[j] \in Membership(xs, w, p) <=> j \in Membership(ys, v, A)
  <2>1. /\ r \in Nat /\ Complete(p, r) /\ m \in Nat /\ xs \in [1..m -> Compositions] /\ Different(xs, m)
        /\ n \in Nat
    BY <1>2, <1>6
  <2>2. ReducedProblem(A, ys, v, p, r, xs, w, m, a, o, n)
    BY <1>7, <1>9, <1>11, <1>12, <2>1 DEF ReducedProblem
  <2> QED
    BY <2>2, RemainingKeepLabels
<1>17. ASSUME NEW x
       PROVE  x \in {o[k] : k \in Membership(ys, v, A)} <=> x \in Membership(xs, w, p) \ {a}
  <2>1. ASSUME x \in Membership(xs, w, p), x # a
        PROVE  x \in {o[k] : k \in Membership(ys, v, A)}
    <3>1. x \in S
      BY <1>3, <1>15, <2>1
    <3>2. PICK j \in 1..n : o[j] = x
      BY <1>6, <3>1
    <3> QED
      BY <1>16, <2>1, <3>2
  <2>2. ASSUME x \in {o[k] : k \in Membership(ys, v, A)}
        PROVE  x \in Membership(xs, w, p) /\ x # a
    <3>1. PICK j \in Membership(ys, v, A) : x = o[j]
      BY <2>2
    <3>2. j \in 1..n /\ o[j] \in S
      BY <1>6, <1>14, <3>1
    <3> QED
      BY <1>3, <1>16, <3>1, <3>2
  <2> QED
    BY <2>1, <2>2
<1>18. {o[k] : k \in Membership(ys, v, A)} = Membership(xs, w, p) \ {a}
  BY <1>17
<1> QED
  BY <1>1, <1>13, <1>18

-------------------------------------------------------------------------------
(* Decision rules for the second query.                                     *)

LEMMA GreatestIs ==
  ASSUME NEW S, S \subseteq Int, NEW x \in S, \A y \in S : y <= x
  PROVE  Max(S) = x
<1>1. Max(S) \in S /\ \A y \in S : Max(S) >= y
  BY DEF Max
<1>2. Max(S) \in Int /\ x \in Int /\ Max(S) <= x /\ x <= Max(S)
  BY <1>1
<1> QED
  BY <1>2

\* The best batch of one is the query with the most votes.
LEMMA BestSingle ==
  ASSUME NEW L, IsFiniteSet(DOMAIN L), NEW A, IsFiniteSet(A), A # {}
  PROVE  /\ 1 <= Cardinality(A)
         /\ \E b \in A : BestVotes(L, A, 1) = Votes(L, b)
         /\ \A b \in A : Votes(L, b) <= BestVotes(L, A, 1)
<1>1. PICK one \in Nat : one = 1
  OBVIOUS
<1>2. one <= Cardinality(A)
  <2>1. Cardinality(A) \in Nat /\ Cardinality(A) # 0
    BY FS_CardinalityType, FS_EmptySet
  <2> QED
    BY <1>1, <2>1
<1>3. ASSUME NEW b
      PROVE  Cardinality({b}) = one /\ Worth(L, {b}) = Votes(L, b)
  <2>1. Cardinality({b}) = 1 /\ IsFiniteSet({b})
    BY FS_Singleton
  <2>2. PICK T : T = {b}
    OBVIOUS
  <2>3. PICK F : F = [d \in T |-> Votes(L, d)]
    OBVIOUS
  <2>4. F \in [T -> Int] /\ Worth(L, T) = SumFunctionOnSet(F, T)
    BY <2>1, <2>2, <2>3, WorthIs
  <2>5. b \in T
    BY <2>2
  <2>6. SumFunctionOnSet(F, {b}) = F[b]
    BY <2>4, <2>5, SumOfOne
  <2>7. F[b] = Votes(L, b)
    BY <2>3, <2>5
  <2> QED
    BY <1>1, <2>1, <2>2, <2>4, <2>6, <2>7
<1>4. \E b \in A : BestVotes(L, A, one) = Votes(L, b)
  <2>1. PICK T \in SUBSET A : Cardinality(T) = one /\ BestVotes(L, A, one) = Worth(L, T)
    BY <1>2, BestBatch
  <2>2. IsFiniteSet(T)
    BY FS_Subset
  <2>3. \E b : T = {b}
    BY <1>1, <2>1, <2>2, FS_Singleton
  <2>4. PICK b : T = {b}
    BY <2>3
  <2>5. b \in A
    BY <2>4
  <2> QED
    BY <1>3, <2>1, <2>4, <2>5
<1>5. ASSUME NEW b \in A
      PROVE  Votes(L, b) <= BestVotes(L, A, one)
  <2>1. {b} \in SUBSET A
    OBVIOUS
  <2>2. Worth(L, {b}) <= BestVotes(L, A, one)
    BY <1>2, <1>3, <2>1, BestBatch
  <2> QED
    BY <1>3, <2>2
<1> QED
  BY <1>1, <1>2, <1>4, <1>5

\* The votes for what a rule chooses after every answer.
Chosen(L, a, second) == [e \in Energies(L, a) |-> Votes(Given(L, a, e), second[e])]

LEMMA ChosenIsInt ==
  ASSUME NEW m, NEW L, IsBelief(L, m), NEW a \in 1..m, NEW second
  PROVE  Chosen(L, a, second) \in [Energies(L, a) -> Int]
<1>1. ASSUME NEW e \in Energies(L, a)
      PROVE  Votes(Given(L, a, e), second[e]) \in Int
  <2>1. PICK G, b : G = Given(L, a, e) /\ b = second[e]
    OBVIOUS
  <2>2. IsFiniteSet(DOMAIN G)
    BY <2>1, AnswersAreFinite
  <2>3. Votes(G, b) \in Nat
    BY <2>2, VotesAreNat
  <2> QED
    BY <2>1, <2>3
<1> QED
  BY <1>1 DEF Chosen

LEMMA TwoStepValueIs ==
  ASSUME NEW m, NEW L, IsBelief(L, m), NEW a \in 1..m,
         NEW second \in [Energies(L, a) -> (1..m) \ {a}]
  PROVE  TwoStepValue(L, a, second) = Votes(L, a) + SumFunctionOnSet(Chosen(L, a, second), Energies(L, a))
<1>1. PICK D, E : D = DOMAIN L /\ E = Energies(L, a)
  OBVIOUS
<1>2. IsFiniteSet(D) /\ IsFiniteSet(E) /\ \A s \in D : s[a] \in E
  BY <1>1, AnswersAreFinite DEF IsBelief, Energies
<1>3. PICK F, B, C : /\ F = [s \in D |-> Cardinality({a, second[s[a]]} \intersect L[s])]
                     /\ B = Ballot(L, a)
                     /\ C = [s \in D |-> IF second[s[a]] \in L[s] THEN 1 ELSE 0]
  OBVIOUS
<1>4. B \in [D -> Int] /\ Votes(L, a) = SumFunctionOnSet(B, D)
  BY <1>1, <1>2, <1>3, VotesAreBallots
<1>5. C \in [D -> Int]
  BY <1>3
<1>6. ASSUME NEW s \in D
      PROVE  F[s] \in Int /\ F[s] = B[s] + C[s]
  <2>1. PICK b : b = second[s[a]] /\ b # a
    BY <1>1, <1>2
  <2>2. PICK X : X = L[s]
    OBVIOUS
  <2>3. /\ F[s] = Cardinality({a, b} \intersect X)
        /\ B[s] = (IF a \in X THEN 1 ELSE 0) /\ C[s] = (IF b \in X THEN 1 ELSE 0)
    BY <1>1, <1>3, <2>1, <2>2 DEF Ballot
  <2>4. CASE a \in X /\ b \in X
    <3>1. {a, b} \intersect X = {a} \union {b}
      BY <2>4
    <3>2. IsFiniteSet({a}) /\ Cardinality({a}) = 1 /\ b \notin {a}
      BY <2>1, FS_Singleton
    <3>3. Cardinality({a} \union {b}) = 2
      BY <3>2, FS_AddElement
    <3> QED
      BY <2>3, <2>4, <3>1, <3>3
  <2>5. CASE a \in X /\ b \notin X
    <3>1. {a, b} \intersect X = {a}
      BY <2>5
    <3>2. Cardinality({a}) = 1
      BY FS_Singleton
    <3> QED
      BY <2>3, <2>5, <3>1, <3>2
  <2>6. CASE a \notin X /\ b \in X
    <3>1. {a, b} \intersect X = {b}
      BY <2>6
    <3>2. Cardinality({b}) = 1
      BY FS_Singleton
    <3> QED
      BY <2>3, <2>6, <3>1, <3>2
  <2>7. CASE a \notin X /\ b \notin X
    <3>1. {a, b} \intersect X = {}
      BY <2>7
    <3>2. Cardinality({}) = 0
      BY FS_EmptySet
    <3> QED
      BY <2>3, <2>7, <3>1, <3>2
  <2> QED
    BY <2>4, <2>5, <2>6, <2>7
<1>7. F \in [D -> Int] /\ DOMAIN F = D
  BY <1>3, <1>6
<1>8. TwoStepValue(L, a, second) = SumFunctionOnSet(F, D)
  <2>1. TwoStepValue(L, a, second) = SumOver(F)
    BY <1>1, <1>3 DEF TwoStepValue
  <2> QED
    BY <1>7, <2>1 DEF SumOver
<1>9. SumFunctionOnSet(F, D) = SumFunctionOnSet(B, D) + SumFunctionOnSet(C, D)
  BY <1>2, <1>4, <1>5, <1>6, <1>7, SumOfSums
<1>10. SumFunctionOnSet(C, D) = SumFunctionOnSet(PartsOf(L, a, C), E)
  BY <1>1, <1>5, SumByAnswers
<1>11. ASSUME NEW e \in E
       PROVE  SumFunctionOnSet(C, {s \in D : s[a] = e}) = Votes(Given(L, a, e), second[e])
  <2>1. PICK G, T, b : G = Given(L, a, e) /\ T = {s \in D : s[a] = e} /\ b = second[e]
    OBVIOUS
  <2>2. DOMAIN G = T /\ (\A s \in T : s \in D /\ G[s] = L[s]) /\ IsFiniteSet(DOMAIN G)
    <3>1. e \in Energies(L, a)
      BY <1>1
    <3>2. DOMAIN G = {s \in D : s[a] = e} /\ \A s \in DOMAIN G : s \in D /\ G[s] = L[s]
      BY <1>1, <2>1 DEF Given
    <3>3. IsFiniteSet(DOMAIN G)
      BY <2>1, <3>1, AnswersAreFinite
    <3> QED
      BY <2>1, <3>2, <3>3
  <2>3. PICK H : H = Ballot(G, b)
    OBVIOUS
  <2>4. Votes(G, b) = SumFunctionOnSet(H, T)
    BY <2>2, <2>3, VotesAreBallots
  <2>5. \A s \in T : C[s] = H[s]
    BY <1>3, <2>1, <2>2, <2>3 DEF Ballot
  <2>6. SumFunctionOnSet(C, T) = SumFunctionOnSet(H, T)
    BY <2>2, <2>5, SumSame
  <2> QED
    BY <2>1, <2>4, <2>6
<1>12. PartsOf(L, a, C) = Chosen(L, a, second)
  BY <1>1, <1>11 DEF PartsOf, Chosen
<1> QED
  BY <1>1, <1>4, <1>8, <1>9, <1>10, <1>12

\* The best rule takes the query with the most votes after every answer.
LEMMA BestRule ==
  ASSUME NEW m \in Nat, m > 1, NEW L, IsBelief(L, m), NEW a \in 1..m
  PROVE  /\ \A second \in [Energies(L, a) -> (1..m) \ {a}] :
              TwoStepValue(L, a, second) <= Votes(L, a) + SumOver(BestAfter(L, a, (1..m) \ {a}, 1))
         /\ \A second \in [Energies(L, a) -> (1..m) \ {a}] :
              (\A e \in Energies(L, a) : \A b \in (1..m) \ {a} :
                 Votes(Given(L, a, e), b) <= Votes(Given(L, a, e), second[e]))
              => TwoStepValue(L, a, second) = Votes(L, a) + SumOver(BestAfter(L, a, (1..m) \ {a}, 1))
         /\ \E second \in [Energies(L, a) -> (1..m) \ {a}] :
              \A e \in Energies(L, a) : \A b \in (1..m) \ {a} :
                Votes(Given(L, a, e), b) <= Votes(Given(L, a, e), second[e])
         /\ Votes(L, a) + SumOver(BestAfter(L, a, (1..m) \ {a}, 1)) \in Int
<1>1. PICK A, E, one : A = (1..m) \ {a} /\ E = Energies(L, a) /\ one \in Nat /\ one = 1
  OBVIOUS
<1>2. IsFiniteSet(A) /\ A # {} /\ IsFiniteSet(E) /\ IsFiniteSet(DOMAIN L)
  <2>1. IsFiniteSet(A) /\ Cardinality(A) = m - 1
    BY <1>1, RestFacts
  <2>2. A # {}
    BY <2>1, FS_EmptySet
  <2> QED
    BY <1>1, <2>1, <2>2, AnswersAreFinite DEF IsBelief
<1>3. PICK H : H = BestAfter(L, a, A, one)
  OBVIOUS
<1>4. one <= Cardinality(A)
  BY <1>1, <1>2, BestSingle
<1>5. H \in [E -> Int] /\ SumOver(H) = SumFunctionOnSet(H, E)
  BY <1>1, <1>2, <1>3, <1>4, BestAfterIsInt
<1>6. SumOver(H) \in Int /\ Votes(L, a) \in Nat
  BY <1>2, <1>5, SumOverIsInt, VotesAreNat
<1>7. ASSUME NEW e \in E
      PROVE  /\ \E b \in A : H[e] = Votes(Given(L, a, e), b)
             /\ \A b \in A : Votes(Given(L, a, e), b) <= H[e]
  <2>1. PICK G : G = Given(L, a, e)
    OBVIOUS
  <2>2. IsFiniteSet(DOMAIN G)
    BY <1>1, <2>1, AnswersAreFinite
  <2>3. H[e] = BestVotes(G, A, one)
    BY <1>1, <1>3, <2>1 DEF BestAfter
  <2> QED
    BY <1>1, <1>2, <2>1, <2>2, <2>3, BestSingle
<1>8. ASSUME NEW second \in [E -> A]
      PROVE  /\ TwoStepValue(L, a, second) <= Votes(L, a) + SumOver(H)
             /\ (\A e \in E : \A b \in A : Votes(Given(L, a, e), b) <= Votes(Given(L, a, e), second[e]))
                  => TwoStepValue(L, a, second) = Votes(L, a) + SumOver(H)
  <2>1. PICK F : F = Chosen(L, a, second)
    OBVIOUS
  <2>2. F \in [E -> Int] /\ \A e \in E : F[e] = Votes(Given(L, a, e), second[e])
    BY <1>1, <2>1, ChosenIsInt DEF Chosen
  <2>3. TwoStepValue(L, a, second) = Votes(L, a) + SumFunctionOnSet(F, E)
    BY <1>1, <2>1, TwoStepValueIs
  <2>4. \A e \in E : F[e] <= H[e]
    BY <1>7, <2>2
  <2>5. SumFunctionOnSet(F, E) <= SumFunctionOnSet(H, E)
    BY <1>2, <1>5, <2>2, <2>4, SumGrowsWithTerms
  <2>6. SumFunctionOnSet(F, E) \in Int
    BY <1>2, <2>2, SumIsInt
  <2>7. ASSUME \A e \in E : \A b \in A : Votes(Given(L, a, e), b) <= Votes(Given(L, a, e), second[e])
        PROVE  SumFunctionOnSet(F, E) = SumFunctionOnSet(H, E)
    <3>1. \A e \in E : F[e] = H[e]
      <4> TAKE e \in E
      <4>1. PICK b \in A : H[e] = Votes(Given(L, a, e), b)
        BY <1>7
      <4>2. H[e] <= F[e] /\ F[e] <= H[e] /\ F[e] \in Int /\ H[e] \in Int
        BY <1>5, <2>2, <2>4, <2>7, <4>1
      <4> QED
        BY <4>2
    <3> QED
      BY <1>2, <3>1, SumSame
  <2> QED
    BY <1>5, <1>6, <2>3, <2>5, <2>6, <2>7
<1>9. \E second \in [E -> A] :
        \A e \in E : \A b \in A : Votes(Given(L, a, e), b) <= Votes(Given(L, a, e), second[e])
  <2> DEFINE second == [e \in E |-> CHOOSE b \in A : H[e] = Votes(Given(L, a, e), b)]
  <2>1. \A e \in E : second[e] \in A /\ H[e] = Votes(Given(L, a, e), second[e])
    BY <1>7
  <2>2. second \in [E -> A]
    BY <2>1
  <2> HIDE DEF second
  <2>3. \A e \in E : \A b \in A : Votes(Given(L, a, e), b) <= Votes(Given(L, a, e), second[e])
    BY <1>7, <2>1
  <2> QED
    BY <2>2, <2>3
<1>10. H = BestAfter(L, a, (1..m) \ {a}, 1)
  BY <1>1, <1>3
<1>11. Votes(L, a) + SumOver(H) \in Int
  BY <1>6
<1> QED
  BY <1>1, <1>8, <1>9, <1>10, <1>11

-------------------------------------------------------------------------------
(* The anchored rollout is a decision rule.                                 *)

AnchoredStep(c, L, s, S) == IF S = Queries(c) THEN {} ELSE {AnchoredNext(c, L, s, S)}

\* With one query left the rollout stops; with two it continues once.
LEMMA AnchoredSelectionIs ==
  ASSUME NEW c, c.horizon \in Nat \ {0}, NEW L, NEW s, NEW a
  PROVE  AnchoredSelection(c, L, s, a, 2)
           = IF c.horizon = 1 THEN {a} ELSE {a} \union AnchoredStep(c, L, s, {a})
<1> DEFINE Steps(f, k) ==
             f = [j \in 0..k |-> IF j = 0 THEN {a} ELSE f[j - 1] \union AnchoredStep(c, L, s, f[j - 1])]
           after(k) == CHOOSE f : Steps(f, k)
<1>1. Min({c.horizon, 2}) = IF c.horizon = 1 THEN 1 ELSE 2
  <2>1. PICK h \in Int, two \in Int : h = c.horizon /\ two = 2 /\ 1 <= h
    OBVIOUS
  <2>2. Min({h, two}) \in {h, two} /\ Min({h, two}) <= h /\ Min({h, two}) <= two
    BY <2>1, LeastOfTwo
  <2>3. Min({h, two}) = IF h = 1 THEN 1 ELSE 2
    BY <2>1, <2>2
  <2> QED
    BY <2>1, <2>3
<1>2. PICK n \in Nat : n = Min({c.horizon, 2}) - 1 /\ n = IF c.horizon = 1 THEN 0 ELSE 1
  BY <1>1
<1>3. AnchoredSelection(c, L, s, a, 2) = after(n)[n]
  BY <1>2 DEF AnchoredSelection, AnchoredStep
<1> DEFINE F == [j \in 0..n |-> IF j = 0 THEN {a} ELSE {a} \union AnchoredStep(c, L, s, {a})]
<1>4. Steps(F, n)
  <2>1. ASSUME NEW j \in 0..n
        PROVE  F[j] = IF j = 0 THEN {a} ELSE F[j - 1] \union AnchoredStep(c, L, s, F[j - 1])
    <3>1. j = 0 \/ (j = 1 /\ j - 1 = 0)
      BY <1>2
    <3>2. 0 \in 0..n
      BY <1>2
    <3> QED
      BY <3>1, <3>2
  <2>2. F = [j \in 0..n |-> F[j]]
    OBVIOUS
  <2> HIDE DEF F
  <2> QED
    BY <2>1, <2>2
<1>5. PICK f : f = after(n)
  OBVIOUS
<1>6. Steps(f, n)
  <2>1. \E g : Steps(g, n)
    BY <1>4
  <2> HIDE DEF Steps
  <2> QED
    BY <1>5, <2>1
<1> HIDE DEF after, F
<1>7. \A j \in 0..n : f[j] = IF j = 0 THEN {a} ELSE f[j - 1] \union AnchoredStep(c, L, s, f[j - 1])
  BY <1>6
<1>8. f[0] = {a}
  <2>1. 0 \in 0..n
    BY <1>2
  <2> QED
    BY <1>7, <2>1
<1>9. ASSUME n = 1
      PROVE  f[1] = {a} \union AnchoredStep(c, L, s, {a})
  <2>1. PICK j \in 0..n : j = 1 /\ j # 0 /\ j - 1 = 0
    BY <1>9
  <2>2. f[j] = f[j - 1] \union AnchoredStep(c, L, s, f[j - 1])
    BY <1>7, <2>1
  <2>3. f[1] = f[0] \union AnchoredStep(c, L, s, f[0])
    BY <2>1, <2>2
  <2> QED
    BY <1>8, <2>3
<1>10. AnchoredSelection(c, L, s, a, 2) = f[n]
  BY <1>3, <1>5
<1>11. CASE n = 0
  <2>1. c.horizon = 1
    BY <1>2, <1>11
  <2> QED
    BY <1>8, <1>10, <1>11, <2>1
<1>12. CASE n = 1
  <2>1. c.horizon # 1
    BY <1>2, <1>12
  <2> QED
    BY <1>9, <1>10, <1>12, <2>1
<1> QED
  BY <1>2, <1>11, <1>12

LEMMA AnchoredStops ==
  ASSUME NEW c, c.horizon = 1, NEW L, NEW s, NEW a
  PROVE  AnchoredSelection(c, L, s, a, 2) = {a}
<1>1. \A d : d.horizon \in Nat \ {0} =>
        AnchoredSelection(d, L, s, a, 2)
          = IF d.horizon = 1 THEN {a} ELSE {a} \union AnchoredStep(d, L, s, {a})
  BY AnchoredSelectionIs
<1>2. PICK d : d = c
  OBVIOUS
<1>3. d.horizon = 1
  BY <1>2
<1>4. AnchoredSelection(d, L, s, a, 2) = {a}
  BY <1>1, <1>3
<1> QED
  BY <1>2, <1>4

\* What the conditioned posterior of the rollout is after an answer.
ReducedAfter(c, L, a, e) == [s \in {t \in DOMAIN L : t[a] = e} |-> LabelsAfter(c, s, {a})]

NextGiven(c, L, a, e) ==
  Best(Queries(c) \ {a}, [b \in Queries(c) \ {a} |-> Votes(ReducedAfter(c, L, a, e), b)],
       [b \in Queries(c) \ {a} |-> c.rank[b]])

LEMMA AnchoredNextIs ==
  ASSUME NEW c, NEW L, NEW s, NEW a
  PROVE  AnchoredNext(c, L, s, {a}) = NextGiven(c, L, a, s[a])
<1>1. Agreeing(L, s, {a}) = {t \in DOMAIN L : t[a] = s[a]}
  BY DEF Agreeing
<1>2. PICK R, D : R = ReducedAfter(c, L, a, s[a]) /\ D = Queries(c) \ {a}
  OBVIOUS
<1>3. R = [t \in Agreeing(L, s, {a}) |-> LabelsAfter(c, t, {a})]
  BY <1>1, <1>2 DEF ReducedAfter
<1>4. AnchoredNext(c, L, s, {a}) = BestById(c, D, LAMBDA b : Votes(R, b))
  BY <1>2, <1>3 DEF AnchoredNext
<1>5. NextGiven(c, L, a, s[a]) = Best(D, [b \in D |-> Votes(R, b)], [b \in D |-> c.rank[b]])
  BY <1>2 DEF NextGiven
<1> QED
  BY <1>4, <1>5 DEF BestById, Best

LEMMA NextGivenIs ==
  ASSUME NEW m, NEW c, IsCall(c, m), m > 1, NEW L, IsBelief(L, m), NEW a \in 1..m, NEW e \in Energies(L, a)
  PROVE  /\ NextGiven(c, L, a, e) \in (1..m) \ {a}
         /\ \A b \in (1..m) \ {a} :
              Votes(ReducedAfter(c, L, a, e), b) <= Votes(ReducedAfter(c, L, a, e), NextGiven(c, L, a, e))
<1>1. m \in Nat /\ Queries(c) = 1..m
  BY CallFits
<1>2. PICK A, R : A = (1..m) \ {a} /\ R = ReducedAfter(c, L, a, e)
  OBVIOUS
<1>3. IsFiniteSet(A) /\ A # {}
  <2>1. IsFiniteSet(A) /\ Cardinality(A) = m - 1
    BY <1>1, <1>2, RestFacts
  <2> QED
    BY <1>1, <2>1, FS_EmptySet
<1>4. IsFiniteSet(DOMAIN R)
  <2>1. DOMAIN R \subseteq DOMAIN L
    BY <1>2 DEF ReducedAfter
  <2> QED
    BY <2>1, FS_Subset DEF IsBelief
<1>5. PICK f, g : f = [b \in A |-> Votes(R, b)] /\ g = [b \in A |-> c.rank[b]]
  OBVIOUS
<1>6. f \in [A -> Int]
  <2>1. \A b \in A : Votes(R, b) \in Nat
    BY <1>4, VotesAreNat
  <2> QED
    BY <1>5, <2>1
<1>7. g \in [A -> Int]
  <2>1. \A b \in A : c.rank[b] \in Int
    BY <1>2 DEF IsCall
  <2> QED
    BY <1>5, <2>1
<1>8. PICK z : z = Best(A, f, g)
  OBVIOUS
<1>9. /\ z \in A
      /\ \A b \in A : f[z] > f[b] \/ (f[z] = f[b] /\ g[z] <= g[b])
  BY <1>3, <1>6, <1>7, <1>8, BestIs
<1>10. \A b \in A : f[b] <= f[z]
  BY <1>6, <1>9
<1>11. NextGiven(c, L, a, e) = z
  BY <1>1, <1>2, <1>5, <1>8 DEF NextGiven
<1> QED
  BY <1>2, <1>5, <1>9, <1>10, <1>11

\* What the rollout of Delta-Hull chooses after every answer.
AnchoredRule(c, L, a) == [e \in Energies(L, a) |-> NextGiven(c, L, a, e)]

LEMMA AnchoredIsARule ==
  ASSUME NEW m, NEW c, IsCall(c, m), m > 1, c.horizon \in Nat, c.horizon > 1, NEW L, IsBelief(L, m), NEW a \in 1..m
  PROVE  /\ AnchoredRule(c, L, a) \in [Energies(L, a) -> (1..m) \ {a}]
         /\ AnchoredScore(c, L, a, 2) = TwoStepValue(L, a, AnchoredRule(c, L, a))
<1>1. m \in Nat /\ Queries(c) = 1..m
  BY CallFits
<1>2. PICK second : second = AnchoredRule(c, L, a)
  OBVIOUS
<1>3. second \in [Energies(L, a) -> (1..m) \ {a}]
  BY <1>2, NextGivenIs DEF AnchoredRule
<1>4. {a} # Queries(c)
  BY <1>1
<1>5. ASSUME NEW s \in DOMAIN L
      PROVE  AnchoredSelection(c, L, s, a, 2) = {a, second[s[a]]}
  <2>1. AnchoredSelection(c, L, s, a, 2) = {a} \union AnchoredStep(c, L, s, {a})
    <3>1. c.horizon \in Nat \ {0} /\ c.horizon # 1
      OBVIOUS
    <3> QED
      BY <3>1, AnchoredSelectionIs
  <2>2. AnchoredStep(c, L, s, {a}) = {NextGiven(c, L, a, s[a])}
    <3>1. AnchoredNext(c, L, s, {a}) = NextGiven(c, L, a, s[a])
      BY AnchoredNextIs
    <3>2. AnchoredStep(c, L, s, {a}) = {AnchoredNext(c, L, s, {a})}
      BY <1>4 DEF AnchoredStep
    <3> QED
      BY <3>1, <3>2
  <2>3. second[s[a]] = NextGiven(c, L, a, s[a])
    BY <1>2 DEF AnchoredRule, Energies
  <2> QED
    BY <2>1, <2>2, <2>3
<1>6. AnchoredScore(c, L, a, 2) = TwoStepValue(L, a, second)
  BY <1>5 DEF AnchoredScore, TwoStepValue
<1> QED
  BY <1>2, <1>3, <1>6

\* When the queries have different compositions, the rollout sees the members
\* that the complete hull of a sample has.
LEMMA ReducedVotesAre ==
  ASSUME NEW m, NEW r, NEW c, IsRound(c, m, r), Different(c.xs, m), NEW samples, NEW L,
         L = Labelled(c, samples), IsBelief(L, m), NEW a \in 1..m, NEW e \in Energies(L, a),
         NEW b \in (1..m) \ {a}
  PROVE  Votes(ReducedAfter(c, L, a, e), b) = Votes(Given(L, a, e), b)
<1>1. PICK R, G : R = ReducedAfter(c, L, a, e) /\ G = Given(L, a, e)
  OBVIOUS
<1>2. DOMAIN R = {t \in DOMAIN L : t[a] = e} /\ DOMAIN G = {t \in DOMAIN L : t[a] = e}
  BY <1>1 DEF ReducedAfter, Given
<1>3. ASSUME NEW s \in DOMAIN R
      PROVE  b \in R[s] <=> b \in G[s]
  <2>1. s \in DOMAIN L /\ s \in [1..m -> Int]
    BY <1>2 DEF IsBelief
  <2>2. R[s] = LabelsAfter(c, s, {a}) /\ G[s] = L[s]
    BY <1>1, <1>2 DEF ReducedAfter, Given
  <2>3. L[s] = Membership(c.xs, s, c.references)
    BY <2>1 DEF Labelled
  <2>4. LabelsAfter(c, s, {a}) = Membership(c.xs, s, c.references) \ {a}
    BY <2>1, LabelsAfterAre
  <2> QED
    BY <2>2, <2>3, <2>4
<1>4. {s \in DOMAIN R : b \in R[s]} = {s \in DOMAIN G : b \in G[s]}
  BY <1>2, <1>3
<1> QED
  BY <1>1, <1>4 DEF Votes

-------------------------------------------------------------------------------
(* Three programs for one number.                                           *)

\* With one query left everything is worth the votes of the query.
LEMMA OneQueryLeft ==
  ASSUME NEW m, NEW c, IsCall(c, m), c.horizon = 1, NEW L, IsBelief(L, m), NEW a \in 1..m
  PROVE  /\ BestTwoStep(c, L, a) = Votes(L, a) /\ EnsScore(c, L, a) = Votes(L, a)
         /\ GradientScore(c, L, a) = Votes(L, a) /\ AnchoredScore(c, L, a, 2) = Votes(L, a)
         /\ Votes(L, a) \in Int
<1>1. m \in Nat /\ 1 \in 1..m /\ c.horizon \in 1..m
  BY DEF IsCall
<1>2. /\ Votes(L, a) \in Nat /\ Future(c, L, a) = 0
      /\ GradientScore(c, L, a) = Votes(L, a) + 0
  <2>1. Votes(L, a) \in Nat
    BY <1>1, ScoresAre
  <2>2. Future(c, L, a) = IF c.horizon = 1 THEN 0 ELSE SumOver(BestAfter(L, a, (1..m) \ {a}, c.horizon - 1))
    BY <1>1, ScoresAre
  <2>3. GradientScore(c, L, a)
          = Votes(L, a) + (IF c.horizon = 1 THEN 0 ELSE SumOver(BestAfter(L, a, (1..m) \ {a}, 1)))
    BY <1>1, ScoresAre
  <2>4. c.horizon = 1
    OBVIOUS
  <2> QED
    BY <2>1, <2>2, <2>3, <2>4
<1>3. EnsScore(c, L, a) = Votes(L, a) /\ GradientScore(c, L, a) = Votes(L, a)
  BY <1>2 DEF EnsScore
<1>4. BestTwoStep(c, L, a) = Votes(L, a)
  BY DEF BestTwoStep
<1>5. PICK D, B : D = DOMAIN L /\ B = Ballot(L, a)
  OBVIOUS
<1>6. IsFiniteSet(D)
  BY <1>5 DEF IsBelief
<1>7. B \in [D -> Int] /\ Votes(L, a) = SumFunctionOnSet(B, D)
  BY <1>5, <1>6, VotesAreBallots
<1>8. ASSUME NEW s \in D
      PROVE  Cardinality(AnchoredSelection(c, L, s, a, 2) \intersect L[s]) = B[s]
  <2>1. AnchoredSelection(c, L, s, a, 2) = {a}
    BY AnchoredStops
  <2>2. B[s] = IF a \in L[s] THEN 1 ELSE 0
    BY <1>5 DEF Ballot
  <2>3. Cardinality({a}) = 1 /\ Cardinality({}) = 0
    BY FS_Singleton, FS_EmptySet
  <2>4. {a} \intersect L[s] = IF a \in L[s] THEN {a} ELSE {}
    OBVIOUS
  <2> QED
    BY <2>1, <2>2, <2>3, <2>4
<1>9. AnchoredScore(c, L, a, 2) = SumOver([s \in D |-> B[s]])
  BY <1>5, <1>8 DEF AnchoredScore
<1>10. B = [s \in D |-> B[s]] /\ DOMAIN B = D
  BY <1>7
<1>11. AnchoredScore(c, L, a, 2) = SumFunctionOnSet(B, D)
  BY <1>9, <1>10 DEF SumOver
<1> QED
  BY <1>2, <1>3, <1>4, <1>7, <1>11

\* With more, the gradient is worth the best rule, Hull-ENS with two queries left
\* is so too, and the rollout is a rule, the best one when the queries have
\* different compositions.
LEMMA MoreQueriesLeft ==
  ASSUME NEW m, NEW r, NEW c, IsRound(c, m, r), c.horizon > 1, NEW samples, NEW L,
         L = Labelled(c, samples), IsBelief(L, m), NEW a \in 1..m
  PROVE  /\ GradientScore(c, L, a) = BestTwoStep(c, L, a)
         /\ c.horizon = 2 => EnsScore(c, L, a) = BestTwoStep(c, L, a)
         /\ AnchoredScore(c, L, a, 2) <= BestTwoStep(c, L, a)
         /\ Different(c.xs, m) => AnchoredScore(c, L, a, 2) = BestTwoStep(c, L, a)
         /\ BestTwoStep(c, L, a) \in Int
<1>1. /\ IsCall(c, m) /\ c.horizon \in 1..m /\ c.horizon \in Nat
      /\ m \in Nat /\ m > 1 /\ Queries(c) = 1..m
  <2>1. IsCall(c, m) /\ c.horizon \in 1..m
    BY DEF IsRound
  <2>2. m \in Nat /\ Queries(c) = 1..m
    BY <2>1, CallFits
  <2> QED
    BY <2>1, <2>2
<1>2. PICK A, E, v : /\ A = (1..m) \ {a} /\ E = Energies(L, a)
                     /\ v = Votes(L, a) + SumOver(BestAfter(L, a, (1..m) \ {a}, 1))
  OBVIOUS
<1>3. /\ \A second \in [E -> A] : TwoStepValue(L, a, second) <= v
      /\ v \in Int
  BY <1>1, <1>2, BestRule
<1>4. \A second \in [E -> A] :
        (\A e \in E : \A b \in A : Votes(Given(L, a, e), b) <= Votes(Given(L, a, e), second[e]))
        => TwoStepValue(L, a, second) = v
  BY <1>1, <1>2, BestRule
<1>5. \E second \in [E -> A] :
        \A e \in E : \A b \in A : Votes(Given(L, a, e), b) <= Votes(Given(L, a, e), second[e])
  BY <1>1, <1>2, BestRule
<1>6. BestTwoStep(c, L, a) = v
  <2>1. PICK S : S = {TwoStepValue(L, a, second) : second \in [E -> A]}
    OBVIOUS
  <2>2. v \in S
    BY <1>4, <1>5, <2>1
  <2>3. S \subseteq Int
    <3>1. ASSUME NEW second \in [E -> A]
          PROVE  TwoStepValue(L, a, second) \in Int
      <4>1. Chosen(L, a, second) \in [E -> Int]
        BY <1>2, ChosenIsInt
      <4>2. IsFiniteSet(E) /\ IsFiniteSet(DOMAIN L)
        BY <1>2, AnswersAreFinite DEF IsBelief
      <4>3. SumFunctionOnSet(Chosen(L, a, second), E) \in Int /\ Votes(L, a) \in Nat
        BY <4>1, <4>2, SumIsInt, VotesAreNat
      <4>4. TwoStepValue(L, a, second) = Votes(L, a) + SumFunctionOnSet(Chosen(L, a, second), E)
        BY <1>2, TwoStepValueIs
      <4> QED
        BY <4>3, <4>4
    <3> QED
      BY <2>1, <3>1
  <2>4. \A y \in S : y <= v
    BY <1>3, <2>1
  <2>5. Max(S) = v
    BY <2>2, <2>3, <2>4, GreatestIs
  <2>6. Cardinality(Queries(c)) # 1
    BY <1>1, FirstNumbers
  <2>7. BestTwoStep(c, L, a) = Max({TwoStepValue(L, a, second) : second \in SecondChoices(c, L, a)})
    BY <1>1, <2>6 DEF BestTwoStep
  <2>8. SecondChoices(c, L, a) = [E -> A]
    BY <1>1, <1>2 DEF SecondChoices
  <2> QED
    BY <2>1, <2>5, <2>7, <2>8
<1>7. GradientScore(c, L, a) = v
  <2>1. GradientScore(c, L, a) = Votes(L, a) + (IF c.horizon = 1 THEN 0 ELSE SumOver(BestAfter(L, a, A, 1)))
    BY <1>1, <1>2, ScoresAre
  <2>2. c.horizon # 1
    BY <1>1
  <2> QED
    BY <1>2, <2>1, <2>2
<1>11. ASSUME c.horizon = 2
       PROVE  EnsScore(c, L, a) = v
  <2>1. PICK H, k : H = SumOver(BestAfter(L, a, A, k)) /\ k = 1 /\ c.horizon - 1 = k
    BY <1>11
  <2>2. Future(c, L, a) = IF c.horizon = 1 THEN 0 ELSE SumOver(BestAfter(L, a, A, c.horizon - 1))
    BY <1>1, <1>2, ScoresAre
  <2>3. c.horizon # 1
    BY <1>1
  <2>4. Future(c, L, a) = H
    BY <2>1, <2>2, <2>3
  <2> QED
    BY <1>2, <2>1, <2>4 DEF EnsScore
<1>8. PICK rule : rule = AnchoredRule(c, L, a)
  OBVIOUS
<1>9. rule \in [E -> A] /\ AnchoredScore(c, L, a, 2) = TwoStepValue(L, a, rule)
  BY <1>1, <1>2, <1>8, AnchoredIsARule
<1>10. ASSUME Different(c.xs, m)
       PROVE  TwoStepValue(L, a, rule) = v
  <2>1. ASSUME NEW e \in E, NEW b \in A
        PROVE  Votes(Given(L, a, e), b) <= Votes(Given(L, a, e), rule[e])
    <3>1. PICK d, R, G : d = rule[e] /\ R = ReducedAfter(c, L, a, e) /\ G = Given(L, a, e)
      OBVIOUS
    <3>2. d \in A /\ d = NextGiven(c, L, a, e)
      BY <1>2, <1>8, <1>9, <3>1 DEF AnchoredRule
    <3>3. Votes(R, b) <= Votes(R, d)
      BY <1>1, <1>2, <3>1, <3>2, NextGivenIs
    <3>4. Votes(R, b) = Votes(G, b)
      BY <1>2, <1>10, <3>1, ReducedVotesAre
    <3>5. Votes(R, d) = Votes(G, d)
      BY <1>2, <1>10, <3>1, <3>2, ReducedVotesAre
    <3> QED
      BY <3>1, <3>3, <3>4, <3>5
  <2> QED
    BY <1>4, <1>9, <2>1
<1> QED
  BY <1>3, <1>6, <1>7, <1>9, <1>10, <1>11

-------------------------------------------------------------------------------
(* The rounds of the loop.                                                  *)

\* The call that the worker is asked to answer, and what it believes then.
LEMMA CallIsARound ==
  ASSUME CampaignInvariant, CanPay
  PROVE  \E m : \E r : /\ IsRound(Call, m, r) /\ IsBelief(Labelled(Call, Samples), m)
                       /\ DOMAIN Labelled(Call, Samples) = Samples
<1> DEFINE m == Cardinality((DOMAIN system.xs) \ ToSet(revealed))
<1>1. /\ system \in Systems /\ truth \in system.worlds /\ IsHistory(revealed, system)
      /\ Len(revealed) < system.budget /\ (DOMAIN system.xs) \ ToSet(revealed) # {}
  BY DEF CampaignInvariant, GateInvariant, CanPay, Remaining
<1>2. PICK r : IsRound(Call, m, r)
  BY <1>1, RoundsAreRounds DEF Call
<1>3. \A v \in Samples : v \in [1..m -> Int]
  BY <1>1, RoundsAreRounds DEF Samples
<1>4. IsFiniteSet(Samples) /\ Samples # {}
  BY <1>1, SamplesFacts DEF Samples
<1> HIDE DEF m
<1>5. PICK c, S : c = Call /\ S = Samples
  OBVIOUS
<1>6. m \in Nat /\ c.xs \in [1..m -> Compositions]
  BY <1>2, <1>5 DEF IsRound, IsCall
<1>7. IsBelief(Labelled(c, S), m)
  BY <1>3, <1>4, <1>5, <1>6, SamplesAreBelieved
<1>8. DOMAIN Labelled(c, S) = S
  BY DEF Labelled
<1> QED
  BY <1>2, <1>5, <1>7, <1>8

\* The first two queries of a round are a round.
LEMMA TwoStepIsARound ==
  ASSUME NEW m, NEW r, IsRound(Call, m, r)
  PROVE  /\ IsRound(TwoStep(Call), m, r) /\ TwoStep(Call).horizon \in {1, 2}
         /\ TwoStep(Call).xs = Call.xs /\ TwoStep(Call).references = Call.references
<1>1. PICK c : c = Call
  OBVIOUS
<1>2. DOMAIN c = {"xs", "source", "rank", "references", "hull", "horizon"}
  BY <1>1 DEF Call, CallAfter, CallWith
<1>3. PICK h : h = Min({c.horizon, 2})
  OBVIOUS
<1>4. m \in Nat /\ c.horizon \in 1..m
  BY <1>1 DEF IsRound, IsCall
<1>5. h \in {1, 2} /\ h \in 1..m
  <2>1. PICK k \in Int, two \in Int : k = c.horizon /\ two = 2
    BY <1>4
  <2>2. Min({k, two}) \in {k, two} /\ Min({k, two}) <= k /\ Min({k, two}) <= two
    BY LeastOfTwo
  <2>3. h \in {k, two} /\ h <= k /\ h <= two
    BY <1>3, <2>1, <2>2
  <2> QED
    BY <1>4, <2>1, <2>3
<1>6. PICK d : d = TwoStep(c)
  OBVIOUS
<1>7. d = [c EXCEPT !.horizon = h]
  BY <1>3, <1>6 DEF TwoStep
<1>8. /\ d.xs = c.xs /\ d.source = c.source /\ d.rank = c.rank /\ d.references = c.references
      /\ d.hull = c.hull /\ d.horizon = h
  BY <1>2, <1>7
<1>9. IsRound(c, m, r)
  BY <1>1
<1>10. IsRound(d, m, r)
  BY <1>5, <1>8, <1>9 DEF IsRound, IsCall
<1> QED
  BY <1>1, <1>5, <1>6, <1>8, <1>10

LEMMA PlannersAgree ==
  ASSUME CampaignInvariant
  PROVE  TwoStepPlannersAgree
<1> SUFFICES ASSUME CanPay, system.supported, NEW c, c = TwoStep(Call),
                    NEW L, L = Labelled(c, Samples), NEW a \in Queries(c)
             PROVE  /\ EnsScore(c, L, a) = BestTwoStep(c, L, a) /\ GradientScore(c, L, a) = BestTwoStep(c, L, a)
                    /\ AnchoredScore(c, L, a, 2) <= BestTwoStep(c, L, a)
                    /\ IsInjective(c.xs) => AnchoredScore(c, L, a, 2) = BestTwoStep(c, L, a)
  BY DEF TwoStepPlannersAgree
<1>1. PICK m : \E r : /\ IsRound(Call, m, r) /\ IsBelief(Labelled(Call, Samples), m)
                      /\ DOMAIN Labelled(Call, Samples) = Samples
  BY CallIsARound
<1>2. PICK r : IsRound(Call, m, r) /\ IsBelief(Labelled(Call, Samples), m)
  BY <1>1
<1>3. IsRound(c, m, r) /\ c.horizon \in {1, 2} /\ c.xs = Call.xs /\ c.references = Call.references
  BY <1>2, TwoStepIsARound
<1>4. L = Labelled(Call, Samples)
  BY <1>3 DEF Labelled
<1>5. IsBelief(L, m)
  BY <1>2, <1>4
<1>6. a \in 1..m /\ IsCall(c, m)
  BY <1>3, CallFits DEF IsRound
<1>7. IsInjective(c.xs) => Different(c.xs, m)
  BY <1>6 DEF IsInjective, Different, IsCall
<1>8. CASE c.horizon = 1
  <2>1. /\ BestTwoStep(c, L, a) = Votes(L, a) /\ EnsScore(c, L, a) = Votes(L, a)
        /\ GradientScore(c, L, a) = Votes(L, a) /\ AnchoredScore(c, L, a, 2) = Votes(L, a)
        /\ Votes(L, a) \in Int
    BY <1>5, <1>6, <1>8, OneQueryLeft
  <2> QED
    BY <2>1
<1>9. CASE c.horizon = 2
  <2>1. /\ EnsScore(c, L, a) = BestTwoStep(c, L, a) /\ GradientScore(c, L, a) = BestTwoStep(c, L, a)
        /\ AnchoredScore(c, L, a, 2) <= BestTwoStep(c, L, a)
        /\ Different(c.xs, m) => AnchoredScore(c, L, a, 2) = BestTwoStep(c, L, a)
    BY <1>3, <1>5, <1>6, <1>9, MoreQueriesLeft
  <2> QED
    BY <1>7, <2>1
<1> QED
  BY <1>3, <1>8, <1>9

-------------------------------------------------------------------------------
(* What replaces Delta-Hull.                                                *)

\* The rollout never shows more than the best rule is worth.
LEMMA RolloutIsAtMostBest ==
  ASSUME NEW m, NEW r, NEW c, IsRound(c, m, r), NEW samples, NEW L,
         L = Labelled(c, samples), IsBelief(L, m), NEW a \in 1..m
  PROVE  /\ AnchoredScore(c, L, a, 2) <= BestTwoStep(c, L, a)
         /\ Different(c.xs, m) => AnchoredScore(c, L, a, 2) = BestTwoStep(c, L, a)
         /\ AnchoredScore(c, L, a, 2) \in Int /\ BestTwoStep(c, L, a) \in Int
<1>1. IsCall(c, m) /\ c.horizon \in 1..m
  BY DEF IsRound
<1>2. AnchoredScore(c, L, a, 2) \in Int
  BY <1>1, AnchoredScoreIsInt
<1>3. CASE c.horizon = 1
  <2>1. /\ BestTwoStep(c, L, a) = Votes(L, a) /\ AnchoredScore(c, L, a, 2) = Votes(L, a)
        /\ Votes(L, a) \in Int
    BY <1>1, <1>3, OneQueryLeft
  <2> QED
    BY <2>1
<1>4. CASE c.horizon > 1
  <2>1. /\ AnchoredScore(c, L, a, 2) <= BestTwoStep(c, L, a)
        /\ Different(c.xs, m) => AnchoredScore(c, L, a, 2) = BestTwoStep(c, L, a)
        /\ BestTwoStep(c, L, a) \in Int
    BY <1>4, MoreQueriesLeft
  <2> QED
    BY <1>2, <2>1
<1>5. c.horizon = 1 \/ c.horizon > 1
  BY <1>1 DEF IsCall
<1> QED
  BY <1>3, <1>4, <1>5

-------------------------------------------------------------------------------
(* The bounds of the scores.                                                *)

\* There are no more samples than worlds.
LEMMA SamplesAreFew ==
  ASSUME NEW s \in Systems, NEW q, IsHistory(q, s), NEW w \in s.worlds
  PROVE  Cardinality(SamplesAfter(s, q, w)) \in Nat /\ Cardinality(SamplesAfter(s, q, w)) <= Cardinality(s.worlds)
<1> DEFINE W == {v \in s.worlds : \A k \in ToSet(q) : v[k] = w[k]}
           f == [v \in W |-> VisibleAfter(s, q, v)]
<1>0. IsFiniteSet(s.worlds)
  BY SystemShape
<1>1. W \subseteq s.worlds
  OBVIOUS
<1>2. SamplesAfter(s, q, w) = {f[v] : v \in W}
  BY DEF SamplesAfter
<1>3. f \in Surjection(W, {f[v] : v \in W})
  BY DEF Surjection
<1> HIDE DEF f, W
<1>4. IsFiniteSet(W) /\ Cardinality(W) <= Cardinality(s.worlds)
  BY <1>0, <1>1, FS_Subset
<1>5. IsFiniteSet({f[v] : v \in W}) /\ Cardinality({f[v] : v \in W}) <= Cardinality(W)
  BY <1>3, <1>4, FS_Surjection
<1>6. Cardinality({f[v] : v \in W}) \in Nat /\ Cardinality(W) \in Nat /\ Cardinality(s.worlds) \in Nat
  BY <1>0, <1>4, <1>5, FS_CardinalityType
<1> QED
  BY <1>2, <1>4, <1>5, <1>6

LEMMA LooksAheadInOrder ==
  ASSUME CampaignInvariant
  PROVE  LookaheadOrdered
<1> SUFFICES ASSUME CanPay, system.supported, NEW c, c = Call,
                    NEW L, L = Labelled(c, Samples), NEW a \in Queries(c)
             PROVE  /\ BatchValue(c, L, a) <= EnsScore(c, L, a)
                    /\ EnsScore(c, L, a) <= ClairvoyantValue(c, L, a)
                    /\ Information(c, L, a) >= 0
                    /\ RiskReduction(c, L, a) >= 0
  BY Zenon DEF LookaheadOrdered
<1>1. PICK m : \E r : /\ IsRound(Call, m, r) /\ IsBelief(Labelled(Call, Samples), m)
                      /\ DOMAIN Labelled(Call, Samples) = Samples
  BY CallIsARound
<1>2. PICK r : IsRound(c, m, r) /\ IsBelief(L, m) /\ DOMAIN L = Samples
  BY <1>1
<1>3. IsCall(c, m) /\ c.horizon \in 1..m /\ m \in Nat /\ Queries(c) = 1..m
  BY <1>2, CallFits DEF IsRound
<1>4. Min({c.horizon, Cardinality(Queries(c))}) = c.horizon
  <2>1. Cardinality(Queries(c)) = m
    BY <1>3, FirstNumbers
  <2>2. PICK h \in Int, k \in Int : h = c.horizon /\ k = m /\ h <= k
    BY <1>3
  <2>3. Min({h, k}) \in {h, k} /\ Min({h, k}) <= h /\ Min({h, k}) <= k
    BY LeastOfTwo
  <2> QED
    BY <2>1, <2>2, <2>3
<1>5. BatchValue(c, L, a) <= EnsScore(c, L, a)
  <2>1. Votes(L, a) + BestVotes(L, (1..m) \ {a}, c.horizon - 1) <= EnsScore(c, L, a)
    BY <1>2, <1>3, BatchIsAtMostScore
  <2> QED
    BY <1>3, <1>4, <2>1 DEF BatchValue
<1>6. EnsScore(c, L, a) <= ClairvoyantValue(c, L, a)
  BY <1>2, <1>3, ScoreIsAtMostAllKnowing
<1>7. Information(c, L, a) >= 0
  BY <1>2, <1>3, InformationIsNat
<1>8. \A n \in 1..Cardinality(DOMAIN L) : Scale % n = 0
  <2>1. system \in Systems /\ truth \in system.worlds /\ IsHistory(revealed, system)
    BY DEF CampaignInvariant, GateInvariant
  <2>2. PICK k, l : k = Cardinality(Samples) /\ l = Cardinality(system.worlds)
    OBVIOUS
  <2>3. k \in Nat /\ k <= l
    BY <2>1, <2>2, SamplesAreFew DEF Samples
  <2>4. l \in Nat /\ \A n \in 1..l : Scale % n = 0
    <3>1. IsFiniteSet(system.worlds)
      BY <2>1, SystemShape
    <3> QED
      BY <2>1, <2>2, <3>1, DispatchAssumption, FS_CardinalityType
  <2>5. \A n \in 1..k : n \in 1..l
    BY <2>3, <2>4
  <2> QED
    BY <1>2, <2>2, <2>4, <2>5
<1>9. RiskReduction(c, L, a) >= 0
  BY <1>2, <1>3, <1>8, RiskReductionIsNat
<1> QED
  BY <1>5, <1>6, <1>7, <1>9

\* The posterior policies look ahead exactly, in every round of every campaign:
\* with two queries Hull-ENS and the knowledge gradient are worth the best
\* decision rule for the second one, the anchored rollout no more, and as much when
\* no two queries have one composition; a score of Hull-ENS is between its best
\* batch and what all-knowing queries are worth; no answer is worth less than
\* nothing, to the best of the others or to the variance of the hull.
THEOREM LookaheadIsAlwaysExact == GateSpec => []LookaheadIsExact
<1>1. CampaignInvariant => LookaheadIsExact
  BY PlannersAgree, LooksAheadInOrder DEF LookaheadIsExact
<1> QED
  BY <1>1, CampaignInvariantHolds, PTL

-------------------------------------------------------------------------------
(* What replaces Delta-Hull pays for it in the rollouts.                     *)

\* Two queries of a round, taken alone, are worth what the rollout finds in them
\* when the queries have different compositions.
LEMMA TwoStepIsFound ==
  ASSUME NEW m, NEW r, IsRound(Call, m, r), Different(Call.xs, m), NEW L, L = Labelled(Call, Samples),
         IsBelief(L, m), NEW a \in 1..m
  PROVE  /\ EnsScore(TwoStep(Call), L, a) = AnchoredScore(Call, L, a, 2)
         /\ Call.horizon <= 2 => EnsScore(Call, L, a) = AnchoredScore(Call, L, a, 2)
         /\ AnchoredScore(Call, L, a, 2) \in Int
<1>1. PICK c, d, S : c = Call /\ d = TwoStep(Call) /\ S = Samples
  OBVIOUS
<1>2. /\ IsRound(c, m, r) /\ IsRound(d, m, r) /\ d.horizon \in {1, 2} /\ d.xs = c.xs
      /\ d.references = c.references
  BY <1>1, TwoStepIsARound
<1>3. /\ IsCall(c, m) /\ IsCall(d, m) /\ c.horizon \in 1..m /\ m \in Nat
      /\ L = Labelled(c, S) /\ L = Labelled(d, S) /\ Different(c.xs, m) /\ Different(d.xs, m)
  BY <1>1, <1>2 DEF IsRound, IsCall, Labelled
<1>4. d.horizon = 1 <=> c.horizon = 1
  <2>1. DOMAIN c = {"xs", "source", "rank", "references", "hull", "horizon"}
    BY <1>1 DEF Call, CallAfter, CallWith
  <2>2. d.horizon = Min({c.horizon, 2})
    BY <1>1, <2>1 DEF TwoStep
  <2>3. PICK k \in Int, two \in Int : k = c.horizon /\ two = 2 /\ 1 <= k
    BY <1>3
  <2>4. Min({k, two}) \in {k, two} /\ Min({k, two}) <= k
    BY <2>3, LeastOfTwo
  <2> QED
    BY <2>2, <2>3, <2>4
<1>5. BestTwoStep(d, L, a) = BestTwoStep(c, L, a)
  <2>1. Queries(d) = Queries(c)
    BY <1>2 DEF Queries
  <2>2. SecondChoices(d, L, a) = SecondChoices(c, L, a)
    BY <2>1 DEF SecondChoices
  <2> QED
    BY <1>4, <2>1, <2>2 DEF BestTwoStep
<1>6. AnchoredScore(c, L, a, 2) = BestTwoStep(c, L, a) /\ AnchoredScore(c, L, a, 2) \in Int
  BY <1>2, <1>3, RolloutIsAtMostBest
<1>7. ASSUME NEW b, IsRound(b, m, r), IsCall(b, m), b.horizon = 1 \/ b.horizon = 2, L = Labelled(b, S)
      PROVE  EnsScore(b, L, a) = BestTwoStep(b, L, a)
  <2>1. CASE b.horizon = 1
    BY <1>7, <2>1, OneQueryLeft
  <2>2. CASE b.horizon = 2
    <3>1. b.horizon > 1
      BY <2>2
    <3> QED
      BY <1>7, <2>2, <3>1, MoreQueriesLeft
  <2> QED
    BY <1>7, <2>1, <2>2
<1>8. EnsScore(d, L, a) = BestTwoStep(d, L, a)
  BY <1>2, <1>3, <1>7
<1>9. c.horizon <= 2 => EnsScore(c, L, a) = BestTwoStep(c, L, a)
  <2>1. c.horizon <= 2 => c.horizon = 1 \/ c.horizon = 2
    BY <1>3
  <2> QED
    BY <1>2, <1>3, <1>7, <2>1
<1> QED
  BY <1>1, <1>5, <1>6, <1>8, <1>9

\* What has the best score of all the queries.
LEMMA BestOfQueries ==
  ASSUME NEW m, NEW c, IsCall(c, m), NEW f, f \in [1..m -> Int]
  PROVE  LET z == Best(1..m, f, [a \in 1..m |-> c.rank[a]]) IN
         z \in 1..m /\ f[z] = Max({f[b] : b \in 1..m}) /\ \A b \in 1..m : f[b] <= f[z]
<1>1. IsFiniteSet(1..m) /\ 1..m # {} /\ c.rank \in [1..m -> Int]
  <2>1. m \in Nat /\ 1 \in 1..m /\ c.rank \in [1..m -> Int]
    BY DEF IsCall
  <2>2. IsFiniteSet(1..m)
    BY <2>1, FirstNumbers
  <2> QED
    BY <2>1, <2>2
<1>2. PICK D, g : D = 1..m /\ g = [a \in 1..m |-> c.rank[a]]
  OBVIOUS
<1>3. g \in [D -> Int] /\ f \in [D -> Int] /\ IsFiniteSet(D) /\ D # {}
  BY <1>1, <1>2
<1>4. PICK z : z = Best(D, f, g)
  OBVIOUS
<1>5. z \in D /\ \A b \in D : f[z] > f[b] \/ (f[z] = f[b] /\ g[z] <= g[b])
  <2>1. /\ Best(D, f, g) \in D
        /\ \A b \in D : f[Best(D, f, g)] > f[b] \/ (f[Best(D, f, g)] = f[b] /\ g[Best(D, f, g)] <= g[b])
    BY <1>3, BestIs
  <2> QED
    BY <1>4, <2>1
<1>6. \A b \in D : f[b] <= f[z]
  <2> TAKE b \in D
  <2>1. f[z] \in Int /\ f[b] \in Int
    BY <1>3, <1>5
  <2> QED
    BY <1>5, <2>1
<1>7. f[z] = Max({f[b] : b \in D})
  <2>1. PICK F, v : F = {f[b] : b \in D} /\ v = f[z]
    OBVIOUS
  <2>2. F \subseteq Int /\ v \in F /\ \A y \in F : y <= v
    BY <1>3, <1>5, <1>6, <2>1
  <2>3. Max(F) = v
    BY <2>2, GreatestIs
  <2> QED
    BY <2>1, <2>3
<1> QED
  BY <1>2, <1>4, <1>5, <1>6, <1>7

\* Where compositions differ, the headroom is the best gain of the rollouts.
LEMMA HeadroomIsGain ==
  ASSUME NEW m, NEW r, IsRound(Call, m, r), Different(Call.xs, m), NEW L, L = Labelled(Call, Samples),
         IsBelief(L, m)
  PROVE  Headroom(Call, L) = Max({AnchoredScore(Call, L, b, 2) : b \in 1..m})
                               - AnchoredScore(Call, L, DeltaAction(Call, L), 2)
<1>1. PICK c, d : c = Call /\ d = TwoStep(Call)
  OBVIOUS
<1>2. IsRound(c, m, r) /\ IsRound(d, m, r) /\ d.xs = c.xs
  BY <1>1, TwoStepIsARound
<1>3. IsCall(c, m) /\ IsCall(d, m)
  BY <1>2 DEF IsRound
<1>4. Queries(c) = 1..m /\ Queries(d) = 1..m
  BY <1>3, CallFits
<1>6. PICK f : f = [b \in 1..m |-> AnchoredScore(c, L, b, 2)]
  OBVIOUS
<1>7. ASSUME NEW b \in 1..m
      PROVE  EnsScore(d, L, b) = f[b] /\ f[b] = AnchoredScore(c, L, b, 2) /\ f[b] \in Int
  BY <1>1, <1>6, TwoStepIsFound
<1>8. f \in [1..m -> Int]
  BY <1>6, <1>7
<1>9. EnsAction(d, L) = Best(1..m, f, [b \in 1..m |-> d.rank[b]])
  <2>1. EnsAction(d, L) = Best(1..m, [b \in 1..m |-> EnsScore(d, L, b)], [b \in 1..m |-> d.rank[b]])
    BY <1>4 DEF EnsAction, BestById, Best
  <2>2. [b \in 1..m |-> EnsScore(d, L, b)] = f
    BY <1>6, <1>7
  <2> QED
    BY <2>1, <2>2
<1>10. EnsAction(d, L) \in 1..m /\ f[EnsAction(d, L)] = Max({f[b] : b \in 1..m})
  BY <1>3, <1>8, <1>9, BestOfQueries
<1>11. DeltaAction(c, L) \in 1..m
  BY <1>3, DeltaIsAQuery
<1>12. {f[b] : b \in 1..m} = {AnchoredScore(c, L, b, 2) : b \in 1..m}
  <2>1. \A b \in 1..m : f[b] = AnchoredScore(c, L, b, 2)
    BY <1>6
  <2> QED
    BY <2>1, Zenon
<1>13. Headroom(c, L) = EnsScore(d, L, EnsAction(d, L)) - EnsScore(d, L, DeltaAction(c, L))
  BY <1>1 DEF Headroom
<1> QED
  BY <1>1, <1>7, <1>10, <1>11, <1>12, <1>13

\* The anchored rollout selects the query that it finds the most with.
LEMMA RolloutIsBest ==
  ASSUME NEW m, NEW c, IsCall(c, m), NEW L, IsBelief(L, m)
  PROVE  /\ AnchoredAction(c, L) \in 1..m
         /\ \A b \in 1..m : AnchoredScore(c, L, b, 2) <= AnchoredScore(c, L, AnchoredAction(c, L), 2)
         /\ Max({AnchoredScore(c, L, b, 2) : b \in 1..m}) = AnchoredScore(c, L, AnchoredAction(c, L), 2)
<1>1. Queries(c) = 1..m
  BY CallFits
<1>2. PICK f : f = [b \in 1..m |-> AnchoredScore(c, L, b, 2)]
  OBVIOUS
<1>3. \A b \in 1..m : f[b] = AnchoredScore(c, L, b, 2) /\ f[b] \in Int
  BY <1>2, AnchoredScoreIsInt
<1>4. f \in [1..m -> Int]
  BY <1>2, <1>3
<1>5. AnchoredAction(c, L) = Best(1..m, f, [b \in 1..m |-> c.rank[b]])
  BY <1>1, <1>2 DEF AnchoredAction, BestById, Best
<1>6. /\ AnchoredAction(c, L) \in 1..m /\ \A b \in 1..m : f[b] <= f[AnchoredAction(c, L)]
      /\ f[AnchoredAction(c, L)] = Max({f[b] : b \in 1..m})
  BY <1>4, <1>5, BestOfQueries
<1>7. {f[b] : b \in 1..m} = {AnchoredScore(c, L, b, 2) : b \in 1..m}
  <2>1. \A b \in 1..m : f[b] = AnchoredScore(c, L, b, 2)
    BY <1>3
  <2> QED
    BY <2>1, Zenon
<1> QED
  BY <1>3, <1>6, <1>7

\* What replaces Delta-Hull gains more in the rollouts than the gate asks for.
LEMMA GatesPay ==
  ASSUME CampaignInvariant
  PROVE  GatesPayTheirMargin
<1> SUFFICES ASSUME CanPay, system.supported, NEW c, c = Call, NEW L, L = Labelled(c, Samples),
                    NEW delta, delta = DeltaAction(c, L),
                    NEW found, found = [b \in Queries(c) |-> AnchoredScore(c, L, b, 2)], IsInjective(c.xs)
             PROVE  /\ Headroom(c, L) = Max({found[b] : b \in Queries(c)}) - found[delta]
                    /\ \A penalty \in Radii : \A a \in SelectiveActions(c, L, penalty) \ {delta} :
                         /\ found[a] - found[delta] > penalty
                         /\ \A b \in Queries(c) : found[b] <= found[a]
                    /\ c.horizon <= 2 =>
                         \A radius \in Radii : \A a \in {SafeAction(c, L, 2, radius)} \ {delta} :
                           found[a] - found[delta] > c.horizon * radius
  BY Zenon DEF GatesPayTheirMargin
<1>1. PICK m : \E r : /\ IsRound(Call, m, r) /\ IsBelief(Labelled(Call, Samples), m)
                      /\ DOMAIN Labelled(Call, Samples) = Samples
  BY CallIsARound
<1>2. PICK r : IsRound(c, m, r) /\ IsBelief(L, m)
  BY <1>1
<1>3. IsCall(c, m) /\ c.horizon \in 1..m /\ m \in Nat /\ Queries(c) = 1..m
  BY <1>2, CallFits DEF IsRound
<1>4. Different(c.xs, m)
  BY <1>3 DEF IsInjective, Different, IsCall
<1>5. ASSUME NEW b \in 1..m
      PROVE  /\ found[b] = AnchoredScore(c, L, b, 2) /\ found[b] \in Int
             /\ c.horizon <= 2 => EnsScore(c, L, b) = found[b]
  BY <1>2, <1>3, <1>4, TwoStepIsFound
<1>6. found \in [1..m -> Int]
  BY <1>3, <1>5
<1>7. delta \in 1..m
  BY <1>2, <1>3, DeltaIsAQuery
<1>8. Headroom(c, L) = Max({found[b] : b \in 1..m}) - found[delta]
  <2>1. Headroom(c, L) = Max({AnchoredScore(c, L, b, 2) : b \in 1..m}) - AnchoredScore(c, L, delta, 2)
    BY <1>2, <1>4, HeadroomIsGain
  <2>2. {found[b] : b \in 1..m} = {AnchoredScore(c, L, b, 2) : b \in 1..m}
    <3>1. \A b \in 1..m : found[b] = AnchoredScore(c, L, b, 2)
      BY <1>5
    <3> QED
      BY <3>1, Zenon
  <2> QED
    BY <1>5, <1>7, <2>1, <2>2
<1>9. ASSUME NEW penalty \in Radii, NEW a \in SelectiveActions(c, L, penalty) \ {delta}
      PROVE  found[a] - found[delta] > penalty /\ \A b \in 1..m : found[b] <= found[a]
  <2>1. a = AnchoredAction(c, L) /\ Headroom(c, L) > penalty
    BY <1>9 DEF SelectiveActions
  <2>2. \A b \in 1..m : AnchoredScore(c, L, b, 2) <= AnchoredScore(c, L, a, 2)
    BY <1>2, <1>3, <2>1, RolloutIsBest
  <2>3. Max({AnchoredScore(c, L, b, 2) : b \in 1..m}) = AnchoredScore(c, L, a, 2)
    BY <1>2, <1>3, <2>1, RolloutIsBest
  <2>4. Headroom(c, L) = Max({AnchoredScore(c, L, b, 2) : b \in 1..m}) - AnchoredScore(c, L, delta, 2)
    BY <1>2, <1>4, HeadroomIsGain
  <2>5. a \in 1..m
    BY <1>2, <1>3, <2>1, RolloutIsBest
  <2> QED
    BY <1>5, <1>7, <2>1, <2>2, <2>3, <2>4, <2>5
<1>10. ASSUME c.horizon <= 2, NEW radius \in Radii, NEW a \in {SafeAction(c, L, 2, radius)} \ {delta}
       PROVE  found[a] - found[delta] > c.horizon * radius
  <2>1. PICK better : better = {b \in TopUnion(c, L, 2) \ {delta} :
                                  EnsScore(c, L, b) - EnsScore(c, L, delta) > c.horizon * radius}
    OBVIOUS
  <2>2. a = IF better = {} THEN delta ELSE BestById(c, better, LAMBDA b : EnsScore(c, L, b))
    BY <2>1 DEF SafeAction
  <2>3. better \in SUBSET (1..m)
    BY <1>3, <2>1 DEF TopUnion
  <2>4. better # {}
    BY <1>10, <2>2
  <2>5. PICK f : f = [b \in better |-> EnsScore(c, L, b)]
    OBVIOUS
  <2>6. a = Best(better, f, [b \in better |-> c.rank[b]])
    BY <2>2, <2>4, <2>5 DEF BestById, Best
  <2>7. f \in [better -> Int]
    BY <1>5, <1>10, <2>3, <2>5
  <2>8. a \in better
    BY <1>3, <2>3, <2>4, <2>6, <2>7, BestQuery
  <2>9. a \in 1..m /\ EnsScore(c, L, a) - EnsScore(c, L, delta) > c.horizon * radius
    BY <2>1, <2>3, <2>8
  <2> QED
    BY <1>5, <1>7, <1>10, <2>9
<1> QED
  BY <1>3, <1>8, <1>9, <1>10

-------------------------------------------------------------------------------
(* The round after a query.                                                  *)

\* Sets that a function matches are as large.
LEMMA MatchedSets ==
  ASSUME NEW X, NEW Y, IsFiniteSet(X), NEW f \in [X -> Y],
         \A s, t \in X : f[s] = f[t] => s = t, \A y \in Y : \E s \in X : f[s] = y
  PROVE  IsFiniteSet(Y) /\ Cardinality(Y) = Cardinality(X)
<1>1. f \in Bijection(X, Y)
  BY DEF Bijection, Injection, Surjection, IsInjective
<1> QED
  BY <1>1, FS_Bijection DEF ExistsBijection

\* A list of the numbers of a set in ascending order is the one of InOrder.
LEMMA OrderIsUnique ==
  ASSUME NEW S, S \in SUBSET Int, NEW n, n \in Nat, NEW f, f \in [1..n -> S],
         \A i, j \in 1..n : i < j => f[i] < f[j], \A x \in S : \E i \in 1..n : f[i] = x
  PROVE  InOrder(S) = f /\ Cardinality(S) = n /\ IsFiniteSet(S)
<1> DEFINE Below(x) == {y \in S : y < x}
<1>1. \A i, j \in 1..n : f[i] = f[j] => i = j
  <2> TAKE i, j \in 1..n
  <2>1. f[i] \in Int /\ f[j] \in Int
    OBVIOUS
  <2> QED
    BY <2>1
<1>2. IsFiniteSet(1..n) /\ Cardinality(1..n) = n
  BY FirstNumbers
<1>3. IsFiniteSet(S) /\ Cardinality(S) = n
  <2>1. PICK D : D = 1..n
    OBVIOUS
  <2>2. IsFiniteSet(D) /\ f \in [D -> S] /\ \A s, t \in D : f[s] = f[t] => s = t
    BY <1>1, <1>2, <2>1
  <2>3. \A x \in S : \E i \in D : f[i] = x
    BY <2>1
  <2>4. IsFiniteSet(S) /\ Cardinality(S) = Cardinality(D)
    BY <2>2, <2>3, MatchedSets
  <2> QED
    BY <1>2, <2>1, <2>4
<1>4. ASSUME NEW k \in 1..n
      PROVE  Cardinality(Below(f[k])) = k - 1
  <2>1. PICK l, D : l = k - 1 /\ D = 1..l /\ l \in Nat
    OBVIOUS
  <2>2. IsFiniteSet(D) /\ Cardinality(D) = l
    BY <2>1, FirstNumbers
  <2>3. PICK g : g = [i \in D |-> f[i]]
    OBVIOUS
  <2>4. \A i \in D : i \in 1..n /\ i < k
    BY <2>1
  <2>5. g \in [D -> Below(f[k])]
    BY <2>3, <2>4
  <2>6. \A s, t \in D : g[s] = g[t] => s = t
    BY <1>1, <2>3, <2>4
  <2>7. \A y \in Below(f[k]) : \E i \in D : g[i] = y
    <3> TAKE y \in Below(f[k])
    <3>1. PICK i \in 1..n : f[i] = y
      OBVIOUS
    <3>2. f[i] < f[k] /\ f[i] \in Int /\ f[k] \in Int
      BY <3>1
    <3>3. ~(k < i) /\ i # k
      BY <3>2
    <3>4. i \in D
      BY <2>1, <3>3
    <3> QED
      BY <2>3, <3>1, <3>4
  <2> HIDE DEF Below
  <2>8. Cardinality(Below(f[k])) = Cardinality(D)
    BY <2>2, <2>5, <2>6, <2>7, MatchedSets
  <2> QED
    BY <2>1, <2>2, <2>8
<1>5. ASSUME NEW k \in 1..n
      PROVE  InOrder(S)[k] = f[k]
  <2>1. InOrder(S)[k] = CHOOSE x \in S : Cardinality(Below(x)) = k - 1
    BY <1>3 DEF InOrder
  <2>2. \A x \in S : Cardinality(Below(x)) = k - 1 => x = f[k]
    <3> HIDE DEF Below
    <3> TAKE x \in S
    <3>1. PICK j \in 1..n : f[j] = x
      OBVIOUS
    <3>2. Cardinality(Below(x)) = j - 1
      BY <1>4, <3>1
    <3> QED
      BY <3>1, <3>2
  <2>3. f[k] \in S /\ Cardinality(Below(f[k])) = k - 1
    BY <1>4
  <2> HIDE DEF Below
  <2> QED
    BY <2>1, <2>2, <2>3
<1>6. InOrder(S) = [k \in 1..n |-> InOrder(S)[k]]
  <2>1. PICK g : g = InOrder(S)
    OBVIOUS
  <2>2. g = [k \in 1..n |-> CHOOSE x \in S : Cardinality(Below(x)) = k - 1]
    BY <1>3, <2>1 DEF InOrder
  <2> HIDE DEF Below
  <2>3. g = [k \in 1..n |-> g[k]]
    BY <2>2
  <2> QED
    BY <2>1, <2>3
<1> QED
  BY <1>3, <1>5, <1>6

\* The queries of a call but one, in order.
RestOf(m, a) == InOrder((1..m) \ {a})

LEMMA RestIs ==
  ASSUME NEW m \in Nat, NEW a \in 1..m
  PROVE  /\ m - 1 \in Nat /\ RestOf(m, a) \in [1..(m - 1) -> (1..m) \ {a}]
         /\ \A i, j \in 1..(m - 1) : i < j => RestOf(m, a)[i] < RestOf(m, a)[j]
         /\ \A i, j \in 1..(m - 1) : RestOf(m, a)[i] = RestOf(m, a)[j] => i = j
         /\ \A x \in (1..m) \ {a} : \E i \in 1..(m - 1) : RestOf(m, a)[i] = x
<1>1. PICK S, n, o : S = (1..m) \ {a} /\ n = m - 1 /\ o = InOrder(S)
  OBVIOUS
<1>3. IsFiniteSet(S) /\ Cardinality(S) = n /\ n \in Nat
  BY <1>1, RestFacts
<1>4. S \in SUBSET Int
  BY <1>1
<1>5. /\ o \in [1..n -> S] /\ \A i, j \in 1..n : i < j => o[i] < o[j]
      /\ \A x \in S : \E i \in 1..n : o[i] = x
  BY <1>1, <1>3, <1>4, InOrderFacts
<1>6. \A i, j \in 1..n : o[i] = o[j] => i = j
  <2> TAKE i, j \in 1..n
  <2>1. o[i] \in Int /\ o[j] \in Int
    BY <1>4, <1>5
  <2> QED
    BY <1>3, <1>5, <2>1
<1> QED
  BY <1>1, <1>3, <1>5, <1>6 DEF RestOf

\* A function of the queries of a call, but for the query a.
ButFor(m, a, f) == [k \in 1..(m - 1) |-> f[RestOf(m, a)[k]]]

\* One more entry adds one value.
LEMMA AppendedSet ==
  ASSUME NEW q, AnySeq(q), NEW x
  PROVE  ToSet(Append(q, x)) = ToSet(q) \union {x}
<1>1. PICK u : u = Append(q, x)
  OBVIOUS
<1>2. AnySeq(u) /\ Len(u) = Len(q) + 1 /\ Len(q) \in Nat /\ u[Len(q) + 1] = x
  BY <1>1, AppendFacts
<1>3. \A i \in 1..Len(q) : u[i] = q[i]
  BY <1>1, AppendFacts
<1>4. DOMAIN q = 1..Len(q) /\ DOMAIN u = 1..(Len(q) + 1)
  BY <1>2, LenProperties DEF AnySeq
<1>5. \A i \in 1..(Len(q) + 1) : i \in 1..Len(q) \/ i = Len(q) + 1
  BY <1>2
<1>6. Len(q) + 1 \in 1..(Len(q) + 1) /\ \A i \in 1..Len(q) : i \in 1..(Len(q) + 1)
  BY <1>2
<1>7. ToSet(u) = ToSet(q) \union {x}
  BY <1>2, <1>3, <1>4, <1>5, <1>6 DEF ToSet
<1> QED
  BY <1>1, <1>7

\* The history u has one more query than q, the query a of the round after q.
IsNext(s, q, w, m, a, u) ==
  /\ s \in Systems /\ IsHistory(q, s) /\ w \in s.worlds /\ Len(q) < s.budget
  /\ (DOMAIN s.xs) \ ToSet(q) # {} /\ Cardinality((DOMAIN s.xs) \ ToSet(q)) = m
  /\ a \in 1..m /\ u = Append(q, LeftAfter(s, q)[a])

\* After one more query those of the call but that one are left.
LEMMA LeftAfterOne ==
  ASSUME NEW s, NEW q, NEW w, NEW m, NEW a, NEW u, IsNext(s, q, w, m, a, u)
  PROVE  /\ IsHistory(u, s)
         /\ Cardinality((DOMAIN s.xs) \ ToSet(u)) = m - 1
         /\ LeftAfter(s, u) = ButFor(m, a, LeftAfter(s, q))
<1>0. /\ s \in Systems /\ IsHistory(q, s) /\ w \in s.worlds /\ Len(q) < s.budget
      /\ (DOMAIN s.xs) \ ToSet(q) # {} /\ Cardinality((DOMAIN s.xs) \ ToSet(q)) = m
      /\ a \in 1..m /\ u = Append(q, LeftAfter(s, q)[a])
  BY DEF IsNext
<1>1. PICK left, rest, o, n : /\ left = LeftAfter(s, q) /\ rest = (DOMAIN s.xs) \ ToSet(q)
                              /\ o = RestOf(m, a) /\ n = m - 1
  OBVIOUS
<1>2. /\ IsCall(CallAfter(s, q, w), m) /\ left \in [1..m -> rest]
      /\ \A i, j \in 1..m : i < j => left[i] < left[j]
  BY <1>0, <1>1, CallsAreCalls
<1>3. m \in Nat
  BY <1>2 DEF IsCall
<1>4. /\ DOMAIN s.xs = 1..Len(s.xs) /\ Len(s.xs) \in Nat
  BY <1>0, SystemShape
<1>5. rest \in SUBSET (1..Len(s.xs)) /\ rest \in SUBSET Int
  BY <1>1, <1>4
<1>6. \A x \in rest : \E k \in 1..m : left[k] = x
  <2>1. IsFiniteSet(rest)
    <3>1. IsFiniteSet(1..Len(s.xs))
      BY <1>4, FS_Interval
    <3> QED
      BY <1>5, <3>1, FS_Subset
  <2>2. left = InOrder(rest)
    BY <1>1 DEF LeftAfter
  <2> QED
    <3>1. Cardinality(rest) = m
      BY <1>0, <1>1
    <3> QED
      BY <1>5, <2>1, <2>2, <3>1, InOrderFacts
<1>7. \A i, j \in 1..m : left[i] = left[j] => i = j
  <2> TAKE i, j \in 1..m
  <2>1. left[i] \in Int /\ left[j] \in Int
    BY <1>2, <1>5
  <2>2. i < j \/ j < i \/ i = j
    BY <1>3
  <2> QED
    BY <1>2, <2>1, <2>2
<1>8. /\ n \in Nat /\ o \in [1..n -> (1..m) \ {a}] /\ \A i, j \in 1..n : i < j => o[i] < o[j]
      /\ \A x \in (1..m) \ {a} : \E i \in 1..n : o[i] = x
  <2>1. \A k \in Nat : \A b \in 1..k :
          /\ k - 1 \in Nat /\ RestOf(k, b) \in [1..(k - 1) -> (1..k) \ {b}]
          /\ \A i, j \in 1..(k - 1) : i < j => RestOf(k, b)[i] < RestOf(k, b)[j]
          /\ \A x \in (1..k) \ {b} : \E i \in 1..(k - 1) : RestOf(k, b)[i] = x
    BY <1>0, RestIs
  <2>2. /\ m - 1 \in Nat /\ RestOf(m, a) \in [1..(m - 1) -> (1..m) \ {a}]
        /\ \A i, j \in 1..(m - 1) : i < j => RestOf(m, a)[i] < RestOf(m, a)[j]
        /\ \A x \in (1..m) \ {a} : \E i \in 1..(m - 1) : RestOf(m, a)[i] = x
    BY <1>0, <1>3, <2>1
  <2>3. n = m - 1 /\ o = RestOf(m, a)
    BY <1>1
  <2> QED
    BY <2>2, <2>3
<1>9. /\ AnySeq(u) /\ Len(u) = Len(q) + 1 /\ Len(q) \in Nat
      /\ \A i \in 1..Len(q) : u[i] = q[i]
      /\ u[Len(q) + 1] = left[a]
  <2>1. AnySeq(q)
    BY <1>0 DEF IsHistory
  <2> QED
    BY <1>0, <1>1, <2>1, AppendFacts
<1>10. \A i \in 1..(Len(q) + 1) : i \in 1..Len(q) \/ i = Len(q) + 1
  BY <1>9
<1>11. IsHistory(u, s)
  BY <1>0, <1>2, <1>5, <1>9, <1>10 DEF IsHistory
<1>12. ToSet(u) = ToSet(q) \union {left[a]}
  BY <1>0, <1>1, AppendedSet DEF IsHistory
<1>13. PICK T : T = (DOMAIN s.xs) \ ToSet(u)
  OBVIOUS
<1>14. T = rest \ {left[a]}
  BY <1>1, <1>12, <1>13
<1>15. PICK f : f = [k \in 1..n |-> left[o[k]]]
  OBVIOUS
<1>16. f \in [1..n -> T]
  BY <1>0, <1>2, <1>7, <1>8, <1>14, <1>15
<1>17. \A i, j \in 1..n : i < j => f[i] < f[j]
  BY <1>2, <1>8, <1>15
<1>18. \A x \in T : \E i \in 1..n : f[i] = x
  <2> TAKE x \in T
  <2>1. PICK k \in 1..m : left[k] = x
    BY <1>6, <1>14
  <2>2. k \in (1..m) \ {a}
    BY <1>14, <2>1
  <2>3. PICK i \in 1..n : o[i] = k
    BY <1>8, <2>2
  <2> QED
    BY <1>15, <2>1, <2>3
<1>19. T \in SUBSET Int
  BY <1>5, <1>14
<1>20. InOrder(T) = f /\ Cardinality(T) = n
  <2>1. n \in Nat
    BY <1>8
  <2> QED
    BY <1>0, <2>1, <1>16, <1>17, <1>18, <1>19, OrderIsUnique
<1>21. LeftAfter(s, u) = f
  BY <1>13, <1>20 DEF LeftAfter
<1> QED
  BY <1>1, <1>11, <1>12, <1>13, <1>15, <1>20, <1>21 DEF ButFor

\* The same, to cite alone.
LEMMA NextLeft ==
  ASSUME NEW s, NEW q, NEW w, NEW m, NEW a, NEW u, IsNext(s, q, w, m, a, u)
  PROVE  LeftAfter(s, u) = ButFor(m, a, LeftAfter(s, q))
<1>1. /\ IsHistory(u, s)
      /\ Cardinality((DOMAIN s.xs) \ ToSet(u)) = m - 1
      /\ LeftAfter(s, u) = ButFor(m, a, LeftAfter(s, q))
  BY LeftAfterOne
<1> QED
  BY <1>1

\* t is a sample of m queries that has the answer e at a.
Answers(t, m, a, e) == t \in [1..m -> Int] /\ t[a] = e

\* The phases of the next round are those that the rollout makes references.
LEMMA NextPhasesAre ==
  ASSUME NEW s, NEW q, NEW w, NEW m, NEW a, NEW u, IsNext(s, q, w, m, a, u),
         NEW t, Answers(t, m, a, w[LeftAfter(s, q)[a]])
  PROVE  CausalPhases(s, u, w) = ActivePhases(CallAfter(s, q, w), t, {a})
<1>t. t \in [1..m -> Int] /\ t[a] = w[LeftAfter(s, q)[a]]
  BY DEF Answers
<1>0. /\ s \in Systems /\ IsHistory(q, s) /\ w \in s.worlds /\ Len(q) < s.budget
      /\ (DOMAIN s.xs) \ ToSet(q) # {} /\ Cardinality((DOMAIN s.xs) \ ToSet(q)) = m
      /\ a \in 1..m /\ u = Append(q, LeftAfter(s, q)[a])
  BY DEF IsNext
<1>1. PICK left, c, R, r, n : /\ left = LeftAfter(s, q) /\ c = CallAfter(s, q, w)
                              /\ R = s.references /\ r = Len(s.references) /\ n = Len(q)
  OBVIOUS
<1>2. /\ IsCall(c, m) /\ left \in [1..m -> (DOMAIN s.xs) \ ToSet(q)]
  BY <1>0, <1>1, CallsAreCalls
<1>3. /\ Len(s.xs) \in Nat /\ s.xs \in [1..Len(s.xs) -> Compositions] /\ w \in [1..Len(s.xs) -> Int]
      /\ r \in Nat /\ Complete(R, r) /\ DOMAIN s.xs = 1..Len(s.xs)
  BY <1>0, <1>1, SystemShape
<1>4. n \in Nat /\ q \in [1..n -> 1..Len(s.xs)]
  <2>1. Picks(q, Len(s.xs))
    BY <1>0 DEF IsHistory, Picks
  <2> QED
    BY <1>0, <1>1, <1>3, <2>1, PicksFacts
<1>5. IsHistory(u, s)
  BY LeftAfterOne, Zenon
<1>6. /\ Len(u) = n + 1 /\ \A i \in 1..n : u[i] = q[i]
      /\ u[n + 1] = left[a]
  <2>1. AnySeq(q)
    BY <1>0 DEF IsHistory
  <2> QED
    BY <1>0, <1>1, <2>1, AppendFacts
<1>7. u \in [1..(n + 1) -> 1..Len(s.xs)]
  <2>1. Picks(u, Len(s.xs))
    BY <1>5 DEF IsHistory, Picks
  <2> QED
    BY <1>0, <1>3, <1>6, <2>1, PicksFacts
<1>8. PICK p, v, xs, k : /\ p = Extended(R, xs, w, q) /\ v = Extended(R, xs, w, u)
                         /\ xs = s.xs /\ k = Len(s.xs)
  OBVIOUS
<1>9. IsExtended(p, R, r, xs, w, q, n)
  BY <1>0, <1>3, <1>4, <1>8, ExtendedFacts
<1>10. IsExtended(v, R, r, xs, w, u, n + 1)
  <2>1. PICK l \in Nat : l = n + 1
    BY <1>4
  <2>2. IsExtended(v, R, r, xs, w, u, l)
    BY <1>0, <1>3, <1>7, <1>8, <2>1, ExtendedFacts
  <2> QED
    BY <2>1, <2>2
<1>11. c.references = p /\ c.xs = [j \in DOMAIN left |-> xs[left[j]]] /\ CausalPhases(s, u, w) = v
  BY <1>1, <1>8 DEF CallAfter, CallWith, CausalPhases, Extended
<1>12. PICK b : b = InOrder({a})
  OBVIOUS
<1>13. b \in [1..1 -> 1..m] /\ b[1] = a
  <2>1. IsFiniteSet({a}) /\ Cardinality({a}) = 1
    BY FS_Singleton
  <2>2. a \in Int
    BY <1>0, <1>2 DEF IsCall
  <2>3. PICK only \in SUBSET Int : only = {a}
    BY <2>2
  <2>4. InOrder(only) \in [1..Cardinality(only) -> only]
    BY <1>0, <2>1, <2>3, InOrderFacts
  <2>5. b \in [1..1 -> {a}]
    BY <1>12, <2>1, <2>3, <2>4
  <2> QED
    BY <1>0, <2>5
<1>14. PICK A : A = ActivePhases(c, t, {a})
  OBVIOUS
<1>15. IsExtended(A, p, r + n, c.xs, t, b, 1)
  <2>1. PICK one \in Nat, l \in Nat : one = 1 /\ l = r + n
    BY <1>3, <1>4
  <2>2. Complete(p, l) /\ m \in Nat /\ c.xs \in [1..m -> Compositions]
    BY <1>2, <1>9, <2>1 DEF IsExtended, IsCall
  <2>3. IsExtended(Extended(p, c.xs, t, b), p, l, c.xs, t, b, one)
    BY <1>0, <1>t, <1>13, <2>1, <2>2, ExtendedFacts
  <2>4. A = Extended(p, c.xs, t, b)
    BY <1>11, <1>12, <1>14 DEF ActivePhases, Extended
  <2> QED
    BY <2>1, <2>3, <2>4
<1>16. PICK l \in Nat : l = r + n + 1
  BY <1>3, <1>4
<1>17. v \in [1..l -> PhaseRecord] /\ A \in [1..l -> PhaseRecord]
  <2>1. r + (n + 1) = l /\ (r + n) + 1 = l
    BY <1>3, <1>4, <1>16
  <2> QED
    BY <1>10, <1>15, <2>1 DEF IsExtended, Complete
<1>18. ASSUME NEW i \in 1..l
       PROVE  v[i] = A[i]
  <2>1. CASE i <= r
    <3>1. i \in 1..r /\ i \in 1..(r + n)
      BY <1>3, <1>4, <2>1
    <3> QED
      BY <1>9, <1>10, <1>15, <3>1 DEF IsExtended
  <2>2. CASE r < i /\ i <= r + n
    <3>1. PICK j \in 1..n : i = r + j
      BY <1>3, <1>4, <2>2
    <3>2. j \in 1..(n + 1) /\ i \in 1..(r + n)
      BY <1>3, <1>4, <3>1
    <3>3. v[i] = [x |-> xs[u[j]], e |-> w[u[j]]] /\ p[i] = [x |-> xs[q[j]], e |-> w[q[j]]] /\ A[i] = p[i]
      BY <1>9, <1>10, <1>15, <3>1, <3>2 DEF IsExtended
    <3> QED
      BY <1>6, <3>1, <3>3
  <2>3. CASE i = l
    <3>1. PICK j \in 1..(n + 1) : j = n + 1 /\ i = r + j
      <4>1. n + 1 \in 1..(n + 1) /\ i = r + (n + 1)
        BY <1>3, <1>4, <1>16, <2>3
      <4> QED
        BY <4>1
    <3>2. v[i] = [x |-> xs[u[j]], e |-> w[u[j]]]
      BY <1>10, <3>1 DEF IsExtended
    <3>3. PICK one \in 1..1 : one = 1 /\ i = (r + n) + one
      BY <1>3, <1>4, <1>16, <2>3
    <3>4. A[i] = [x |-> c.xs[b[one]], e |-> t[b[one]]]
      BY <1>15, <3>3 DEF IsExtended
    <3>5. c.xs[a] = xs[left[a]] /\ t[a] = w[left[a]]
      BY <1>0, <1>t, <1>1, <1>2, <1>11
    <3> QED
      BY <1>6, <1>13, <3>1, <3>2, <3>3, <3>4, <3>5
  <2> QED
    BY <1>3, <1>4, <1>16, <2>1, <2>2, <2>3
<1>19. v = A
  BY <1>17, <1>18
<1> QED
  BY <1>1, <1>11, <1>14, <1>19

\* The samples of the next round are those that agree with the answer, for the
\* queries that are left.
LEMMA NextSamplesAre ==
  ASSUME NEW s, NEW q, NEW w, NEW m, NEW a, NEW u, IsNext(s, q, w, m, a, u)
  PROVE  SamplesAfter(s, u, w)
           = {ButFor(m, a, t) : t \in {t \in SamplesAfter(s, q, w) : t[a] = w[LeftAfter(s, q)[a]]}}
<1>0. /\ s \in Systems /\ IsHistory(q, s) /\ w \in s.worlds /\ Len(q) < s.budget
      /\ (DOMAIN s.xs) \ ToSet(q) # {} /\ Cardinality((DOMAIN s.xs) \ ToSet(q)) = m
      /\ a \in 1..m /\ u = Append(q, LeftAfter(s, q)[a])
  BY DEF IsNext
<1>l. LeftAfter(s, u) = ButFor(m, a, LeftAfter(s, q))
  BY NextLeft
<1>1. PICK left, o, n, new : /\ left = LeftAfter(s, q) /\ o = RestOf(m, a) /\ n = m - 1
                             /\ new = LeftAfter(s, u)
  OBVIOUS
<1>2. IsCall(CallAfter(s, q, w), m) /\ left \in [1..m -> (DOMAIN s.xs) \ ToSet(q)]
  BY <1>0, <1>1, CallsAreCalls
<1>3. m \in Nat
  BY <1>2 DEF IsCall
<1>4. n \in Nat /\ o \in [1..n -> (1..m) \ {a}]
  BY <1>0, <1>1, <1>3, RestIs
<1>5. new = [k \in 1..n |-> left[o[k]]] /\ ToSet(u) = ToSet(q) \union {left[a]}
  <2>2. ToSet(u) = ToSet(q) \union {LeftAfter(s, q)[a]}
    BY <1>0, AppendedSet DEF IsHistory
  <2> QED
    BY <1>1, <1>l, <2>2 DEF ButFor
<1>6. ASSUME NEW z \in s.worlds
      PROVE  /\ VisibleAfter(s, u, z) = ButFor(m, a, VisibleAfter(s, q, z))
             /\ VisibleAfter(s, q, z)[a] = z[left[a]]
  <2>1. PICK v : v = VisibleAfter(s, q, z)
    OBVIOUS
  <2>2. v = [k \in 1..m |-> z[left[k]]]
    BY <1>1, <1>2, <2>1 DEF VisibleAfter
  <2>3. VisibleAfter(s, u, z) = [k \in 1..n |-> z[left[o[k]]]]
    <3>1. VisibleAfter(s, u, z) = [k \in DOMAIN new |-> z[new[k]]]
      BY <1>1 DEF VisibleAfter
    <3>2. DOMAIN new = 1..n /\ \A k \in 1..n : new[k] = left[o[k]]
      BY <1>5
    <3> QED
      BY <3>1, <3>2
  <2>4. ButFor(m, a, v) = [k \in 1..n |-> v[o[k]]]
    BY <1>1 DEF ButFor
  <2>5. \A k \in 1..n : v[o[k]] = z[left[o[k]]]
    BY <1>4, <2>2
  <2>6. v[a] = z[left[a]]
    BY <1>0, <2>2
  <2> QED
    BY <2>1, <2>3, <2>4, <2>5, <2>6
<1>7. PICK W, V : /\ W = {z \in s.worlds : \A k \in ToSet(q) : z[k] = w[k]}
                  /\ V = {z \in s.worlds : \A k \in ToSet(u) : z[k] = w[k]}
  OBVIOUS
<1>8. V = {z \in W : z[left[a]] = w[left[a]]}
  BY <1>5, <1>7
<1>9. /\ SamplesAfter(s, q, w) = {VisibleAfter(s, q, z) : z \in W}
      /\ SamplesAfter(s, u, w) = {VisibleAfter(s, u, z) : z \in V}
  BY <1>7 DEF SamplesAfter
<1>10. \A z \in W : z \in s.worlds
  BY <1>7
<1>11. PICK S : S = {t \in SamplesAfter(s, q, w) : t[a] = w[left[a]]}
  OBVIOUS
<1>12. ASSUME NEW y \in SamplesAfter(s, u, w)
       PROVE  \E t \in S : y = ButFor(m, a, t)
  <2>1. PICK z \in V : y = VisibleAfter(s, u, z)
    BY <1>9
  <2>2. PICK t : t = VisibleAfter(s, q, z)
    OBVIOUS
  <2>3. z \in W /\ z \in s.worlds /\ z[left[a]] = w[left[a]]
    BY <1>8, <1>10
  <2>4. t \in S
    BY <1>6, <1>9, <1>11, <2>2, <2>3
  <2>5. y = ButFor(m, a, t)
    BY <1>6, <2>1, <2>2, <2>3
  <2> QED
    BY <2>4, <2>5
<1>13. ASSUME NEW t \in S
       PROVE  ButFor(m, a, t) \in SamplesAfter(s, u, w)
  <2>1. PICK z \in W : t = VisibleAfter(s, q, z)
    BY <1>9, <1>11
  <2>2. z \in s.worlds /\ z[left[a]] = w[left[a]]
    BY <1>6, <1>10, <1>11, <2>1
  <2>3. z \in V
    BY <1>8, <2>2
  <2> QED
    BY <1>6, <1>9, <2>1, <2>2, <2>3
<1>14. SamplesAfter(s, u, w) = {ButFor(m, a, t) : t \in S}
  BY <1>12, <1>13
<1> QED
  BY <1>1, <1>11, <1>14

\* The queries of the next round are the others of this one, in order.
LEMMA NextCallIs ==
  ASSUME NEW s, NEW q, NEW w, NEW m, NEW a, NEW u, IsNext(s, q, w, m, a, u)
  PROVE  /\ CallAfter(s, u, w).xs = ButFor(m, a, CallAfter(s, q, w).xs)
         /\ CallAfter(s, u, w).rank = ButFor(m, a, CallAfter(s, q, w).rank)
         /\ CallAfter(s, u, w).references = CausalPhases(s, u, w)
<1>0. /\ s \in Systems /\ IsHistory(q, s) /\ w \in s.worlds /\ Len(q) < s.budget
      /\ (DOMAIN s.xs) \ ToSet(q) # {} /\ Cardinality((DOMAIN s.xs) \ ToSet(q)) = m
      /\ a \in 1..m /\ u = Append(q, LeftAfter(s, q)[a])
  BY DEF IsNext
<1>l. LeftAfter(s, u) = ButFor(m, a, LeftAfter(s, q))
  BY NextLeft
<1>1. PICK left, o, n, new, c, next : /\ left = LeftAfter(s, q) /\ o = RestOf(m, a) /\ n = m - 1
                                      /\ new = LeftAfter(s, u) /\ c = CallAfter(s, q, w)
                                      /\ next = CallAfter(s, u, w)
  OBVIOUS
<1>2. IsCall(c, m) /\ left \in [1..m -> (DOMAIN s.xs) \ ToSet(q)]
  BY <1>0, <1>1, CallsAreCalls
<1>3. m \in Nat
  BY <1>2 DEF IsCall
<1>4. n \in Nat /\ o \in [1..n -> (1..m) \ {a}]
  BY <1>0, <1>1, <1>3, RestIs
<1>5. new = [k \in 1..n |-> left[o[k]]]
  BY <1>1, <1>l DEF ButFor
<1>6. /\ c.xs = [k \in DOMAIN left |-> s.xs[left[k]]] /\ c.rank = [k \in DOMAIN left |-> s.rank[left[k]]]
      /\ next.xs = [k \in DOMAIN new |-> s.xs[new[k]]] /\ next.rank = [k \in DOMAIN new |-> s.rank[new[k]]]
      /\ next.references = CausalPhases(s, u, w)
  BY <1>1 DEF CallAfter, CallWith
<1>7. DOMAIN new = 1..n /\ DOMAIN left = 1..m /\ \A k \in 1..n : new[k] = left[o[k]] /\ o[k] \in 1..m
  BY <1>2, <1>4, <1>5
<1>8. next.xs = [k \in 1..n |-> c.xs[o[k]]]
  BY <1>6, <1>7
<1>9. next.rank = [k \in 1..n |-> c.rank[o[k]]]
  BY <1>6, <1>7
<1> QED
  BY <1>1, <1>6, <1>8, <1>9 DEF ButFor

\* The members among the queries that the list o has.
LabelsFrom(c, t, A, o) ==
  {o[i] : i \in Membership([i \in DOMAIN o |-> c.xs[o[i]]], [i \in DOMAIN o |-> t[o[i]]],
                           ActivePhases(c, t, A))}

\* The rollout takes them from the queries that are left.
LEMMA LabelsAre ==
  ASSUME NEW c, NEW t, NEW A
  PROVE  LabelsAfter(c, t, A) = LabelsFrom(c, t, A, InOrder(Queries(c) \ A))
BY DEF LabelsAfter, LabelsFrom

\* The votes of the next round are those of the conditioned posterior.
LEMMA NextVotesAre ==
  ASSUME NEW s, NEW q, NEW w, NEW m, NEW a, NEW u, IsNext(s, q, w, m, a, u),
         NEW c, c = CallAfter(s, q, w), NEW L, L = Labelled(c, SamplesAfter(s, q, w)),
         NEW next, next = CallAfter(s, u, w), NEW M, M = Labelled(next, SamplesAfter(s, u, w)),
         NEW k \in 1..(m - 1)
  PROVE  Votes(M, k) = Votes(ReducedAfter(c, L, a, w[LeftAfter(s, q)[a]]), RestOf(m, a)[k])
<1>0. /\ s \in Systems /\ IsHistory(q, s) /\ w \in s.worlds /\ Len(q) < s.budget
      /\ (DOMAIN s.xs) \ ToSet(q) # {} /\ Cardinality((DOMAIN s.xs) \ ToSet(q)) = m
      /\ a \in 1..m /\ u = Append(q, LeftAfter(s, q)[a])
  BY DEF IsNext
<1>p. ASSUME NEW v, Answers(v, m, a, w[LeftAfter(s, q)[a]])
      PROVE  CausalPhases(s, u, w) = ActivePhases(CallAfter(s, q, w), v, {a})
  BY <1>p, NextPhasesAre
<1>a. a \in 1..m
  BY <1>0
<1>1. PICK left, o, n, e, R, S : /\ left = LeftAfter(s, q) /\ o = RestOf(m, a) /\ n = m - 1
                                 /\ e = w[left[a]] /\ R = ReducedAfter(c, L, a, e)
                                 /\ S = {t \in SamplesAfter(s, q, w) : t[a] = e}
  OBVIOUS
<1>2. IsCall(c, m)
  BY <1>0, CallsAreCalls
<1>3. m \in Nat /\ Queries(c) = 1..m
  BY <1>2, CallFits
<1>4. /\ n \in Nat /\ o \in [1..n -> (1..m) \ {a}]
      /\ \A i, j \in 1..n : o[i] = o[j] => i = j
      /\ \A x \in (1..m) \ {a} : \E i \in 1..n : o[i] = x
  <2>1. m - 1 \in Nat /\ RestOf(m, a) \in [1..(m - 1) -> (1..m) \ {a}]
    BY <1>a, <1>3, RestIs
  <2>2. \A i, j \in 1..(m - 1) : RestOf(m, a)[i] = RestOf(m, a)[j] => i = j
    BY <1>a, <1>3, RestIs
  <2>3. \A x \in (1..m) \ {a} : \E i \in 1..(m - 1) : RestOf(m, a)[i] = x
    BY <1>a, <1>3, RestIs
  <2> QED
    BY <1>1, <2>1, <2>2, <2>3
<1>5. \A t \in S : t \in [1..m -> Int] /\ t[a] = e
  <2>1. \A t \in SamplesAfter(s, q, w) : t \in [1..m -> Int]
    BY <1>0, RoundsAreRounds
  <2> QED
    BY <1>1, <2>1
<1>6. DOMAIN L = SamplesAfter(s, q, w) /\ DOMAIN R = S
  <2>1. DOMAIN L = SamplesAfter(s, q, w)
    BY DEF Labelled
  <2> QED
    BY <1>1, <2>1 DEF ReducedAfter
<1>7. DOMAIN M = {ButFor(m, a, t) : t \in S}
  <2>1. DOMAIN M = SamplesAfter(s, u, w)
    BY DEF Labelled
  <2>2. SamplesAfter(s, u, w)
          = {ButFor(m, a, t) : t \in {t \in SamplesAfter(s, q, w) : t[a] = w[LeftAfter(s, q)[a]]}}
    BY NextSamplesAre
  <2> QED
    BY <1>1, <2>1, <2>2
<1>8. \A t \in S : ButFor(m, a, t) = [i \in 1..n |-> t[o[i]]]
  BY <1>1 DEF ButFor
<1>9. ASSUME NEW t \in S
      PROVE  k \in M[ButFor(m, a, t)] <=> o[k] \in R[t]
  <2>1. PICK y, p, xs : y = ButFor(m, a, t) /\ p = CausalPhases(s, u, w) /\ xs = next.xs
    OBVIOUS
  <2>2. M[y] = Membership(next.xs, y, next.references)
    BY <1>7, <2>1 DEF Labelled
  <2>3. next.xs = [i \in 1..n |-> c.xs[o[i]]] /\ next.references = p
    <3>1. /\ CallAfter(s, u, w).xs = ButFor(m, a, CallAfter(s, q, w).xs)
          /\ CallAfter(s, u, w).references = CausalPhases(s, u, w)
      BY NextCallIs
    <3> QED
      BY <1>1, <2>1, <3>1 DEF ButFor
  <2>4. p = ActivePhases(c, t, {a})
    <3>1. Answers(t, m, a, w[LeftAfter(s, q)[a]])
      BY <1>1, <1>5 DEF Answers
    <3>2. CausalPhases(s, u, w) = ActivePhases(CallAfter(s, q, w), t, {a})
      BY <3>1, <1>p
    <3> QED
      BY <2>1, <3>2
  <2>5. R[t] = {o[i] : i \in Membership(xs, y, p)}
    <3>1. R[t] = LabelsAfter(c, t, {a})
      BY <1>1, <1>6 DEF ReducedAfter
    <3>2. o = InOrder(Queries(c) \ {a}) /\ DOMAIN o = 1..n
      BY <1>1, <1>3, <1>4 DEF RestOf
    <3>3. xs = [i \in DOMAIN o |-> c.xs[o[i]]] /\ y = [i \in DOMAIN o |-> t[o[i]]]
      BY <1>8, <2>1, <2>3, <3>2
    <3>5. LabelsAfter(c, t, {a}) = LabelsFrom(c, t, {a}, o)
      BY <3>2, LabelsAre
    <3> QED
      BY <2>1, <2>4, <3>1, <3>3, <3>5 DEF LabelsFrom
  <2>6. Membership(xs, y, p) \subseteq 1..n
    BY <1>1, <2>1, <2>3 DEF Membership
  <2>7. k \in 1..n
    BY <1>1
  <2>8. k \in Membership(xs, y, p) <=> o[k] \in R[t]
    BY <1>4, <2>5, <2>6, <2>7
  <2> QED
    BY <2>1, <2>2, <2>3, <2>8
<1>10. PICK X, Y, f : /\ X = {t \in S : o[k] \in R[t]} /\ Y = {y \in DOMAIN M : k \in M[y]}
                      /\ f = [t \in X |-> ButFor(m, a, t)]
  OBVIOUS
<1>11. f \in [X -> Y]
  BY <1>7, <1>9, <1>10
<1>12. \A y \in Y : \E t \in X : f[t] = y
  BY <1>7, <1>9, <1>10
<1>13. \A t, v \in X : f[t] = f[v] => t = v
  <2> TAKE t, v \in X
  <2> HAVE f[t] = f[v]
  <2>1. t \in [1..m -> Int] /\ v \in [1..m -> Int] /\ t[a] = v[a]
    BY <1>5, <1>10
  <2>2. \A i \in 1..n : t[o[i]] = v[o[i]]
    <3>1. [i \in 1..n |-> t[o[i]]] = [i \in 1..n |-> v[o[i]]]
      BY <1>8, <1>10
    <3> QED
      BY <3>1
  <2>3. \A x \in 1..m : t[x] = v[x]
    <3> TAKE x \in 1..m
    <3>1. CASE x = a
      BY <2>1, <3>1
    <3>2. CASE x # a
      <4>1. PICK i \in 1..n : o[i] = x
        BY <1>4, <3>2
      <4> QED
        BY <2>2, <4>1
    <3> QED
      BY <3>1, <3>2
  <2>4. t = [x \in 1..m |-> t[x]] /\ v = [x \in 1..m |-> v[x]]
    BY <2>1
  <2> QED
    BY <2>3, <2>4
<1>14. IsFiniteSet(X)
  <2>1. IsFiniteSet(SamplesAfter(s, q, w))
    BY <1>0, SamplesFacts
  <2>2. X \subseteq SamplesAfter(s, q, w)
    BY <1>1, <1>10
  <2> QED
    BY <2>1, <2>2, FS_Subset
<1>15. Cardinality(Y) = Cardinality(X)
  BY <1>11, <1>12, <1>13, <1>14, MatchedSets
<1>16. Votes(M, k) = Cardinality(Y) /\ Votes(R, o[k]) = Cardinality(X)
  BY <1>6, <1>10 DEF Votes
<1> QED
  BY <1>1, <1>15, <1>16

\* The list o of the members of A has at D what they have.
IsListOf(D, o, f, g, A, F, G) ==
  /\ IsFiniteSet(D) /\ D # {} /\ o \in [D -> A] /\ \A b \in A : \E k \in D : o[k] = b
  /\ F \in [A -> Int] /\ G \in [A -> Int] /\ \A b, d \in A : G[b] = G[d] => b = d
  /\ f \in [D -> Int] /\ g \in [D -> Int] /\ \A k \in D : f[k] = F[o[k]] /\ g[k] = G[o[k]]

\* It has its best where A has it.
LEMMA BestOfList ==
  ASSUME NEW D, NEW o, NEW f, NEW g, NEW A, NEW F, NEW G, IsListOf(D, o, f, g, A, F, G)
  PROVE  Best(D, f, g) \in D /\ o[Best(D, f, g)] = Best(A, F, G)
<1>0. /\ IsFiniteSet(D) /\ D # {} /\ o \in [D -> A] /\ \A b \in A : \E k \in D : o[k] = b
      /\ F \in [A -> Int] /\ G \in [A -> Int] /\ \A b, d \in A : G[b] = G[d] => b = d
      /\ \A k \in D : f[k] = F[o[k]] /\ g[k] = G[o[k]]
  BY DEF IsListOf
<1>1. f \in [D -> Int] /\ g \in [D -> Int]
  BY DEF IsListOf
<1>2. PICK z : z = Best(D, f, g)
  OBVIOUS
<1>3. z \in D /\ \A k \in D : f[z] > f[k] \/ (f[z] = f[k] /\ g[z] <= g[k])
  BY <1>0, <1>1, <1>2, BestIs
<1>4. PICK y : y = o[z]
  OBVIOUS
<1>5. y \in A /\ \A b \in A : F[y] > F[b] \/ (F[y] = F[b] /\ G[y] <= G[b])
  <2>1. y \in A /\ F[y] = f[z] /\ G[y] = g[z]
    BY <1>0, <1>3, <1>4
  <2>2. ASSUME NEW b \in A
        PROVE  F[y] > F[b] \/ (F[y] = F[b] /\ G[y] <= G[b])
    <3>1. PICK k \in D : o[k] = b
      BY <1>0
    <3>2. F[b] = f[k] /\ G[b] = g[k]
      BY <1>0, <3>1
    <3> QED
      BY <1>3, <2>1, <3>2
  <2> QED
    BY <2>1, <2>2
<1>6. ASSUME NEW x \in A, \A b \in A : F[x] > F[b] \/ (F[x] = F[b] /\ G[x] <= G[b])
      PROVE  x = y
  <2>1. F[x] > F[y] \/ (F[x] = F[y] /\ G[x] <= G[y])
    BY <1>5, <1>6
  <2>2. F[y] > F[x] \/ (F[y] = F[x] /\ G[y] <= G[x])
    BY <1>5, <1>6
  <2>3. F[x] \in Int /\ F[y] \in Int /\ G[x] \in Int /\ G[y] \in Int
    BY <1>0, <1>5, <1>6
  <2> QED
    BY <1>0, <1>5, <1>6, <2>1, <2>2, <2>3
<1>7. Best(A, F, G) = y
  BY <1>5, <1>6 DEF Best
<1> QED
  BY <1>2, <1>3, <1>4, <1>7

\* What Delta-Hull selects in the next round is what the rollout continued with.
LEMMA NextDeltaIs ==
  ASSUME NEW s, NEW q, NEW w, NEW m, NEW a, NEW u, IsNext(s, q, w, m, a, u), m > 1,
         NEW c, c = CallAfter(s, q, w), NEW L, L = Labelled(c, SamplesAfter(s, q, w)),
         NEW next, next = CallAfter(s, u, w), NEW M, M = Labelled(next, SamplesAfter(s, u, w))
  PROVE  LeftAfter(s, u)[DeltaAction(next, M)] = LeftAfter(s, q)[NextGiven(c, L, a, w[LeftAfter(s, q)[a]])]
<1>0. /\ s \in Systems /\ IsHistory(q, s) /\ w \in s.worlds /\ Len(q) < s.budget
      /\ (DOMAIN s.xs) \ ToSet(q) # {} /\ Cardinality((DOMAIN s.xs) \ ToSet(q)) = m
      /\ a \in 1..m /\ u = Append(q, LeftAfter(s, q)[a])
  BY DEF IsNext
<1>l. LeftAfter(s, u) = ButFor(m, a, LeftAfter(s, q))
  BY NextLeft
<1>h. /\ IsHistory(u, s)
      /\ Cardinality((DOMAIN s.xs) \ ToSet(u)) = m - 1
      /\ LeftAfter(s, u) = ButFor(m, a, LeftAfter(s, q))
  BY LeftAfterOne
<1>v. ASSUME NEW k \in 1..(m - 1)
      PROVE  Votes(M, k) = Votes(ReducedAfter(c, L, a, w[LeftAfter(s, q)[a]]), RestOf(m, a)[k])
  BY NextVotesAre
<1>c. next.rank = ButFor(m, a, c.rank)
  <2>1. /\ CallAfter(s, u, w).xs = ButFor(m, a, CallAfter(s, q, w).xs)
        /\ CallAfter(s, u, w).rank = ButFor(m, a, CallAfter(s, q, w).rank)
        /\ CallAfter(s, u, w).references = CausalPhases(s, u, w)
    BY NextCallIs
  <2> QED
    BY <2>1
<1>1. PICK left, o, n, e, R, D, A : /\ left = LeftAfter(s, q) /\ o = RestOf(m, a) /\ n = m - 1
                                    /\ e = w[left[a]] /\ R = ReducedAfter(c, L, a, e)
                                    /\ D = 1..n /\ A = (1..m) \ {a}
  OBVIOUS
<1>a. a \in 1..m
  BY <1>0
<1>2. IsCall(c, m)
  BY <1>0, CallsAreCalls
<1>3. m \in Nat /\ Queries(c) = 1..m /\ c.rank \in [1..m -> Int]
  BY <1>2, CallFits DEF IsCall
<1>4. n \in Nat /\ o \in [D -> A] /\ \A b \in A : \E k \in D : o[k] = b
  <2>1. \A k \in Nat : \A b \in 1..k :
          /\ k - 1 \in Nat /\ RestOf(k, b) \in [1..(k - 1) -> (1..k) \ {b}]
          /\ \A x \in (1..k) \ {b} : \E i \in 1..(k - 1) : RestOf(k, b)[i] = x
    BY RestIs
  <2>2. /\ m - 1 \in Nat /\ RestOf(m, a) \in [1..(m - 1) -> (1..m) \ {a}]
        /\ \A x \in (1..m) \ {a} : \E i \in 1..(m - 1) : RestOf(m, a)[i] = x
    BY <1>a, <1>3, <2>1
  <2> QED
    BY <1>1, <2>2
<1>5. IsFiniteSet(D) /\ D # {}
  <2>1. IsFiniteSet(D)
    BY <1>1, <1>4, FirstNumbers
  <2>2. 1 \in D
    BY <1>1, <1>3
  <2> QED
    BY <2>1, <2>2
<1>6. IsFiniteSet(DOMAIN R)
  <2>1. IsFiniteSet(SamplesAfter(s, q, w))
    BY <1>0, SamplesFacts
  <2>2. DOMAIN R \subseteq SamplesAfter(s, q, w)
    BY <1>1 DEF ReducedAfter, Labelled
  <2> QED
    BY <2>1, <2>2, FS_Subset
<1>7. PICK F, G, f, g : /\ F = [b \in A |-> Votes(R, b)] /\ G = [b \in A |-> c.rank[b]]
                        /\ f = [k \in D |-> Votes(M, k)] /\ g = [k \in D |-> next.rank[k]]
  OBVIOUS
<1>8. F \in [A -> Int]
  <2>1. \A b \in A : Votes(R, b) \in Nat
    BY <1>6, VotesAreNat
  <2> QED
    BY <1>7, <2>1
<1>9. G \in [A -> Int] /\ \A b, d \in A : G[b] = G[d] => b = d
  <2>1. \A i, j \in 1..m : c.rank[i] = c.rank[j] => i = j
    BY <1>0, RanksAreDifferent
  <2> QED
    BY <1>1, <1>3, <1>7, <2>1
<1>10. f = [k \in D |-> F[o[k]]]
  <2>1. \A k \in D : Votes(M, k) = Votes(R, o[k])
    BY <1>v, <1>1
  <2> QED
    BY <1>4, <1>7, <2>1
<1>11. next.rank = [k \in D |-> c.rank[o[k]]]
  BY <1>c, <1>1 DEF ButFor
<1>12. g = [k \in D |-> G[o[k]]]
  BY <1>4, <1>7, <1>11
<1>13. Best(D, f, g) \in D /\ o[Best(D, f, g)] = Best(A, F, G)
  <2>1. f \in [D -> Int] /\ g \in [D -> Int] /\ \A k \in D : f[k] = F[o[k]] /\ g[k] = G[o[k]]
    BY <1>4, <1>8, <1>9, <1>10, <1>12
  <2>2. IsListOf(D, o, f, g, A, F, G)
    BY <1>4, <1>5, <1>8, <1>9, <2>1 DEF IsListOf
  <2> QED
    BY <2>2, BestOfList
<1>14. Queries(next) = D
  <2>1. /\ CallAfter(s, u, w).xs = ButFor(m, a, CallAfter(s, q, w).xs)
        /\ CallAfter(s, u, w).rank = ButFor(m, a, CallAfter(s, q, w).rank)
        /\ CallAfter(s, u, w).references = CausalPhases(s, u, w)
    BY NextCallIs
  <2>2. next.xs = [k \in 1..(m - 1) |-> CallAfter(s, q, w).xs[RestOf(m, a)[k]]]
    BY <2>1 DEF ButFor
  <2>3. next.xs \in [1..n -> Compositions] /\ n \in Nat
    <3>1. c.xs \in [1..m -> Compositions]
      BY <1>2 DEF IsCall
    <3> QED
      BY <1>1, <1>4, <2>2, <3>1
  <2>4. Len(next.xs) = n
    BY <2>3, IntervalIsSeq
  <2> QED
    BY <1>1, <2>4 DEF Queries
<1>15. DeltaAction(next, M) = Best(D, f, g)
  <2>1. DeltaAction(next, M) = BestById(next, D, LAMBDA k : Votes(M, k))
    BY <1>14 DEF DeltaAction
  <2> QED
    BY <1>7, <2>1 DEF BestById, Best
<1>16. NextGiven(c, L, a, e) = Best(A, F, G)
  BY <1>1, <1>3, <1>7 DEF NextGiven
<1>17. LeftAfter(s, u) = [k \in D |-> left[o[k]]]
  BY <1>l, <1>1 DEF ButFor
<1> QED
  BY <1>1, <1>13, <1>15, <1>16, <1>17

-------------------------------------------------------------------------------
(* The loop follows the rollout.                                             *)

\* Worlds that agree on the answers so far lead to one call and one posterior.
LEMMA WorldsAgree ==
  ASSUME NEW s, NEW q, IsHistory(q, s), NEW w, NEW v, \A k \in ToSet(q) : w[k] = v[k]
  PROVE  CallAfter(s, q, w) = CallAfter(s, q, v) /\ SamplesAfter(s, q, w) = SamplesAfter(s, q, v)
<1>1. \A k \in DOMAIN q : w[q[k]] = v[q[k]]
  BY DEF ToSet
<1>2. [k \in DOMAIN q |-> [x |-> s.xs[q[k]], e |-> w[q[k]]]] = [k \in DOMAIN q |-> [x |-> s.xs[q[k]], e |-> v[q[k]]]]
  BY <1>1
<1>3. CausalPhases(s, q, w) = CausalPhases(s, q, v)
  BY <1>2 DEF CausalPhases
<1>4. CallAfter(s, q, w) = CallAfter(s, q, v)
  BY <1>3 DEF CallAfter
<1>5. {z \in s.worlds : \A k \in ToSet(q) : z[k] = w[k]} = {z \in s.worlds : \A k \in ToSet(q) : z[k] = v[k]}
  OBVIOUS
<1>6. SamplesAfter(s, q, w) = SamplesAfter(s, q, v)
  BY <1>5, Zenon DEF SamplesAfter
<1> QED
  BY <1>4, <1>6

\* The rollout of the next two queries is followed by the loop.
LEMMA RolloutFollowed ==
  ASSUME CampaignInvariant
  PROVE  RolloutIsFollowed
<1> SUFFICES ASSUME CanPay, system.supported, NEW c, c = Call, NEW w, w \in PossibleWorlds,
                    NEW L, L = Labelled(c, Samples), NEW a, a \in Queries(c)
             PROVE  {Left[b] : b \in AnchoredSelection(c, L, VisibleAfter(system, revealed, w), a, 2)}
                      = {Left[a]} \union (IF c.horizon = 1 THEN {} ELSE {DeltaAfter(a, w)})
  BY DEF RolloutIsFollowed
<1>1. /\ system \in Systems /\ IsHistory(revealed, system) /\ Len(revealed) < system.budget
      /\ truth \in system.worlds /\ (DOMAIN system.xs) \ ToSet(revealed) # {}
  BY DEF CampaignInvariant, GateInvariant, CanPay, Remaining
<1>2. w \in system.worlds /\ \A k \in ToSet(revealed) : w[k] = truth[k]
  BY DEF PossibleWorlds
<1>3. CallAfter(system, revealed, w) = Call /\ SamplesAfter(system, revealed, w) = Samples
  BY <1>1, <1>2, WorldsAgree DEF Call, Samples
<1>4. PICK m : m = Cardinality((DOMAIN system.xs) \ ToSet(revealed))
  OBVIOUS
<1>5. /\ IsCall(c, m) /\ Left \in [1..m -> (DOMAIN system.xs) \ ToSet(revealed)]
  <2>1. IsCall(CallAfter(system, revealed, w), m)
    BY <1>1, <1>2, <1>4, CallsAreCalls
  <2>2. LeftAfter(system, revealed) \in [1..m -> (DOMAIN system.xs) \ ToSet(revealed)]
    BY <1>1, <1>2, <1>4, CallsAreCalls
  <2> QED
    BY <1>3, <2>1, <2>2 DEF Left
<1>6. c.horizon \in 1..m
  <2>1. PICK k : \E r : IsRound(CallAfter(system, revealed, w), k, r) /\ k = m
    BY <1>1, <1>2, <1>4, RoundsAreRounds
  <2> QED
    BY <1>3, <2>1 DEF IsRound
<1>7. m \in Nat /\ Queries(c) = 1..m /\ a \in 1..m
  BY <1>5, CallFits
<1>8. PICK t : t = VisibleAfter(system, revealed, w)
  OBVIOUS
<1>9. t[a] = w[Left[a]]
  BY <1>5, <1>7, <1>8 DEF VisibleAfter, Left
<1>10. CASE c.horizon = 1
  <2>1. AnchoredSelection(c, L, t, a, 2) = {a}
    BY <1>10, AnchoredStops
  <2> QED
    BY <1>8, <1>10, <2>1
<1>11. CASE c.horizon # 1
  <2>1. c.horizon \in Nat \ {0} /\ m > 1
    BY <1>6, <1>7, <1>11
  <2>2. AnchoredSelection(c, L, t, a, 2) = {a} \union AnchoredStep(c, L, t, {a})
    BY <1>11, <2>1, AnchoredSelectionIs
  <2>3. AnchoredStep(c, L, t, {a}) = {AnchoredNext(c, L, t, {a})}
    <3>1. {a} # Queries(c)
      <4>1. 1 \in Queries(c) /\ 2 \in Queries(c)
        BY <1>7, <2>1
      <4> QED
        BY <4>1
    <3> QED
      BY <3>1 DEF AnchoredStep
  <2>4. AnchoredNext(c, L, t, {a}) = NextGiven(c, L, a, t[a])
    BY AnchoredNextIs
  <2>5. PICK u, next, M : /\ u = Append(revealed, Left[a]) /\ next = CallAfter(system, u, w)
                          /\ M = Labelled(next, SamplesAfter(system, u, w))
    OBVIOUS
  <2>6. IsNext(system, revealed, w, m, a, u)
    BY <1>1, <1>2, <1>4, <1>7, <2>5 DEF IsNext, Left
  <2>7. c = CallAfter(system, revealed, w) /\ L = Labelled(c, SamplesAfter(system, revealed, w))
    BY <1>3
  <2>8. LeftAfter(system, u)[DeltaAction(next, M)]
          = LeftAfter(system, revealed)[NextGiven(c, L, a, w[LeftAfter(system, revealed)[a]])]
    BY <2>1, <2>5, <2>6, <2>7, NextDeltaIs
  <2>9. DeltaAfter(a, w) = Left[NextGiven(c, L, a, t[a])]
    BY <1>9, <2>5, <2>8 DEF DeltaAfter, Left
  <2>10. AnchoredSelection(c, L, t, a, 2) = {a, NextGiven(c, L, a, t[a])}
    BY <2>2, <2>3, <2>4
  <2>11. {Left[b] : b \in AnchoredSelection(c, L, t, a, 2)} = {Left[a], DeltaAfter(a, w)}
    BY <2>9, <2>10
  <2> QED
    BY <1>8, <1>11, <2>11
<1> QED
  BY <1>10, <1>11

\* In every round of every campaign the rollout that judges a replacement of
\* Delta-Hull is the campaign that follows it: in each world that is possible it
\* takes the query and then the one that Delta-Hull selects in the next round, on
\* the hull, the samples and the order of that round.  Where compositions differ,
\* the headroom of the selective gate is the most that a query gains in it, what
\* replaces Delta-Hull gains that much and more than the penalty, and what the
\* safe gate prefers with two queries left gains more than the radius for each.
THEOREM ReplacementsAlwaysPay == GateSpec => []ReplacementsPay
<1>1. CampaignInvariant => ReplacementsPay
  BY RolloutFollowed, GatesPay DEF ReplacementsPay
<1> QED
  BY <1>1, CampaignInvariantHolds, PTL

================================================================================

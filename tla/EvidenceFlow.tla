------------------------------ MODULE EvidenceFlow ------------------------------
(***************************************************************************)
(* How an outcome becomes evidence: matched structures calibrate directed  *)
(* transports between protocols (protocols.py), cards enter an archive     *)
(* (cards.py, identity.py), each consumer of the archive resolves their    *)
(* protocols anew (activation.py, residual.py, residual_posterior.py,      *)
(* sufficient_state.py), and a screening decision is taken at a calibrated *)
(* bound (risk.py).                                                        *)
(*                                                                         *)
(* Energies are integers, weights integers over a common denominator.  What *)
(* a regression on a set of matched pairs errs by on another pair is a     *)
(* constant of the behaviour, any table at all.  A structure may be matched *)
(* several times: the fits count structures and rank pairs.                *)
(***************************************************************************)
EXTENDS Integers, Sequences, SequencesExt, FiniteSets, FiniteSetsExt, Functions

CONSTANTS
  Target,        \* the protocol of the queries
  Protocols,
  StructureOf,   \* the canonical structure of every matched pair
  PairSystem,    \* and its chemical system
  ErrorTables,   \* what a fit can err by, pair by pair
  Intercepts,    \* shifts that a fit can find
  Groupings,     \* records [fit, radius, held]: pairs, pairs and structures
  Alpha,         \* in percent
  MinimumCalibration,
  Raw,           \* records from which cards are made, valid or not
  Queries,       \* valid queries, see QueryIsCausal
  Similarity,    \* of two embeddings, an integer; below 1 is ignored
  MaxNeighbors,
  Gates,         \* maximal radii of a transport, or NoGate
  NoGate,
  Residuals,     \* what the residual of a query can turn out to be
  MaxMaps, MaxArchive   \* bounds of the model

MatchedPairs == DOMAIN StructureOf

ASSUME EvidenceAssumption ==
  /\ Target \in Protocols /\ Alpha \in 1..99 /\ MinimumCalibration \in Nat \ {0}
  /\ IsFiniteSet(MatchedPairs) /\ ErrorTables \subseteq [MatchedPairs -> Nat]
  /\ \A g \in Groupings : g.fit \union g.radius \subseteq MatchedPairs
  /\ Intercepts \subseteq Int /\ Residuals \subseteq Int
  /\ \A c \in Raw : {c.residual, c.energy, c.base} \subseteq Int
  /\ \A q \in Queries : /\ {q.base, q.threshold, q.hull.energy} \subseteq Int
                        /\ \A c \in Raw : Similarity[<<q.embedding, c.embedding>>] \in Int
  /\ MaxNeighbors \in Nat \ {0} /\ MaxMaps \in Nat /\ MaxArchive \in Nat

VARIABLES
  err,        \* the error of every pair under the fitted transports
  maps,       \* the transports that the resolver is built from, in order
  archive,    \* cards in order of observation
  state,      \* AllOutcomeLinearGaussianState
  correction, \* AllOutcomeTargetCorrectionState
  radius      \* the calibration of the risk controller, -1 for none

flowVars == <<err, maps, archive, state, correction, radius>>

Total(F(_), S) == SumFunctionOnSet([x \in S |-> F(x)], S)

\* The archive as a set: no two cards have one identity.
Cards == ToSet(archive)

-------------------------------------------------------------------------------
(* Calibration.                                                             *)

\* ceil((n + 1)(1 - alpha)), counted from one.
Rank(n) == ((n + 1) * (100 - Alpha) + 99) \div 100

\* The k-th smallest of the errors of S, each counted as often as it occurs.
Smallest(e, S, k) ==
  Min({x \in {e[s] : s \in S} : Cardinality({s \in S : e[s] <= x}) >= k})

\* fit_same_structure: the radius on the pairs of the fit itself, the
\* largest error where the rank is beyond the sample.
PooledRadius(e, S) ==
  LET n == Cardinality(S) IN Smallest(e, S, Min({n, Rank(n)}))

\* Faulty variant: the rank is that of the sample without the new pair.
SplitRadiusUncorrected(e, S) ==
  LET n == Cardinality(S) IN Smallest(e, S, Max({1, (n * (100 - Alpha) + 99) \div 100}))

\* fit_same_structure_split: the errors of the pairs are ranked, however many
\* a structure has.  -1 stands for the error that the partition is too small
\* for a finite radius.
SplitRadius(e, S) ==
  LET n == Cardinality(S) IN IF Rank(n) > n THEN -1 ELSE Smallest(e, S, Rank(n))

StructuresOf(S) == {StructureOf[s] : s \in S}

SystemsOf(S) == {PairSystem[s] : s \in S}

\* fit_same_structure_system_split: one score, the largest error, per system.
Worst(e, S) == [y \in SystemsOf(S) |-> Max({e[s] : s \in {t \in S : PairSystem[t] = y}})]

ClusteredRadius(e, S) == SplitRadius(Worst(e, S), SystemsOf(S))

PooledIsLegal(g) ==
  Cardinality(StructuresOf(g.fit)) >= 3 /\ StructuresOf(g.fit) \intersect g.held = {}

SplitIsLegal(g) ==
  /\ Cardinality(StructuresOf(g.fit)) >= 3 /\ Cardinality(StructuresOf(g.radius)) >= 3
  /\ StructuresOf(g.fit) \intersect StructuresOf(g.radius) = {}
  /\ StructuresOf(g.fit \union g.radius) \intersect g.held = {}

ClusteredIsLegal(g) ==
  /\ SplitIsLegal(g)
  /\ Cardinality(SystemsOf(g.fit)) >= 2 /\ Cardinality(SystemsOf(g.radius)) >= 2
  /\ SystemsOf(g.fit) \intersect SystemsOf(g.radius) = {}

\* The radii that the fits give for a grouping.  The clustered fit makes a
\* composition-aware map, which the resolver of residuals does not take.
Radii(e, g) ==
  (IF PooledIsLegal(g) THEN {PooledRadius(e, g.fit)} ELSE {})
    \union (IF SplitIsLegal(g) THEN {SplitRadius(e, g.radius)} ELSE {})

\* Identical protocols are reused directly: no map is made between them.
FitMap(source, target, g, intercept) ==
  /\ archive = <<>> /\ Len(maps) < MaxMaps
  /\ source # target
  /\ \E r \in Radii(err, g) \ {-1} :
       maps' = Append(maps, [source |-> source, target |-> target, radius |-> r,
                             intercept |-> intercept])
  /\ UNCHANGED <<err, archive, state, correction, radius>>

\* ProtocolRiskController.fit: again the largest error beyond the sample.
Calibrate(S) ==
  /\ archive = <<>> /\ radius = -1
  /\ Cardinality(S) >= MinimumCalibration
  /\ radius' = PooledRadius(err, S)
  /\ UNCHANGED <<err, maps, archive, state, correction>>

-------------------------------------------------------------------------------
(* Protocols.                                                               *)

\* Faulty variant: a transport is used in both directions.
ResolveUndirected(source, target) ==
  LET known == {k \in DOMAIN maps : {maps[k].source, maps[k].target} = {source, target}}
  IN  IF source = target THEN [kind |-> "direct", radius |-> 0, shift |-> 0]
      ELSE IF known = {} THEN [kind |-> "reject", radius |-> 0, shift |-> 0]
      ELSE [kind |-> "transported", radius |-> maps[Max(known)].radius,
            shift |-> maps[Max(known)].intercept]

\* The resolver's table keeps the last of two maps with the same ends.
Resolve(source, target) ==
  LET known == {k \in DOMAIN maps : maps[k].source = source /\ maps[k].target = target}
  IN  IF source = target THEN [kind |-> "direct", radius |-> 0, shift |-> 0]
      ELSE IF known = {} THEN [kind |-> "reject", radius |-> 0, shift |-> 0]
      ELSE [kind |-> "transported", radius |-> maps[Max(known)].radius,
            shift |-> maps[Max(known)].intercept]

\* transfer_residual
Transferred(card, target) == card.residual + Resolve(card.protocol, target).shift

Legal(card, target) == Resolve(card.protocol, target).kind # "reject"

-------------------------------------------------------------------------------
(* Cards and queries.                                                       *)

Expected ==
  [org |-> "initial", external_low_fidelity |-> "low_fidelity_relaxed", opt |-> "relaxed"]

\* StructureArtifactIdentity: the stage follows from the field, and exactly the
\* optimized structure is not available before the query.
ArtifactIsTyped(a) ==
  a.stage = Expected[a.field] /\ (a.available <=> a.stage # "relaxed")

SnapshotIsCausal(h) == h.known <= h.built

\* A query sees a structure of before the query and a hull of its past.
QueryIsCausal(q) ==
  /\ ArtifactIsTyped(q.artifact) /\ q.artifact.stage # "relaxed"
  /\ SnapshotIsCausal(q.hull) /\ q.hull.built <= q.asOf

\* MaterialMemoryCard
CardIsConsistent(c) ==
  /\ ArtifactIsTyped(c.artifact) /\ c.artifact.stage # "relaxed"
  /\ SnapshotIsCausal(c.hull) /\ c.hull.built <= c.observed
  /\ c.residual = c.energy - c.base

-------------------------------------------------------------------------------
(* The consumers of the archive.                                            *)

\* ProtocolAwareActivator.activate: every direct card, and every transported
\* one that passes the gate.
Activated(q, cards, gate) ==
  {c \in cards :
    LET found == Resolve(c.protocol, q.protocol)
    IN  found.kind = "direct"
          \/ (found.kind = "transported" /\ (gate = NoGate \/ found.radius <= gate))}

\* Its audit: what happened to each card.
Audit(q, cards, gate) ==
  LET ids(P(_)) == {c.id : c \in {d \in cards : P(Resolve(d.protocol, q.protocol))}}
      passes(found) == gate = NoGate \/ found.radius <= gate
  IN  [direct       |-> ids(LAMBDA f : f.kind = "direct"),
       transported  |-> ids(LAMBDA f : f.kind = "transported" /\ passes(f)),
       incompatible |-> ids(LAMBDA f : f.kind = "reject"),
       uncertain    |-> ids(LAMBDA f : f.kind = "transported" /\ ~passes(f))]

\* FixedKernelResidualGP._compatible_view
View(q, cards) == {c \in cards : Legal(c, q.protocol)}

\* similarity / (1 + radius), over sixty.
Weight(q, c) ==
  (Similarity[<<q.embedding, c.embedding>>] * 60)
    \div (1 + Resolve(c.protocol, q.protocol).radius)

\* The cards that correct a prediction: similar ones, the weightiest first and
\* then by identity, no more than the limit.
Neighbors(q, cards) ==
  LET similar == {c \in cards : Legal(c, q.protocol)
                                  /\ Similarity[<<q.embedding, c.embedding>>] >= 1}
      before(c, d) == Weight(q, c) > Weight(q, d) \/ (Weight(q, c) = Weight(q, d) /\ c.id < d.id)
  IN  {c \in similar : Cardinality({d \in similar : before(d, c)}) < MaxNeighbors}

\* Faulty variant: the radius of the weightiest card stands for all.
SpreadOfNearest(q, near) ==
  LET weights == Total(LAMBDA c : Weight(q, c), near)
      first == CHOOSE c \in near : \A d \in near : Weight(q, c) >= Weight(q, d)
  IN  weights * Resolve(first.protocol, q.protocol).radius

\* The uncertainty of a correction, times the sum of the weights.
Spread(q, near) == Total(LAMBDA c : Weight(q, c) * Resolve(c.protocol, q.protocol).radius, near)

\* ResidualCorrector.correct; shift and spread are to be divided by the weights.
Correct(q, cards) ==
  LET near == Neighbors(q, cards)
      weights == Total(LAMBDA c : Weight(q, c), near)
  IN  [corrected |-> weights # 0, near |-> near, weights |-> weights,
       shift  |-> Total(LAMBDA c : Weight(q, c) * Transferred(c, q.protocol), near),
       spread |-> IF near = {} THEN 0 ELSE Spread(q, near)]

\* ProtocolRiskController.screen: the upper bound against the threshold.
Screen(q, result) ==
  IF ~result.corrected \/ radius = -1 THEN "abstain"
  ELSE IF result.shift + result.spread + result.weights * (q.base - q.hull.energy + radius)
            <= result.weights * q.threshold
       THEN "stable" ELSE "not_stable"

\* One over the variance of an observation, over ten.
InformationOf(found) == 10 \div (1 + found.radius * found.radius)

Embeddings == {c.embedding : c \in Raw}

Empty ==
  [precision |-> [v \in Embeddings |-> 0], eta |-> [v \in Embeddings |-> 0],
   direct |-> 0, transported |-> 0, rejected |-> 0]

\* AllOutcomeLinearGaussianState.update; the outer product of a feature with
\* itself is what the feature adds to its own entry.
StateAfter(s, c) ==
  LET found == Resolve(c.protocol, Target)
      weight == InformationOf(found)
  IN  IF found.kind = "reject" THEN [s EXCEPT !.rejected = @ + 1]
      ELSE [s EXCEPT !.precision[c.embedding] = @ + weight,
                     !.eta[c.embedding] = @ + weight * Transferred(c, Target),
                     !.direct = @ + (IF found.kind = "direct" THEN 1 ELSE 0),
                     !.transported = @ + (IF found.kind = "transported" THEN 1 ELSE 0)]

\* AllOutcomeTargetCorrectionState.update
CorrectionAfter(s, c) ==
  [s EXCEPT !.precision[c.embedding] = @ + 1, !.eta[c.embedding] = @ + c.energy - c.base,
            !.direct = @ + 1]

-------------------------------------------------------------------------------

FlowInit ==
  /\ err \in ErrorTables
  /\ maps = <<>> /\ archive = <<>> /\ radius = -1
  /\ state = Empty /\ correction = Empty

\* An outcome is recorded and offered to the states; outcomes of the target
\* protocol also to the correction.  The activation and
\* the Gaussian process refuse an archive with two cards of one identity, so
\* none is built.
Observe(c) ==
  /\ Len(archive) < MaxArchive
  /\ CardIsConsistent(c)
  /\ c.id \notin {archive[k].id : k \in DOMAIN archive}
  /\ archive' = Append(archive, c)
  /\ state' = StateAfter(state, c)
  /\ correction' = IF c.protocol = Target THEN CorrectionAfter(correction, c) ELSE correction
  /\ UNCHANGED <<err, maps, radius>>

FlowNext ==
  \/ \E p, q \in Protocols, g \in Groupings, i \in Intercepts : FitMap(p, q, g, i)
  \/ \E g \in Groupings : Calibrate(g.radius)
  \/ \E c \in Raw : Observe(c)

FlowSpec == FlowInit /\ [][FlowNext]_flowVars

-------------------------------------------------------------------------------
(* Properties.                                                              *)

\* A radius covers what it ranks.  Of the pairs left out one after the other,
\* at most a share alpha err by more than the split radius calibrated on the
\* others; of the systems, for the clustered fit, at most a share alpha have a
\* pair that does.  A sample too small for the claim gives no radius.  Nothing
\* is promised of structures: one with many pairs counts as often as it was
\* matched, and structures matched once may be missed more often than alpha.
RadiiCover ==
  \A g \in Groupings :
    LET missed(s) == LET r == SplitRadius(err, g.radius \ {s}) IN r # -1 /\ err[s] > r
        without(y) == {s \in g.radius : PairSystem[s] # y}
        missedSystem(y) ==
          LET r == ClusteredRadius(err, without(y)) IN r # -1 /\ Worst(err, g.radius)[y] > r
    IN  /\ SplitIsLegal(g) =>
             100 * Cardinality({s \in g.radius : missed(s)}) <= Alpha * Cardinality(g.radius)
        /\ ClusteredIsLegal(g) =>
             100 * Cardinality({y \in SystemsOf(g.radius) : missedSystem(y)})
               <= Alpha * Cardinality(SystemsOf(g.radius))

Certified(c, q) ==
  c.protocol = q.protocol
    \/ \E k \in DOMAIN maps : maps[k].source = c.protocol /\ maps[k].target = q.protocol

\* What a set of cards makes of the states, in no order.
StateOf(cards) ==
  LET of(v) == {c \in cards : Legal(c, Target) /\ c.embedding = v}
      information(c) == InformationOf(Resolve(c.protocol, Target))
      count(kind) == Cardinality({c \in cards : Resolve(c.protocol, Target).kind = kind})
  IN  [precision   |-> [v \in Embeddings |-> Total(information, of(v))],
       eta         |-> [v \in Embeddings |->
                         Total(LAMBDA c : information(c) * Transferred(c, Target), of(v))],
       direct      |-> count("direct"),
       transported |-> count("transported"),
       rejected    |-> count("reject")]

CorrectionOf(cards) ==
  LET of(v) == {c \in cards : c.embedding = v}
  IN  [Empty EXCEPT !.precision = [v \in Embeddings |-> Cardinality(of(v))],
                    !.eta = [v \in Embeddings |-> Total(LAMBDA c : c.energy - c.base, of(v))],
                    !.direct = Cardinality(cards)]

\* Every consumer draws the same line: the activation without a gate, the view
\* of the Gaussian process and the sufficient state take exactly the cards of
\* the query's own protocol and those with a transport towards it; a gate takes
\* away none of the first and the audit accounts for each card once; and the
\* states are those of the archive as a set, whatever the order of the reveals.
OneEvidence ==
  /\ \A q \in Queries, gate \in Gates :
       LET audit == Audit(q, Cards, gate)
           ids(cards) == {c.id : c \in cards}
           active == Activated(q, Cards, gate)
       IN  /\ View(q, Cards) = {c \in Cards : Certified(c, q)}
           /\ gate = NoGate => active = View(q, Cards)
           /\ {c \in Cards : c.protocol = q.protocol} \subseteq active
           /\ ids(active) = audit.direct \union audit.transported
           /\ ids(Cards) = ids(active) \union audit.incompatible \union audit.uncertain
           /\ Len(archive) = Cardinality(audit.direct) + Cardinality(audit.transported)
                               + Cardinality(audit.incompatible) + Cardinality(audit.uncertain)
           /\ Correct(q, active).near \subseteq active
  /\ state = StateOf(Cards)
  /\ correction = CorrectionOf({c \in Cards : c.protocol = Target})
  /\ \A q \in Queries : q.protocol = Target =>
       state.direct + state.transported = Cardinality(View(q, Cards))

\* "Only certifies a stable screen when its calibrated upper bound is stable":
\* when every card that corrects a prediction is as near to the residual of the
\* query as its transport and the calibration say, a query that is screened
\* stable is stable.
StableIsStable ==
  \A q \in Queries, rho \in Residuals :
    LET result == Correct(q, Cards)
        near(c) == LET off == rho - Transferred(c, q.protocol)
                       bound == Resolve(c.protocol, q.protocol).radius + radius
                   IN  off <= bound /\ 0 - off <= bound
    IN  (Screen(q, result) = "stable" /\ \A c \in result.near : near(c)) =>
          q.base + rho - q.hull.energy <= q.threshold

===============================================================================

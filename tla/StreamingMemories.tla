--------------------------- MODULE StreamingMemories ---------------------------
(***************************************************************************)
(* The bounded memories of coreset.py and baselines.py side by side, each  *)
(* offered the same stream: cards arrive one at a time, in any order, with *)
(* the pool of queries that still wait.  A card arrives once, as a query   *)
(* is revealed once.                                                       *)
(***************************************************************************)
EXTENDS CalibrationCoreset

CONSTANTS
  Posteriors,   \* tables the posterior may be
  Variances,    \* tables of the summed posterior variances
  Similarity,   \* cosine similarity of queries and cards, where positive
  Pools         \* query pools a card may arrive with

ASSUME MemoriesAssumption ==
  /\ Posteriors \subseteq [SUBSET Cards -> [Queries -> 0..U]]
  /\ Variances \subseteq [SUBSET Cards -> [Queries -> Nat]]
  /\ Similarity \in [Queries -> [Cards -> Nat]]
  /\ Pools \subseteq SUBSET Queries

VARIABLES
  post, variance,  \* what the fitted models say, unknown but fixed
  archive,         \* cards in the order of arrival
  facility,        \* StreamingCalibrationCoreset
  joint,           \* StreamingJointPosteriorRiskCoreset
  projection,      \* StreamingPosteriorProjectionCoreset
  steady,          \* GPVarianceOneSwapMemory
  diverse,         \* DiversityBoundedMemory, as a set
  fifo             \* FIFOBoundedMemory

vars == <<post, variance, archive, facility, joint, projection, steady, diverse, fifo>>

Init ==
  /\ post \in Posteriors /\ variance \in Variances
  /\ archive = <<>>
  /\ facility = <<>> /\ joint = <<>> /\ projection = <<>>
  /\ steady = <<>> /\ diverse = {} /\ fifo = <<>>

-------------------------------------------------------------------------------
\* Faulty variant: any improving proposal will do, the first by its IDs.
SteadyAdmitsFirst(pool, current, card) ==
  LET objective(s) == Total(LAMBDA q : variance[ToSet(s)][q], pool)
      improving == {s \in Proposals(current, card) : objective(s) < objective(current)}
  IN  IF improving = {} THEN current ELSE FirstOf(improving)

\* GPVarianceOneSwapMemory.admit: the best of the proposals that lower the
\* summed variance, by sorted IDs among equals.
SteadyAdmits(pool, current, card) ==
  LET objective(s) == Total(LAMBDA q : variance[ToSet(s)][q], pool)
      improving == {s \in Proposals(current, card) : objective(s) < objective(current)}
      best == {s \in improving : \A t \in improving : objective(s) <= objective(t)}
  IN  IF best = {} THEN current
      ELSE CHOOSE s \in best :
             \A t \in best \ {s} : Before(Ordered(ToSet(s)), Ordered(ToSet(t)))

\* DiversityBoundedMemory._coverage
Coverage(pool, cards) ==
  IF cards = {} THEN 0 ELSE Total(LAMBDA q : Max({Similarity[q][c] : c \in cards}), pool)

\* Over capacity, the card goes without which most remains covered, the
\* largest ID among equals.
DiverseAdmits(pool, cards, card) ==
  LET all == cards \union {card}
      without(c) == Coverage(pool, all \ {c})
      most == Max({without(c) : c \in all})
  IN  IF Cardinality(all) <= Capacity THEN all
      ELSE all \ {Max({c \in all : without(c) = most})}

\* FIFOBoundedMemory.admit
FifoAdmits(cards, card) ==
  LET all == Append(SelectSeq(cards, LAMBDA c : c # card), card)
      from == IF Len(all) <= Capacity THEN 1 ELSE Len(all) - Capacity + 1
  IN  SubSeq(all, from, Len(all))

Arrive(card, pool) ==
  /\ card \notin ToSet(archive)
  /\ archive' = Append(archive, card)
  /\ facility' = FacilityAdmits(post, pool, facility, card)
  /\ joint' = JointAdmits(post, pool, joint, card)
  /\ projection' = ProjectionAdmits(post, pool, projection, card)
  /\ steady' = SteadyAdmits(pool, steady, card)
  /\ diverse' = DiverseAdmits(pool, diverse, card)
  /\ fifo' = FifoAdmits(fifo, card)
  /\ UNCHANGED <<post, variance>>

Next == \E card \in Cards, pool \in Pools : Arrive(card, pool)

Spec == Init /\ [][Next]_vars

-------------------------------------------------------------------------------
(* Properties.  They speak of every card that may arrive next, with every  *)
(* pool, in every state that earlier arrivals lead to.                     *)

Arrivals == {w \in Cards \X Pools : w[1] \notin ToSet(archive)}

\* The sets that rejection or one swap can lead to.
Neighbors(current, card) ==
  LET all == ToSet(current) \union {card}
      size == IF Len(current) < Capacity THEN Len(current) + 1 ELSE Capacity
  IN  {ToSet(current)} \union {S \in SUBSET all : card \in S /\ Cardinality(S) = size}

Fitting(S) == {T \in SUBSET S : Cardinality(T) <= Capacity}

\* "Exactly optimize the current active set plus one new observation", "exact
\* only over rejection and the legal one-swap choices": the facility planner
\* and the diversity baseline leave the best of all sets that fit, the joint
\* planner and the Gaussian baseline the best that rejection or one swap can
\* reach, but for the minimum gain, whatever the earlier arrivals left.
PlannersAreOptimal ==
  \A w \in Arrivals :
    LET kept == ToSet(FacilityAdmits(post, w[2], facility, w[1]))
        risk(S) == JointRisk(post, w[2], S)
        spread(S) == Total(LAMBDA q : variance[S][q], w[2])
    IN  /\ \A S \in Fitting(ToSet(facility) \union {w[1]}) :
             Value(post, w[2], S) <= Value(post, w[2], kept) + MinGain
        /\ \A S \in Fitting(diverse \union {w[1]}) :
             Coverage(w[2], S) <= Coverage(w[2], DiverseAdmits(w[2], diverse, w[1]))
        /\ \A S \in Neighbors(joint, w[1]) :
             risk(S) >= risk(ToSet(JointAdmits(post, w[2], joint, w[1]))) - MinImprovement
        /\ \A S \in Neighbors(steady, w[1]) :
             spread(S) >= spread(ToSet(SteadyAdmits(w[2], steady, w[1])))

\* The diagnostic walks through its own rows; what it says each objective
\* selects is what the planner of that objective admits, ties included.
DiagnosticAgrees ==
  \A w \in Arrivals, current \in {facility, joint, fifo} :
    Compared(post, w[2], current, w[1]) =
      [facility |-> FacilityAdmits(post, w[2], current, w[1]),
       joint    |-> JointAdmits(post, w[2], current, w[1])]

\* "Greedy full-archive selection with the standard 1-1/e bound", in its form
\* for K choices, 1 - (1 - 1/K)^K; the minimum gain may cost K times itself.
GreedyIsNearOptimal ==
  \A pool \in Pools :
    LET K == Capacity
        value == Value(post, pool, Greedy(post, pool, ToSet(archive)))
    IN  K > 0 => \A S \in Fitting(ToSet(archive)) :
          (value + K * MinGain) * K^K >= (K^K - (K - 1)^K) * Value(post, pool, S)

\* The exact planner over the same cards is never worse than one swap: not in
\* the constraints and, among equals there, not in divergence.
ArchiveIsNeverWorse ==
  \A w \in Arrivals :
    LET all == ToSet(projection) \union {w[1]}
        swap == ToSet(ProjectionAdmits(post, w[2], projection, w[1]))
        exact == ProjectedArchive(post, w[2], all)
        violation(S) == Violation(post, w[2], all, S)
    IN  /\ violation(exact) <= violation(swap)
        /\ violation(exact) = violation(swap) =>
             ProperDivergence(post, w[2], all, exact) <= ProperDivergence(post, w[2], all, swap)

===============================================================================

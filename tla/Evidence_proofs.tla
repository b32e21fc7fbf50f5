----------------------------- MODULE Evidence_proofs -----------------------------
(***************************************************************************)
(* What counts as evidence, and which outcomes reach a result: proofs      *)
(* about EvidenceFlow and TaskLineage, for every release, every hash and   *)
(* every table of errors, any number of cards, folds, bins and files, and  *)
(* every order of the tools.                                               *)
(*                                                                         *)
(* Evidence.  A radius is the least value that enough errors do not        *)
(* exceed: the largest of the smallest keep it or raise it when one is     *)
(* left out.  Every consumer takes a sum over the cards with a path to the *)
(* protocol of the query, and a weighted mean lies where its terms lie.    *)
(*                                                                         *)
(* Tasks.  A file never changes, so the inductive invariant says of each   *)
(* file what it owes to the files it was made from.  A plan draws all its  *)
(* systems from the plan before it, up to a cross-fit, whose systems the   *)
(* result behind it did not query; along a line of plans the properties    *)
(* add up.                                                                 *)
(***************************************************************************)
EXTENDS EvidenceFlow, TaskLineage, DataFacts

-------------------------------------------------------------------------------
(* Calibrated radii.                                                        *)

\* The image of a finite set under a function is finite.
LEMMA ImageIsFinite ==
  ASSUME NEW D, NEW e \in [D -> Int], NEW S \in SUBSET D, IsFiniteSet(S)
  PROVE  IsFiniteSet({e[s] : s \in S}) /\ {e[s] : s \in S} \in SUBSET Int
<1> DEFINE I == {e[s] : s \in S}
           f == [s \in S |-> e[s]]
<1>1. f \in Surjection(S, I)
  BY DEF Surjection
<1> QED
  BY <1>1, FS_Surjection

\* The k-th smallest error is one of them, and at least k do not exceed it.
LEMMA SmallestFacts ==
  ASSUME NEW D, NEW e \in [D -> Int], NEW S \in SUBSET D, IsFiniteSet(S),
         NEW k \in Nat, k <= Cardinality(S), k # 0
  PROVE  /\ Smallest(e, S, k) \in {e[s] : s \in S}
         /\ Cardinality({s \in S : e[s] <= Smallest(e, S, k)}) >= k
<1> DEFINE I == {e[s] : s \in S}
           X == {x \in I : Cardinality({s \in S : e[s] <= x}) >= k}
<1>1. IsFiniteSet(I) /\ I \in SUBSET Int
  BY ImageIsFinite
<1>2. I # {}
  <2>1. S # {}
    BY FS_EmptySet
  <2> QED
    BY <2>1
<1>3. Max(I) \in I /\ \A x \in I : Max(I) >= x
  <2> HIDE DEF I
  <2> QED
    BY <1>1, <1>2, GreatestOf
<1>4. {s \in S : e[s] <= Max(I)} = S
  <2>1. \A s \in S : e[s] \in I /\ e[s] \in Int
    OBVIOUS
  <2>2. Max(I) \in Int
    BY <1>1, <1>3
  <2> HIDE DEF I
  <2> QED
    BY <1>3, <2>1, <2>2
<1>5. Max(I) \in X
  BY <1>3, <1>4, FS_CardinalityType
<1>6. IsFiniteSet(X) /\ X \in SUBSET Int /\ X # {}
  <2> HIDE DEF I
  <2> QED
    BY <1>1, <1>5, FS_Subset
<1>7. Min(X) \in X
  <2> HIDE DEF X
  <2> QED
    BY <1>6, LeastOf
<1> QED
  BY <1>7 DEF Smallest

\* Nothing but the errors of S decides.
LEMMA SmallestAgrees ==
  ASSUME NEW e, NEW f, NEW S, \A s \in S : e[s] = f[s]
  PROVE  SplitRadius(e, S) = SplitRadius(f, S)
<1>1. ASSUME NEW k
      PROVE  Smallest(e, S, k) = Smallest(f, S, k)
  <2>1. {e[s] : s \in S} = {f[s] : s \in S}
    OBVIOUS
  <2>2. \A x : {s \in S : e[s] <= x} = {s \in S : f[s] <= x}
    OBVIOUS
  <2>3. {x \in {e[s] : s \in S} : Cardinality({s \in S : e[s] <= x}) >= k}
          = {x \in {f[s] : s \in S} : Cardinality({s \in S : f[s] <= x}) >= k}
    BY <2>1, <2>2
  <2> QED
    BY <2>3, Zenon DEF Smallest
<1> QED
  BY <1>1 DEF SplitRadius

LEMMA RankFacts ==
  ASSUME NEW n \in Nat
  PROVE  /\ Rank(n) \in Nat /\ Rank(n) # 0
         /\ 100 * Rank(n) >= 100 * (n + 1) - Alpha * (n + 1)
<1>1. Alpha \in 1..99
  BY EvidenceAssumption
<1> DEFINE b == 100 - Alpha
           a == n * b
<1>2. b \in Nat \ {0} /\ Alpha = 100 - b
  BY <1>1
<1>3. a \in Nat
  <2> HIDE DEF b
  <2> QED
    BY <1>2
<1>4. (n + 1) * (100 - Alpha) = a + b /\ Alpha * (n + 1) = 100 * (n + 1) - (a + b)
  <2>1. (n + 1) * b = a + b
    <3> HIDE DEF b
    <3> QED
      BY <1>2
  <2>2. Alpha * (n + 1) = 100 * (n + 1) - (n + 1) * b
    <3> HIDE DEF b
    <3>1. (100 - b) * (n + 1) = 100 * (n + 1) - (n + 1) * b
      BY <1>2
    <3> QED
      BY <1>2, <3>1
  <2> QED
    BY <2>1, <2>2
<1>5. Rank(n) = (a + b + 99) \div 100
  BY <1>4 DEF Rank
<1> HIDE DEF a, b
<1> QED
  BY <1>2, <1>3, <1>4, <1>5

\* Of the members of R left out one by one, those that err by more than the
\* radius calibrated on the rest.
MissedBy(e, R) == {s \in R : LET r == SplitRadius(e, R \ {s}) IN r # -1 /\ e[s] > r}

\* Take the missed one that errs least: the errors that its radius covers are
\* as many as the rank, and none of them is missed.
LEMMA FewAreMissed ==
  ASSUME NEW D, NEW e \in [D -> Nat], NEW R \in SUBSET D, IsFiniteSet(R)
  PROVE  100 * Cardinality(MissedBy(e, R)) <= Alpha * Cardinality(R)
<1> DEFINE M == MissedBy(e, R)
           n == Cardinality(R)
<1>1. IsFiniteSet(M) /\ M \subseteq R /\ n \in Nat /\ Alpha \in 1..99
  <2>1. M \subseteq R
    BY DEF MissedBy
  <2> QED
    BY <2>1, FS_Subset, FS_CardinalityType, EvidenceAssumption
<1>2. CASE M = {}
  <2>1. Cardinality(M) = 0
    BY <1>2, FS_EmptySet
  <2>2. Alpha * n >= 0
    <3> HIDE DEF n
    <3> QED
      BY <1>1
  <2> HIDE DEF M, n
  <2> QED
    BY <2>1, <2>2 DEF M, n
<1>3. CASE M # {}
  <2>1. PICK s \in M : \A t \in M : e[s] <= e[t]
    <3> DEFINE F == [t \in M |-> e[t]]
    <3>1. F \in [M -> Int]
      BY <1>1
    <3>2. \E s \in M : \A t \in M : F[s] <= F[t]
      <4> HIDE DEF F, M
      <4> QED
        BY <1>1, <1>3, <3>1, LeastValue
    <3> QED
      BY <3>2
  <2> DEFINE Q == R \ {s}
             k == Rank(Cardinality(Q))
             r == SplitRadius(e, Q)
             B == {t \in Q : e[t] <= r}
  <2>2. s \in R /\ r # -1 /\ e[s] > r
    BY DEF MissedBy
  <2>3. Q \in SUBSET D /\ IsFiniteSet(Q) /\ Cardinality(Q) = n - 1 /\ Cardinality(Q) \in Nat
    BY <2>2, FS_RemoveElement, FS_CardinalityType
  <2>4. k \in Nat /\ k # 0 /\ 100 * k >= 100 * n - Alpha * n
    <3>1. (n - 1) + 1 = n
      BY <1>1
    <3> HIDE DEF n, Q
    <3> QED
      BY <2>3, <3>1, RankFacts
  <2>5. k <= Cardinality(Q) /\ r = Smallest(e, Q, k)
    <3>1. r = IF k > Cardinality(Q) THEN -1 ELSE Smallest(e, Q, k)
      BY DEF SplitRadius
    <3> HIDE DEF r, k, Q
    <3> QED
      BY <2>2, <2>3, <2>4, <3>1
  <2>6. e \in [D -> Int]
    OBVIOUS
  <2>7. Cardinality(B) >= k /\ r \in {e[t] : t \in Q}
    <3> HIDE DEF r, k, Q
    <3>1. /\ Smallest(e, Q, k) \in {e[t] : t \in Q}
          /\ Cardinality({t \in Q : e[t] <= Smallest(e, Q, k)}) >= k
      BY <2>3, <2>4, <2>5, <2>6, SmallestFacts
    <3> QED
      BY <2>5, <3>1
  <2>8. B \intersect M = {}
    <3> SUFFICES ASSUME NEW t \in B, t \in M
                 PROVE  FALSE
      OBVIOUS
    <3>1. e[s] \in Nat /\ e[t] \in Nat /\ r \in Int
      BY <1>1, <2>2, <2>7
    <3>2. e[t] <= r
      OBVIOUS
    <3> HIDE DEF r, B, M
    <3> QED
      BY <2>1, <2>2, <3>1, <3>2
  <2>9. /\ IsFiniteSet(B) /\ Cardinality(B) \in Nat /\ Cardinality(M) \in Nat
        /\ Cardinality(B) + Cardinality(M) <= n
    <3>1. B \in SUBSET R /\ M \in SUBSET R /\ B \union M \in SUBSET R
      BY <1>1
    <3>2. IsFiniteSet(B) /\ IsFiniteSet(M)
      BY <3>1, FS_Subset
    <3>3. Cardinality(B) \in Nat /\ Cardinality(M) \in Nat
      BY <3>2, FS_CardinalityType
    <3> HIDE DEF B, M
    <3>4. Cardinality(B \union M) = Cardinality(B) + Cardinality(M) - Cardinality({})
      BY <2>8, <3>2, FS_Union
    <3>5. Cardinality(B \union M) <= n
      BY <3>1, FS_Subset
    <3>6. Cardinality({}) = 0
      BY FS_EmptySet
    <3> HIDE DEF n
    <3> QED
      BY <3>2, <3>3, <3>4, <3>5, <3>6
  <2>10. Alpha * n \in Int
    <3> HIDE DEF n
    <3> QED
      BY <1>1
  <2>11. Cardinality(B) >= k
    BY <2>7
  <2> HIDE DEF M, n, k, B
  <2>12. 100 * Cardinality(M) <= Alpha * n
    BY <1>1, <2>4, <2>9, <2>10, <2>11
  <2> QED
    BY <2>12 DEF M, n
<1> QED
  BY <1>2, <1>3

\* The score of a system is the largest error of its structures, and leaving
\* out another system does not change it.
LEMMA WorstFacts ==
  ASSUME NEW e \in [MatchedPairs -> Nat], NEW R \in SUBSET MatchedPairs, IsFiniteSet(R)
  PROVE  /\ Worst(e, R) \in [SystemsOf(R) -> Nat] /\ IsFiniteSet(SystemsOf(R))
         /\ \A y \in SystemsOf(R) :
              LET rest == {s \in R : PairSystem[s] # y}
              IN  /\ SystemsOf(rest) = SystemsOf(R) \ {y}
                  /\ \A z \in SystemsOf(rest) : Worst(e, rest)[z] = Worst(e, R)[z]
<1> DEFINE In(y) == {s \in R : PairSystem[s] = y}
           Errors(y) == {e[s] : s \in In(y)}
<1>1. ASSUME NEW y \in SystemsOf(R)
      PROVE  Max(Errors(y)) \in Nat
  <2>1. In(y) \in SUBSET MatchedPairs /\ IsFiniteSet(In(y)) /\ In(y) # {} /\ e \in [MatchedPairs -> Int]
    BY FS_Subset DEF SystemsOf
  <2>2. IsFiniteSet(Errors(y)) /\ Errors(y) \in SUBSET Int
    <3> HIDE DEF In
    <3> QED
      BY <2>1, ImageIsFinite
  <2>3. Errors(y) # {} /\ Errors(y) \subseteq Nat
    BY <2>1
  <2> HIDE DEF Errors
  <2> QED
    BY <2>2, <2>3, GreatestOf
<1>2. Worst(e, R) = [y \in SystemsOf(R) |-> Max(Errors(y))]
  BY DEF Worst
<1>3. IsFiniteSet(SystemsOf(R))
  <2> DEFINE f == [s \in R |-> PairSystem[s]]
  <2>1. f \in Surjection(R, SystemsOf(R))
    BY DEF Surjection, SystemsOf
  <2> QED
    BY <2>1, FS_Surjection
<1>4. ASSUME NEW y \in SystemsOf(R)
      PROVE  LET rest == {s \in R : PairSystem[s] # y}
             IN  /\ SystemsOf(rest) = SystemsOf(R) \ {y}
                 /\ \A z \in SystemsOf(rest) : Worst(e, rest)[z] = Worst(e, R)[z]
  <2> DEFINE rest == {s \in R : PairSystem[s] # y}
  <2>1. SystemsOf(rest) = SystemsOf(R) \ {y}
    BY DEF SystemsOf
  <2>2. ASSUME NEW z \in SystemsOf(rest)
        PROVE  Worst(e, rest)[z] = Worst(e, R)[z]
    <3>1. z # y /\ z \in SystemsOf(R)
      BY <2>1
    <3>2. {s \in rest : PairSystem[s] = z} = {s \in R : PairSystem[s] = z}
      BY <3>1
    <3>3. Worst(e, rest)[z] = Max({e[s] : s \in {t \in rest : PairSystem[t] = z}})
      BY DEF Worst
    <3>4. Worst(e, R)[z] = Max({e[s] : s \in {t \in R : PairSystem[t] = z}})
      BY <3>1 DEF Worst
    <3> QED
      BY <3>2, <3>3, <3>4
  <2> QED
    BY <2>1, <2>2
<1> QED
  <2> HIDE DEF Errors
  <2> QED
    BY <1>1, <1>2, <1>3, <1>4

\* For any table of errors and any groupings.
LEMMA AnyRadiiCover ==
  ASSUME err \in ErrorTables
  PROVE  RadiiCover
<1> SUFFICES ASSUME NEW g \in Groupings
             PROVE  LET missed(s) == LET r == SplitRadius(err, g.radius \ {s}) IN r # -1 /\ err[s] > r
                        without(y) == {s \in g.radius : PairSystem[s] # y}
                        missedSystem(y) ==
                          LET r == ClusteredRadius(err, without(y))
                          IN  r # -1 /\ Worst(err, g.radius)[y] > r
                    IN  /\ 100 * Cardinality({s \in g.radius : missed(s)}) <= Alpha * Cardinality(g.radius)
                        /\ 100 * Cardinality({y \in SystemsOf(g.radius) : missedSystem(y)})
                             <= Alpha * Cardinality(SystemsOf(g.radius))
  BY DEF RadiiCover
<1> DEFINE R == g.radius
           W == Worst(err, R)
           rest(y) == {s \in R : PairSystem[s] # y}
           lost == {y \in SystemsOf(R) : LET r == ClusteredRadius(err, rest(y)) IN r # -1 /\ W[y] > r}
<1>1. R \in SUBSET MatchedPairs /\ IsFiniteSet(R) /\ err \in [MatchedPairs -> Nat]
  BY EvidenceAssumption, FS_Subset
<1>2. 100 * Cardinality({s \in R : LET r == SplitRadius(err, R \ {s}) IN r # -1 /\ err[s] > r})
        <= Alpha * Cardinality(R)
  <2> HIDE DEF R
  <2> QED
    BY <1>1, FewAreMissed DEF MissedBy
<1>3. /\ W \in [SystemsOf(R) -> Nat] /\ IsFiniteSet(SystemsOf(R))
      /\ \A y \in SystemsOf(R) :
           /\ SystemsOf(rest(y)) = SystemsOf(R) \ {y}
           /\ \A z \in SystemsOf(rest(y)) : Worst(err, rest(y))[z] = W[z]
  <2> HIDE DEF R
  <2> QED
    BY <1>1, WorstFacts
<1>4. \A y \in SystemsOf(R) : ClusteredRadius(err, rest(y)) = SplitRadius(W, SystemsOf(R) \ {y})
  <2> TAKE y \in SystemsOf(R)
  <2> HIDE DEF W, R, rest
  <2>1. SplitRadius(Worst(err, rest(y)), SystemsOf(rest(y))) = SplitRadius(W, SystemsOf(rest(y)))
    BY <1>3, SmallestAgrees
  <2> QED
    BY <1>3, <2>1 DEF ClusteredRadius
<1>5. lost = MissedBy(W, SystemsOf(R))
  <2> HIDE DEF W, R, rest
  <2> QED
    BY <1>4 DEF MissedBy
<1>6. 100 * Cardinality(lost) <= Alpha * Cardinality(SystemsOf(R))
  <2>1. SystemsOf(R) \in SUBSET SystemsOf(R)
    OBVIOUS
  <2> HIDE DEF lost, W, R
  <2> QED
    BY <1>3, <1>5, <2>1, FewAreMissed
<1> QED
  BY <1>2, <1>6

-------------------------------------------------------------------------------
(* The invariant: the types, one card per identity, and states that are sums *)
(* over the archive.                                                         *)

Maps == [source : Protocols, target : Protocols, radius : Nat, intercept : Int]

FlowTyped ==
  /\ err \in ErrorTables /\ maps \in Seq(Maps) /\ archive \in Seq(Raw)
  /\ radius \in Nat \union {-1}

LEMMA ResolveFacts ==
  ASSUME FlowTyped, NEW p, NEW q
  PROVE  /\ Resolve(p, q).kind \in {"direct", "transported", "reject"}
         /\ Resolve(p, q).radius \in Nat /\ Resolve(p, q).shift \in Int
<1> DEFINE known == {k \in DOMAIN maps : maps[k].source = p /\ maps[k].target = q}
<1>1. CASE p = q \/ known = {}
  <2>1. Resolve(p, q) \in {[kind |-> "direct", radius |-> 0, shift |-> 0],
                           [kind |-> "reject", radius |-> 0, shift |-> 0]}
    BY <1>1 DEF Resolve
  <2> QED
    BY <2>1
<1>2. CASE p # q /\ known # {}
  <2>1. known \in SUBSET Int /\ IsFiniteSet(known) /\ known \subseteq 1..Len(maps)
    <3>1. DOMAIN maps = 1..Len(maps) /\ Len(maps) \in Nat
      BY DEF FlowTyped
    <3>2. IsFiniteSet(1..Len(maps)) /\ known \in SUBSET (1..Len(maps))
      BY <3>1, FS_Interval
    <3>3. IsFiniteSet(known)
      <4> HIDE DEF known
      <4> QED
        BY <3>2, FS_Subset
    <3> QED
      BY <3>2, <3>3
  <2>2. Max(known) \in known
    <3> HIDE DEF known
    <3> QED
      BY <1>2, <2>1, GreatestOf
  <2>3. maps[Max(known)] \in Maps
    BY <2>1, <2>2 DEF FlowTyped
  <2>4. Resolve(p, q) = [kind |-> "transported", radius |-> maps[Max(known)].radius,
                         shift |-> maps[Max(known)].intercept]
    BY <1>2 DEF Resolve
  <2> QED
    BY <2>3, <2>4 DEF Maps
<1> QED
  BY <1>1, <1>2

LEMMA CardsAreFinite ==
  ASSUME FlowTyped
  PROVE  IsFiniteSet(Cards) /\ Cards \subseteq Raw
<1>1. /\ archive \in Seq(Raw) /\ Len(archive) \in Nat /\ DOMAIN archive = 1..Len(archive)
      /\ \A k \in 1..Len(archive) : archive[k] \in Raw
  BY DEF FlowTyped
<1>2. IsFiniteSet(1..Len(archive))
  BY <1>1, FS_Interval
<1>3. archive \in Surjection(1..Len(archive), Cards)
  BY <1>1 DEF Surjection, Cards, ToSet
<1> QED
  BY <1>1, <1>2, <1>3, FS_Surjection DEF Cards, ToSet

\* A product of numbers that are not negative, and the quotient of one.
LEMMA Quotients ==
  ASSUME NEW a \in Int, a >= 1, NEW b \in Nat
  PROVE  (a * 60) \div (1 + b) \in Nat
  OBVIOUS

LEMMA WeightFacts ==
  ASSUME FlowTyped, NEW q \in Queries, NEW c \in Neighbors(q, Cards)
  PROVE  /\ Weight(q, c) \in Nat /\ Resolve(c.protocol, q.protocol).radius \in Nat
         /\ Transferred(c, q.protocol) \in Int
<1>1. c \in Cards /\ Similarity[<<q.embedding, c.embedding>>] >= 1
  BY DEF Neighbors
<1>2. c \in Raw
  BY <1>1, CardsAreFinite
<1>3. Similarity[<<q.embedding, c.embedding>>] \in Int /\ c.residual \in Int
  BY <1>2, EvidenceAssumption
<1>4. Resolve(c.protocol, q.protocol).radius \in Nat /\ Resolve(c.protocol, q.protocol).shift \in Int
  BY ResolveFacts
<1> QED
  BY <1>1, <1>3, <1>4, Quotients DEF Weight, Transferred

\* The weighted bound of a prediction holds for its whole mean.
LEMMA AnyScreenIsStable ==
  ASSUME FlowTyped
  PROVE  StableIsStable
<1> SUFFICES ASSUME NEW q \in Queries, NEW rho \in Residuals,
                    Screen(q, Correct(q, Cards)) = "stable",
                    \A c \in Correct(q, Cards).near :
                      rho - Transferred(c, q.protocol)
                        <= Resolve(c.protocol, q.protocol).radius + radius
             PROVE  q.base + rho - q.hull.energy <= q.threshold
  BY DEF StableIsStable
<1> DEFINE near == Neighbors(q, Cards)
           F == [c \in near |-> Weight(q, c)]
           G == [c \in near |-> Weight(q, c) * Transferred(c, q.protocol)]
           H == [c \in near |-> Weight(q, c) * Resolve(c.protocol, q.protocol).radius]
           f == SumFunctionOnSet(F, near)
           g == SumFunctionOnSet(G, near)
           h == SumFunctionOnSet(H, near)
           u == q.base - q.hull.energy
<1>1. IsFiniteSet(near)
  <2>1. near \in SUBSET Cards
    BY DEF Neighbors
  <2> HIDE DEF near
  <2> QED
    BY <2>1, CardsAreFinite, FS_Subset
<1>2. F \in [near -> Int] /\ G \in [near -> Int] /\ H \in [near -> Int] /\ \A c \in near : F[c] >= 0
  <2>1. ASSUME NEW c \in near
        PROVE  /\ Weight(q, c) \in Nat
               /\ Weight(q, c) * Transferred(c, q.protocol) \in Int
               /\ Weight(q, c) * Resolve(c.protocol, q.protocol).radius \in Int
    <3>1. /\ Weight(q, c) \in Nat /\ Resolve(c.protocol, q.protocol).radius \in Nat
          /\ Transferred(c, q.protocol) \in Int
      BY WeightFacts
    <3> QED
      BY <3>1
  <2> HIDE DEF near
  <2> QED
    BY <2>1
<1>3. f \in Int /\ g \in Int /\ h \in Int
  <2>1. near \in SUBSET near
    OBVIOUS
  <2> HIDE DEF F, G, H, near
  <2> QED
    BY <1>1, <1>2, <2>1, SumAdds
<1>4. f >= 0
  <2>1. \A c \in near : 0 * F[c] <= F[c] + 0 * F[c]
    <3> TAKE c \in near
    <3>1. F[c] \in Int /\ F[c] >= 0
      <4> HIDE DEF F, near
      <4> QED
        BY <1>2
    <3> HIDE DEF F, near
    <3> QED
      BY <3>1
  <2>2. 0 \in Int /\ near \in SUBSET near
    OBVIOUS
  <2>3. 0 * f <= f + 0 * f
    <3> HIDE DEF F, near
    <3> QED
      BY <1>1, <1>2, <2>1, <2>2, SumCompares
  <2> HIDE DEF f
  <2> QED
    BY <1>3, <2>3
<1>5. /\ rho \in Int /\ u \in Int /\ q.threshold \in Int /\ radius \in Int /\ rho - radius \in Int
      /\ q.base \in Int /\ q.hull.energy \in Int
  BY EvidenceAssumption DEF FlowTyped
<1>6. (rho - radius) * f <= g + 1 * h
  <2>1. ASSUME NEW c \in near
        PROVE  (rho - radius) * F[c] <= G[c] + 1 * H[c]
    <3> DEFINE w == Weight(q, c)
               t == Transferred(c, q.protocol)
               r == Resolve(c.protocol, q.protocol).radius
    <3>1. w \in Nat /\ r \in Nat /\ t \in Int
      BY WeightFacts
    <3>2. rho - t <= r + radius
      BY DEF Correct
    <3>3. F[c] = w /\ G[c] = w * t /\ H[c] = w * r
      BY DEF F, G, H
    <3> HIDE DEF w, t, r, F, G, H
    <3>4. w * (t + r) = w * t + w * r /\ w * t \in Int /\ w * r \in Int
      BY <3>1
    <3>5. (rho - radius) * w <= w * (t + r)
      <4>1. PICK d \in Nat : t + r = (rho - radius) + d
        <5>1. (t + r) - (rho - radius) \in Nat
          BY <1>5, <3>1, <3>2
        <5>2. t + r = (rho - radius) + ((t + r) - (rho - radius))
          BY <1>5, <3>1
        <5> QED
          BY <5>1, <5>2
      <4>2. w * ((rho - radius) + d) = w * (rho - radius) + w * d
        BY <1>5, <3>1, Distributes
      <4>3. w * d \in Nat /\ (rho - radius) * w = w * (rho - radius) /\ w * (rho - radius) \in Int
        BY <1>5, <3>1
      <4> QED
        BY <4>1, <4>2, <4>3
    <3> QED
      BY <3>3, <3>4, <3>5
  <2>2. 1 \in Int /\ near \in SUBSET near
    OBVIOUS
  <2> HIDE DEF F, G, H, near
  <2> QED
    BY <1>1, <1>2, <1>5, <2>1, <2>2, SumCompares
<1>7. f # 0 /\ g + h + f * (u + radius) <= f * q.threshold
  <2>1. /\ Correct(q, Cards).weights = f /\ Correct(q, Cards).shift = g
        /\ Correct(q, Cards).corrected = (f # 0)
        /\ Correct(q, Cards).spread = (IF near = {} THEN 0 ELSE h)
    BY Zenon DEF Correct, Spread, Total
  <2>2. f # 0
    BY <2>1 DEF Screen
  <2>3. near # {}
    <3> SUFFICES ASSUME near = {}
                 PROVE  f = 0
      BY <2>2
    <3> HIDE DEF F, near
    <3> QED
      BY <1>1, SumStep
  <2>4. Correct(q, Cards).spread = h
    BY <2>1, <2>3
  <2>5. g + h + f * (u + radius) <= f * q.threshold
    <3> HIDE DEF f, g, h, near
    <3> QED
      BY <2>1, <2>4 DEF Screen
  <2> QED
    BY <2>2, <2>5
<1> HIDE DEF f, g, h, u
<1>8. f * (u + rho) <= f * q.threshold
  <2>1. /\ f * ((rho - radius) + (u + radius)) = f * (rho - radius) + f * (u + radius)
        /\ f * (rho - radius) \in Int /\ f * (u + radius) \in Int
    BY <1>3, <1>5, Distributes
  <2>2. (rho - radius) + (u + radius) = u + rho /\ (rho - radius) * f = f * (rho - radius)
    BY <1>3, <1>5
  <2>3. f * (u + rho) = f * (rho - radius) + f * (u + radius) /\ f * q.threshold \in Int
    BY <1>3, <1>5, <2>1, <2>2
  <2> QED
    BY <1>3, <1>6, <1>7, <2>1, <2>2, <2>3
<1>9. u + rho <= q.threshold
  <2> SUFFICES ASSUME u + rho > q.threshold
               PROVE  FALSE
    BY <1>5
  <2>1. f \in Nat \ {0} /\ (u + rho) - q.threshold \in Nat \ {0}
    BY <1>3, <1>4, <1>5, <1>7
  <2>2. PICK d \in Nat \ {0} : u + rho = q.threshold + d
    <3>1. u + rho = q.threshold + ((u + rho) - q.threshold)
      BY <1>5
    <3> QED
      BY <2>1, <3>1
  <2>3. f * (q.threshold + d) = f * q.threshold + f * d /\ f * q.threshold \in Int
    BY <1>3, <1>5, Distributes
  <2>4. f * d \in Nat \ {0}
    BY <2>1
  <2> QED
    BY <1>8, <2>2, <2>3, <2>4
<1> QED
  BY <1>5, <1>9 DEF u

-------------------------------------------------------------------------------
(* The states as sums over the archive.  The tables that the resolver gives   *)
(* for the cards are functions, so that a step that leaves the maps alone     *)
(* leaves the tables alone.                                                   *)

Kinds == {"direct", "transported", "reject"}

Kind == [c \in Raw |-> Resolve(c.protocol, Target).kind]
Information == [c \in Raw |-> InformationOf(Resolve(c.protocol, Target))]
Response == [c \in Raw |-> InformationOf(Resolve(c.protocol, Target)) * Transferred(c, Target)]
Gain == [c \in Raw |-> c.energy - c.base]

LegalAt(kind, S, v) == {c \in S : kind[c] # "reject" /\ c.embedding = v}
WithKind(kind, S, k) == {c \in S : kind[c] = k}
At(S, v) == {c \in S : c.embedding = v}

\* What the legal cards of S sum to, embedding by embedding.
SumsAt(kind, F, S) == [v \in Embeddings |-> SumFunctionOnSet(F, LegalAt(kind, S, v))]

StateSum(kind, info, response, S) ==
  [precision   |-> SumsAt(kind, info, S),
   eta         |-> SumsAt(kind, response, S),
   direct      |-> Cardinality(WithKind(kind, S, "direct")),
   transported |-> Cardinality(WithKind(kind, S, "transported")),
   rejected    |-> Cardinality(WithKind(kind, S, "reject"))]

CorrectionSum(S) ==
  [precision   |-> [v \in Embeddings |-> Cardinality(At(S, v))],
   eta         |-> [v \in Embeddings |-> SumFunctionOnSet(Gain, At(S, v))],
   direct      |-> Cardinality(S), transported |-> 0, rejected |-> 0]

Own == {c \in Cards : c.protocol = Target}

OnePerIdentity == \A i, j \in DOMAIN archive : archive[i].id = archive[j].id => i = j

FlowInv ==
  /\ FlowTyped /\ OnePerIdentity
  /\ state = StateSum(Kind, Information, Response, Cards)
  /\ correction = CorrectionSum(Own)

LEMMA TablesAreTyped ==
  ASSUME FlowTyped
  PROVE  Kind \in [Raw -> Kinds] /\ Information \in [Raw -> Int] /\ Response \in [Raw -> Int]
<1>1. ASSUME NEW c \in Raw
      PROVE  /\ Resolve(c.protocol, Target).kind \in Kinds
             /\ InformationOf(Resolve(c.protocol, Target)) \in Int
             /\ Transferred(c, Target) \in Int
  <2> DEFINE r == Resolve(c.protocol, Target).radius
  <2>1. /\ Resolve(c.protocol, Target).kind \in Kinds
        /\ r \in Nat /\ Resolve(c.protocol, Target).shift \in Int
    BY ResolveFacts DEF Kinds
  <2>2. InformationOf(Resolve(c.protocol, Target)) = 10 \div (1 + r * r)
    BY DEF InformationOf
  <2> HIDE DEF r
  <2>3. r * r \in Nat
    BY <2>1
  <2>4. 10 \div (1 + r * r) \in Int
    BY <2>3
  <2>5. c.residual \in Int
    BY EvidenceAssumption
  <2> QED
    BY <2>1, <2>2, <2>4, <2>5 DEF Transferred
<1>2. ASSUME NEW c \in Raw
      PROVE  InformationOf(Resolve(c.protocol, Target)) * Transferred(c, Target) \in Int
  BY <1>1, Distributes
<1> QED
  BY <1>1, <1>2 DEF Kind, Information, Response

\* One more card adds its value to the sum at its own embedding.
LEMMA CardAdds ==
  ASSUME NEW F \in [Raw -> Int], NEW T \in SUBSET Raw, IsFiniteSet(T), NEW c \in Raw \ T
  PROVE  SumFunctionOnSet(F, T \union {c}) = SumFunctionOnSet(F, T) + F[c]
<1>1. /\ F \in [Raw -> Int] /\ T \in SUBSET Raw /\ c \in Raw \ T /\ T \subseteq Raw
      /\ \A y \in T : F[y] = F[y]
  OBVIOUS
<1>2. SumFunctionOnSet(F, T \union {c}) = F[c] + SumFunctionOnSet(F, T)
  BY <1>1, SumGrows
<1>3. SumFunctionOnSet(F, T) \in Int /\ F[c] \in Int
  BY SumAdds
<1> QED
  BY <1>2, <1>3

LEMMA LegalGrows ==
  ASSUME NEW kind \in [Raw -> Kinds], NEW F \in [Raw -> Int], NEW S \in SUBSET Raw,
         IsFiniteSet(S), NEW c \in Raw \ S
  PROVE  /\ SumsAt(kind, F, S) \in [Embeddings -> Int]
         /\ SumsAt(kind, F, S \union {c}) \in [Embeddings -> Int]
         /\ \A v \in Embeddings :
              IF kind[c] # "reject" /\ c.embedding = v
              THEN SumsAt(kind, F, S \union {c})[v] = SumsAt(kind, F, S)[v] + F[c]
              ELSE SumsAt(kind, F, S \union {c})[v] = SumsAt(kind, F, S)[v]
<1> DEFINE now(v) == LegalAt(kind, S, v)
           next(v) == LegalAt(kind, S \union {c}, v)
<1>1. ASSUME NEW v
      PROVE  next(v) = IF kind[c] # "reject" /\ c.embedding = v THEN now(v) \union {c} ELSE now(v)
  BY DEF LegalAt
<1>2. ASSUME NEW v
      PROVE  now(v) \in SUBSET Raw /\ IsFiniteSet(now(v)) /\ c \in Raw \ now(v)
  <2>1. now(v) \in SUBSET S
    BY DEF LegalAt
  <2> HIDE DEF now
  <2> QED
    BY <2>1, FS_Subset
<1> HIDE DEF now, next
<1>3. ASSUME NEW v
      PROVE  /\ SumFunctionOnSet(F, now(v)) \in Int /\ SumFunctionOnSet(F, next(v)) \in Int
             /\ IF kind[c] # "reject" /\ c.embedding = v
                THEN SumFunctionOnSet(F, next(v)) = SumFunctionOnSet(F, now(v)) + F[c]
                ELSE SumFunctionOnSet(F, next(v)) = SumFunctionOnSet(F, now(v))
  <2>1. SumFunctionOnSet(F, now(v)) \in Int /\ F[c] \in Int
    BY <1>2, SumAdds
  <2>2. SumFunctionOnSet(F, now(v) \union {c}) = SumFunctionOnSet(F, now(v)) + F[c]
    BY <1>2, CardAdds
  <2>3. CASE kind[c] # "reject" /\ c.embedding = v
    <3>1. next(v) = now(v) \union {c}
      BY <1>1, <2>3
    <3>2. SumFunctionOnSet(F, next(v)) = SumFunctionOnSet(F, now(v)) + F[c]
      BY <2>2, <3>1
    <3> QED
      BY <2>1, <2>3, <3>2
  <2>4. CASE ~(kind[c] # "reject" /\ c.embedding = v)
    BY <1>1, <2>1, <2>4
  <2> QED
    BY <2>3, <2>4
<1>4. /\ SumsAt(kind, F, S) = [v \in Embeddings |-> SumFunctionOnSet(F, now(v))]
      /\ SumsAt(kind, F, S \union {c}) = [v \in Embeddings |-> SumFunctionOnSet(F, next(v))]
  BY DEF SumsAt, now, next
<1> QED
  BY <1>3, <1>4

LEMMA KindGrows ==
  ASSUME NEW kind \in [Raw -> Kinds], NEW S \in SUBSET Raw, IsFiniteSet(S), NEW c \in Raw \ S, NEW k
  PROVE  /\ Cardinality(WithKind(kind, S, k)) \in Nat
         /\ Cardinality(WithKind(kind, S \union {c}, k))
              = Cardinality(WithKind(kind, S, k)) + (IF kind[c] = k THEN 1 ELSE 0)
<1> DEFINE now == WithKind(kind, S, k)
           next == WithKind(kind, S \union {c}, k)
<1>1. next = (IF kind[c] = k THEN now \union {c} ELSE now) /\ now \in SUBSET S /\ c \notin now
  BY DEF WithKind
<1> HIDE DEF now, next
<1>2. IsFiniteSet(now) /\ Cardinality(now) \in Nat
  BY <1>1, FS_Subset, FS_CardinalityType
<1>3. Cardinality(now \union {c}) = Cardinality(now) + 1
  BY <1>1, <1>2, FS_AddElement
<1>4. Cardinality(next) = Cardinality(now) + (IF kind[c] = k THEN 1 ELSE 0)
  BY <1>1, <1>2, <1>3
<1> QED
  BY <1>2, <1>4 DEF now, next

States == [precision : [Embeddings -> Int], eta : [Embeddings -> Int],
           direct : Int, transported : Int, rejected : Int]

\* Two states with the same fields are the same.
LEMMA StateFields ==
  ASSUME NEW s \in States, NEW t \in States,
         s.precision = t.precision, s.eta = t.eta, s.direct = t.direct,
         s.transported = t.transported, s.rejected = t.rejected
  PROVE  s = t
  BY DEF States

LEMMA SumIsState ==
  ASSUME NEW kind \in [Raw -> Kinds], NEW info \in [Raw -> Int], NEW response \in [Raw -> Int],
         NEW S \in SUBSET Raw, IsFiniteSet(S), NEW c \in Raw \ S
  PROVE  StateSum(kind, info, response, S) \in States
         /\ StateSum(kind, info, response, S \union {c}) \in States
<1>1. /\ SumsAt(kind, info, S) \in [Embeddings -> Int]
      /\ SumsAt(kind, info, S \union {c}) \in [Embeddings -> Int]
      /\ SumsAt(kind, response, S) \in [Embeddings -> Int]
      /\ SumsAt(kind, response, S \union {c}) \in [Embeddings -> Int]
  BY LegalGrows
<1>2. \A k : /\ Cardinality(WithKind(kind, S, k)) \in Nat
             /\ Cardinality(WithKind(kind, S \union {c}, k)) \in Nat
  <2> TAKE k
  <2>1. /\ Cardinality(WithKind(kind, S, k)) \in Nat
        /\ Cardinality(WithKind(kind, S \union {c}, k))
             = Cardinality(WithKind(kind, S, k)) + (IF kind[c] = k THEN 1 ELSE 0)
    BY KindGrows
  <2> QED
    BY <2>1
<1>3. /\ Cardinality(WithKind(kind, S, "direct")) \in Int
      /\ Cardinality(WithKind(kind, S, "transported")) \in Int
      /\ Cardinality(WithKind(kind, S, "reject")) \in Int
      /\ Cardinality(WithKind(kind, S \union {c}, "direct")) \in Int
      /\ Cardinality(WithKind(kind, S \union {c}, "transported")) \in Int
      /\ Cardinality(WithKind(kind, S \union {c}, "reject")) \in Int
  BY <1>2
<1>4. StateSum(kind, info, response, S) \in States
  BY <1>1, <1>3 DEF StateSum, States
<1>5. StateSum(kind, info, response, S \union {c}) \in States
  BY <1>1, <1>3 DEF StateSum, States
<1> QED
  BY <1>4, <1>5

LEMMA StateGrows ==
  ASSUME FlowTyped, NEW S \in SUBSET Raw, IsFiniteSet(S), NEW c \in Raw \ S
  PROVE  StateAfter(StateSum(Kind, Information, Response, S), c)
           = StateSum(Kind, Information, Response, S \union {c})
<1> DEFINE s == StateSum(Kind, Information, Response, S)
           t == StateSum(Kind, Information, Response, S \union {c})
           x == c.embedding
           k == Kind[c]
           i == Information[c]
           y == Response[c]
           q == StateAfter(s, c)
<1>1. Kind \in [Raw -> Kinds] /\ Information \in [Raw -> Int] /\ Response \in [Raw -> Int]
  BY TablesAreTyped
<1>2. s \in States /\ t \in States
  BY <1>1, SumIsState
<1>3. /\ \A v \in Embeddings :
           IF k # "reject" /\ x = v
           THEN t.precision[v] = s.precision[v] + i /\ t.eta[v] = s.eta[v] + y
           ELSE t.precision[v] = s.precision[v] /\ t.eta[v] = s.eta[v]
      /\ t.direct = s.direct + (IF k = "direct" THEN 1 ELSE 0)
      /\ t.transported = s.transported + (IF k = "transported" THEN 1 ELSE 0)
      /\ t.rejected = s.rejected + (IF k = "reject" THEN 1 ELSE 0)
  <2>1. \A v \in Embeddings :
          IF k # "reject" /\ x = v
          THEN SumsAt(Kind, Information, S \union {c})[v] = SumsAt(Kind, Information, S)[v] + i
          ELSE SumsAt(Kind, Information, S \union {c})[v] = SumsAt(Kind, Information, S)[v]
    BY <1>1, LegalGrows
  <2>4. \A v \in Embeddings :
          IF k # "reject" /\ x = v
          THEN SumsAt(Kind, Response, S \union {c})[v] = SumsAt(Kind, Response, S)[v] + y
          ELSE SumsAt(Kind, Response, S \union {c})[v] = SumsAt(Kind, Response, S)[v]
    BY <1>1, LegalGrows
  <2>2. \A z : Cardinality(WithKind(Kind, S \union {c}, z))
                 = Cardinality(WithKind(Kind, S, z)) + (IF k = z THEN 1 ELSE 0)
    BY <1>1, KindGrows
  <2>3. \A U : /\ StateSum(Kind, Information, Response, U).precision = SumsAt(Kind, Information, U)
               /\ StateSum(Kind, Information, Response, U).eta = SumsAt(Kind, Response, U)
               /\ StateSum(Kind, Information, Response, U).direct = Cardinality(WithKind(Kind, U, "direct"))
               /\ StateSum(Kind, Information, Response, U).transported
                    = Cardinality(WithKind(Kind, U, "transported"))
               /\ StateSum(Kind, Information, Response, U).rejected = Cardinality(WithKind(Kind, U, "reject"))
    BY DEF StateSum
  <2> HIDE DEF k, i, y, x
  <2> QED
    BY <2>1, <2>2, <2>3, <2>4
<1>4. /\ k = Resolve(c.protocol, Target).kind /\ i = InformationOf(Resolve(c.protocol, Target))
      /\ y = InformationOf(Resolve(c.protocol, Target)) * Transferred(c, Target)
      /\ k \in Kinds /\ i \in Int /\ y \in Int /\ x \in Embeddings
  BY <1>1 DEF Kind, Information, Response, Embeddings
<1>5. q = IF k = "reject" THEN [s EXCEPT !.rejected = @ + 1]
          ELSE [s EXCEPT !.precision[x] = @ + i, !.eta[x] = @ + y,
                         !.direct = @ + (IF k = "direct" THEN 1 ELSE 0),
                         !.transported = @ + (IF k = "transported" THEN 1 ELSE 0)]
  BY <1>4, Zenon DEF StateAfter
<1> HIDE DEF s, t, q, k, i, y, x
<1>6. CASE k = "reject"
  <2>1. q = [s EXCEPT !.rejected = @ + 1]
    BY <1>5, <1>6
  <2>2. q \in States
    BY <1>2, <2>1 DEF States
  <2>3. /\ q.precision = s.precision /\ q.eta = s.eta /\ q.direct = s.direct
        /\ q.transported = s.transported /\ q.rejected = s.rejected + 1
    BY <1>2, <2>1 DEF States
  <2>4. /\ s.direct \in Int /\ s.transported \in Int
        /\ s.precision \in [Embeddings -> Int] /\ s.eta \in [Embeddings -> Int]
        /\ t.precision \in [Embeddings -> Int] /\ t.eta \in [Embeddings -> Int]
    BY <1>2 DEF States
  <2>5. t.precision = s.precision /\ t.eta = s.eta
    BY <1>3, <1>6, <2>4
  <2>6. t.direct = s.direct /\ t.transported = s.transported /\ t.rejected = s.rejected + 1
    BY <1>3, <1>6, <2>4
  <2>7. q = t
    BY <1>2, <2>2, <2>3, <2>5, <2>6, StateFields
  <2> QED
    BY <2>7 DEF q, s, t
<1>7. CASE k # "reject"
  <2> DEFINE a == IF k = "direct" THEN 1 ELSE 0
             b == IF k = "transported" THEN 1 ELSE 0
  <2>1. /\ s.direct \in Int /\ s.transported \in Int /\ s.rejected \in Int
        /\ s.precision \in [Embeddings -> Int] /\ s.eta \in [Embeddings -> Int]
        /\ t.precision \in [Embeddings -> Int] /\ t.eta \in [Embeddings -> Int]
        /\ t.direct \in Int /\ t.transported \in Int /\ t.rejected \in Int
    BY <1>2 DEF States
  <2>2. [s.precision EXCEPT ![x] = @ + i] = t.precision /\ [s.eta EXCEPT ![x] = @ + y] = t.eta
    BY <1>3, <1>4, <1>7, <2>1
  <2>3. s.direct + a = t.direct /\ s.transported + b = t.transported /\ s.rejected = t.rejected
    BY <1>3, <1>7, <2>1
  <2>4. q = [s EXCEPT !.precision = t.precision, !.eta = t.eta, !.direct = t.direct,
                      !.transported = t.transported]
    BY <1>5, <1>7, <2>2, <2>3
  <2>5. q \in States
    BY <1>2, <2>1, <2>4 DEF States
  <2>6. /\ q.precision = t.precision /\ q.eta = t.eta /\ q.direct = t.direct
        /\ q.transported = t.transported /\ q.rejected = t.rejected
    BY <1>2, <2>3, <2>4 DEF States
  <2>7. q = t
    BY <1>2, <2>5, <2>6, StateFields
  <2> QED
    BY <2>7 DEF q, s, t
<1> QED
  BY <1>6, <1>7

LEMMA CorrectionGrows ==
  ASSUME NEW S \in SUBSET Raw, IsFiniteSet(S), NEW c \in Raw \ S
  PROVE  CorrectionAfter(CorrectionSum(S), c) = CorrectionSum(S \union {c})
<1> DEFINE T == S \union {c}
           p(U) == [v \in Embeddings |-> Cardinality(At(U, v))]
           e(U) == [v \in Embeddings |-> SumFunctionOnSet(Gain, At(U, v))]
           x == c.embedding
<1>1. Gain \in [Raw -> Int] /\ Gain[c] = c.energy - c.base /\ c.energy \in Int /\ c.base \in Int
  <2>1. \A d \in Raw : d.energy \in Int /\ d.base \in Int
    BY EvidenceAssumption
  <2> QED
    BY <2>1 DEF Gain
<1>2. ASSUME NEW v
      PROVE  /\ At(T, v) = (IF x = v THEN At(S, v) \union {c} ELSE At(S, v))
             /\ At(S, v) \in SUBSET Raw /\ IsFiniteSet(At(S, v)) /\ c \in Raw \ At(S, v)
             /\ Cardinality(At(S, v)) \in Nat
  <2>1. /\ At(T, v) = (IF x = v THEN At(S, v) \union {c} ELSE At(S, v))
        /\ At(S, v) \in SUBSET S
    BY DEF At
  <2> QED
    BY <2>1, FS_Subset, FS_CardinalityType
<1>3. x \in Embeddings
  BY DEF Embeddings
<1>4. ASSUME NEW v \in Embeddings
      PROVE  /\ Cardinality(At(T, v)) = IF v = x THEN Cardinality(At(S, v)) + 1
                                        ELSE Cardinality(At(S, v))
             /\ SumFunctionOnSet(Gain, At(S, v)) \in Int
             /\ SumFunctionOnSet(Gain, At(T, v))
                  = IF v = x THEN SumFunctionOnSet(Gain, At(S, v)) + Gain[c]
                    ELSE SumFunctionOnSet(Gain, At(S, v))
  <2> HIDE DEF T, x
  <2>1. Cardinality(At(S, v) \union {c}) = Cardinality(At(S, v)) + 1
    BY <1>2, FS_AddElement
  <2>2. SumFunctionOnSet(Gain, At(S, v) \union {c}) = SumFunctionOnSet(Gain, At(S, v)) + Gain[c]
    BY <1>1, <1>2, CardAdds
  <2>3. SumFunctionOnSet(Gain, At(S, v)) \in Int
    BY <1>1, <1>2, SumAdds
  <2> QED
    BY <1>2, <2>1, <2>2, <2>3
<1>5. /\ p(T) = [p(S) EXCEPT ![x] = @ + 1]
      /\ e(T) = [e(S) EXCEPT ![x] = @ + c.energy - c.base]
  <2>1. ASSUME NEW a \in Int
        PROVE  a + c.energy - c.base = a + Gain[c]
    BY <1>1
  <2> HIDE DEF T, x
  <2> QED
    BY <1>3, <1>4, <2>1
<1>6. Cardinality(T) = Cardinality(S) + 1
  BY FS_AddElement
<1>7. \A U : CorrectionSum(U) = [precision |-> p(U), eta |-> e(U), direct |-> Cardinality(U),
                                 transported |-> 0, rejected |-> 0]
  BY DEF CorrectionSum
<1>8. CorrectionAfter(CorrectionSum(S), c)
        = [CorrectionSum(S) EXCEPT !.precision[x] = @ + 1,
             !.eta[x] = @ + c.energy - c.base, !.direct = @ + 1]
  BY DEF CorrectionAfter
<1> HIDE DEF p, e, T, x
<1> QED
  BY <1>5, <1>6, <1>7, <1>8 DEF T

-------------------------------------------------------------------------------

\* What a state of sums is for the archive.
LEMMA SumIsStateOf ==
  ASSUME FlowTyped
  PROVE  StateSum(Kind, Information, Response, Cards) = StateOf(Cards)
<1> DEFINE at(v) == {c \in Cards : Legal(c, Target) /\ c.embedding = v}
           info(v) == [x \in at(v) |-> InformationOf(Resolve(x.protocol, Target))]
           resp(v) == [x \in at(v) |-> InformationOf(Resolve(x.protocol, Target)) * Transferred(x, Target)]
<1>1. IsFiniteSet(Cards) /\ Cards \subseteq Raw
  BY CardsAreFinite
<1>2. ASSUME NEW v
      PROVE  /\ LegalAt(Kind, Cards, v) = at(v)
             /\ SumFunctionOnSet(Information, at(v)) = SumFunctionOnSet(info(v), at(v))
             /\ SumFunctionOnSet(Response, at(v)) = SumFunctionOnSet(resp(v), at(v))
  <2>1. LegalAt(Kind, Cards, v) = at(v)
    BY <1>1 DEF LegalAt, Kind, Legal
  <2>2. IsFiniteSet(at(v)) /\ at(v) \subseteq Raw
    <3>1. at(v) \in SUBSET Cards
      OBVIOUS
    <3> HIDE DEF at
    <3> QED
      BY <1>1, <3>1, FS_Subset
  <2>3. \A x \in at(v) : Information[x] = info(v)[x] /\ Response[x] = resp(v)[x]
    BY <2>2 DEF Information, Response
  <2> HIDE DEF at, info, resp
  <2>4. SumFunctionOnSet(Information, at(v)) = SumFunctionOnSet(info(v), at(v))
    BY <2>2, <2>3, SumSame
  <2>5. SumFunctionOnSet(Response, at(v)) = SumFunctionOnSet(resp(v), at(v))
    BY <2>2, <2>3, SumSame
  <2> QED
    BY <2>1, <2>4, <2>5
<1>3. \A k : WithKind(Kind, Cards, k) = {c \in Cards : Resolve(c.protocol, Target).kind = k}
  BY <1>1 DEF WithKind, Kind
<1>4. SumsAt(Kind, Information, Cards) = [v \in Embeddings |-> SumFunctionOnSet(info(v), at(v))]
  <2> HIDE DEF at, info, resp
  <2> QED
    BY <1>2 DEF SumsAt
<1>5. SumsAt(Kind, Response, Cards) = [v \in Embeddings |-> SumFunctionOnSet(resp(v), at(v))]
  <2> HIDE DEF at, info, resp
  <2> QED
    BY <1>2 DEF SumsAt
<1> QED
  BY <1>3, <1>4, <1>5, Zenon DEF StateSum, StateOf, Total

LEMMA SumIsCorrectionOf ==
  ASSUME FlowTyped
  PROVE  CorrectionSum(Own) = CorrectionOf(Own)
<1> DEFINE gain(v) == [x \in At(Own, v) |-> x.energy - x.base]
           p == [v \in Embeddings |-> Cardinality(At(Own, v))]
           e == [v \in Embeddings |-> SumFunctionOnSet(gain(v), At(Own, v))]
<1>1. IsFiniteSet(Own) /\ Own \subseteq Raw
  <2>1. Own \in SUBSET Cards
    BY DEF Own
  <2> QED
    BY <2>1, CardsAreFinite, FS_Subset
<1>2. ASSUME NEW v
      PROVE  /\ IsFiniteSet(At(Own, v)) /\ Cardinality(At(Own, v)) \in Nat
             /\ SumFunctionOnSet(Gain, At(Own, v)) = SumFunctionOnSet(gain(v), At(Own, v))
             /\ SumFunctionOnSet(Gain, At(Own, v)) \in Int
  <2>1. At(Own, v) \in SUBSET Own
    BY DEF At
  <2>2. IsFiniteSet(At(Own, v)) /\ At(Own, v) \in SUBSET Raw /\ Cardinality(At(Own, v)) \in Nat
    BY <1>1, <2>1, FS_Subset, FS_CardinalityType
  <2>3. \A x \in At(Own, v) : Gain[x] = gain(v)[x]
    BY <2>2 DEF Gain
  <2>4. Gain \in [Raw -> Int]
    <3>1. \A d \in Raw : d.energy \in Int /\ d.base \in Int
      BY EvidenceAssumption
    <3> QED
      BY <3>1 DEF Gain
  <2> HIDE DEF gain
  <2>5. SumFunctionOnSet(Gain, At(Own, v)) = SumFunctionOnSet(gain(v), At(Own, v))
    BY <2>2, <2>3, SumSame
  <2> QED
    BY <2>2, <2>4, <2>5, SumAdds
<1>3. Cardinality(Own) \in Nat
  BY <1>1, FS_CardinalityType
<1>4. CorrectionSum(Own) = [precision |-> p, eta |-> e, direct |-> Cardinality(Own),
                            transported |-> 0, rejected |-> 0]
  <2>1. [v \in Embeddings |-> SumFunctionOnSet(Gain, At(Own, v))] = e
    <3> HIDE DEF gain
    <3> QED
      BY <1>2
  <2> QED
    BY <2>1, Zenon DEF CorrectionSum
<1>5. p \in [Embeddings -> Int] /\ e \in [Embeddings -> Int]
  <2> HIDE DEF gain
  <2> QED
    BY <1>2
<1>6. CorrectionOf(Own) = [Empty EXCEPT !.precision = p, !.eta = e, !.direct = Cardinality(Own)]
  BY Zenon DEF CorrectionOf, At, Total
<1> HIDE DEF p, e
<1>7. Empty \in States /\ Empty.transported = 0 /\ Empty.rejected = 0
  BY DEF Empty, States
<1>8. CorrectionOf(Own) \in States
  <2>1. Cardinality(Own) \in Int
    BY <1>3
  <2> QED
    BY <1>5, <1>6, <1>7, <2>1 DEF States
<1>9. CorrectionSum(Own) \in States
  BY <1>3, <1>4, <1>5 DEF States
<1>10. /\ CorrectionSum(Own).precision = CorrectionOf(Own).precision
       /\ CorrectionSum(Own).eta = CorrectionOf(Own).eta
       /\ CorrectionSum(Own).direct = CorrectionOf(Own).direct
       /\ CorrectionSum(Own).transported = CorrectionOf(Own).transported
       /\ CorrectionSum(Own).rejected = CorrectionOf(Own).rejected
  BY <1>4, <1>6, <1>7 DEF States
<1> QED
  BY <1>8, <1>9, <1>10, StateFields

\* The ids of cards count the cards.
LEMMA IdsCount ==
  ASSUME FlowTyped, OnePerIdentity, NEW A \in SUBSET Cards
  PROVE  IsFiniteSet(A) /\ Cardinality({c.id : c \in A}) = Cardinality(A)
<1> DEFINE I == {c.id : c \in A}
           f == [c \in A |-> c.id]
<1>1. IsFiniteSet(A)
  BY CardsAreFinite, FS_Subset
<1>2. \A c, d \in A : c.id = d.id => c = d
  BY DEF OnePerIdentity, Cards, ToSet
<1>3. f \in Surjection(A, I) /\ f \in Injection(A, I)
  BY <1>2 DEF Surjection, Injection, IsInjective
<1> QED
  BY <1>1, <1>3, FS_Surjection

LEMMA ArchiveCounts ==
  ASSUME FlowTyped, OnePerIdentity
  PROVE  Cardinality(Cards) = Len(archive)
<1>1. archive \in Seq(Raw) /\ Len(archive) \in Nat /\ DOMAIN archive = 1..Len(archive)
  BY DEF FlowTyped
<1>2. \A i, j \in DOMAIN archive : archive[i] = archive[j] => i = j
  BY DEF OnePerIdentity
<1>3. /\ archive \in Surjection(1..Len(archive), Cards)
      /\ archive \in Injection(1..Len(archive), Cards)
  BY <1>1, <1>2 DEF Surjection, Injection, IsInjective, Cards, ToSet
<1>4. IsFiniteSet(1..Len(archive)) /\ Cardinality(1..Len(archive)) = Len(archive)
  BY <1>1, FS_Interval
<1> QED
  BY <1>3, <1>4, FS_Surjection

\* Three parts that do not meet, counted.
LEMMA TwoParts ==
  ASSUME NEW A, NEW B, IsFiniteSet(A), IsFiniteSet(B), A \intersect B = {}
  PROVE  /\ IsFiniteSet(A \union B) /\ Cardinality(A \union B) = Cardinality(A) + Cardinality(B)
         /\ Cardinality(A) \in Nat /\ Cardinality(B) \in Nat /\ Cardinality(A \union B) \in Nat
<1>1. Cardinality(A) \in Nat /\ Cardinality(B) \in Nat /\ IsFiniteSet(A \union B)
  BY FS_CardinalityType, FS_Union
<1>2. Cardinality(A \union B) = Cardinality(A) + Cardinality(B) - Cardinality({})
  BY FS_Union
<1>3. Cardinality({}) = 0
  BY FS_EmptySet
<1> QED
  BY <1>1, <1>2, <1>3, FS_CardinalityType

LEMMA AnyEvidenceIsOne ==
  ASSUME FlowInv
  PROVE  OneEvidence
<1>1. FlowTyped /\ OnePerIdentity /\ state = StateOf(Cards) /\ correction = CorrectionOf(Own)
  BY SumIsStateOf, SumIsCorrectionOf DEF FlowInv
<1>2. ASSUME NEW c, NEW q
      PROVE  /\ Resolve(c.protocol, q.protocol).kind \in {"direct", "transported", "reject"}
             /\ Legal(c, q.protocol) <=> Certified(c, q)
             /\ c.protocol = q.protocol => Resolve(c.protocol, q.protocol).kind = "direct"
  <2>1. Resolve(c.protocol, q.protocol).kind \in {"direct", "transported", "reject"}
    BY <1>1, ResolveFacts
  <2>2. Legal(c, q.protocol) <=> Certified(c, q)
    <3> DEFINE known == {k \in DOMAIN maps : maps[k].source = c.protocol /\ maps[k].target = q.protocol}
    <3>1. Certified(c, q) <=> (c.protocol = q.protocol \/ known # {})
      BY DEF Certified
    <3>2. Resolve(c.protocol, q.protocol).kind
            = IF c.protocol = q.protocol THEN "direct" ELSE IF known = {} THEN "reject" ELSE "transported"
      BY DEF Resolve
    <3> HIDE DEF known
    <3> QED
      BY <3>1, <3>2 DEF Legal
  <2>3. c.protocol = q.protocol => Resolve(c.protocol, q.protocol).kind = "direct"
    BY DEF Resolve
  <2> QED
    BY <2>1, <2>2, <2>3
<1>3. ASSUME NEW q \in Queries, NEW gate \in Gates
      PROVE  LET audit == Audit(q, Cards, gate)
                 ids(cards) == {c.id : c \in cards}
                 active == Activated(q, Cards, gate)
             IN  /\ View(q, Cards) = {c \in Cards : Certified(c, q)}
                 /\ gate = NoGate => active = View(q, Cards)
                 /\ {c \in Cards : c.protocol = q.protocol} \subseteq active
                 /\ ids(active) = audit.direct \union audit.transported
                 /\ ids(Cards) = ids(active) \union audit.incompatible \union audit.uncertain
                 /\ Len(archive) = Cardinality(audit.direct) + Cardinality(audit.transported)
                                     + Cardinality(audit.incompatible) + Cardinality(audit.uncertain)
                 /\ Correct(q, active).near \subseteq active
  <2> DEFINE found(c) == Resolve(c.protocol, q.protocol)
             passes(c) == gate = NoGate \/ found(c).radius <= gate
             ids(S) == {c.id : c \in S}
             D == {c \in Cards : found(c).kind = "direct"}
             T == {c \in Cards : found(c).kind = "transported" /\ passes(c)}
             R == {c \in Cards : found(c).kind = "reject"}
             U == {c \in Cards : found(c).kind = "transported" /\ ~passes(c)}
             active == Activated(q, Cards, gate)
             audit == Audit(q, Cards, gate)
  <2>1. /\ audit.direct = ids(D) /\ audit.transported = ids(T)
        /\ audit.incompatible = ids(R) /\ audit.uncertain = ids(U)
    BY DEF Audit
  <2>2. active = D \union T
    BY DEF Activated
  <2>3. /\ Cards = (D \union T) \union (R \union U)
        /\ D \intersect T = {} /\ R \intersect U = {}
        /\ (D \union T) \intersect (R \union U) = {}
        /\ D \in SUBSET Cards /\ T \in SUBSET Cards /\ R \in SUBSET Cards /\ U \in SUBSET Cards
    BY <1>2
  <2>4. View(q, Cards) = {c \in Cards : Certified(c, q)}
    BY <1>2 DEF View
  <2>5. gate = NoGate => active = View(q, Cards)
    BY <1>2, <2>2 DEF View, Legal
  <2>6. {c \in Cards : c.protocol = q.protocol} \subseteq active
    BY <1>2, <2>2
  <2>7. Correct(q, active).near \subseteq active
    BY DEF Correct, Neighbors
  <2> HIDE DEF D, T, R, U, active, audit
  <2>8. ids(active) = audit.direct \union audit.transported
    BY <2>1, <2>2
  <2>9. ids(Cards) = ids(active) \union audit.incompatible \union audit.uncertain
    BY <2>1, <2>2, <2>3
  <2>10. /\ IsFiniteSet(D) /\ IsFiniteSet(T) /\ IsFiniteSet(R) /\ IsFiniteSet(U)
         /\ Cardinality(ids(D)) = Cardinality(D) /\ Cardinality(ids(T)) = Cardinality(T)
         /\ Cardinality(ids(R)) = Cardinality(R) /\ Cardinality(ids(U)) = Cardinality(U)
    BY <1>1, <2>3, IdsCount
  <2>11. Len(archive) = Cardinality(audit.direct) + Cardinality(audit.transported)
                          + Cardinality(audit.incompatible) + Cardinality(audit.uncertain)
    <3>1. /\ Cardinality(D \union T) = Cardinality(D) + Cardinality(T)
          /\ Cardinality(D) \in Nat /\ Cardinality(T) \in Nat /\ IsFiniteSet(D \union T)
      BY <2>3, <2>10, TwoParts
    <3>2. /\ Cardinality(R \union U) = Cardinality(R) + Cardinality(U)
          /\ Cardinality(R) \in Nat /\ Cardinality(U) \in Nat /\ IsFiniteSet(R \union U)
      BY <2>3, <2>10, TwoParts
    <3>3. Cardinality((D \union T) \union (R \union U))
            = Cardinality(D \union T) + Cardinality(R \union U)
      BY <2>3, <3>1, <3>2, TwoParts
    <3>4. Len(archive) = Cardinality(D \union T) + Cardinality(R \union U)
      BY <1>1, <2>3, <3>3, ArchiveCounts
    <3>5. /\ Cardinality(audit.direct) = Cardinality(D)
          /\ Cardinality(audit.transported) = Cardinality(T)
          /\ Cardinality(audit.incompatible) = Cardinality(R)
          /\ Cardinality(audit.uncertain) = Cardinality(U)
      BY <2>1, <2>10
    <3> QED
      BY <3>1, <3>2, <3>4, <3>5
  <2> QED
    BY <2>4, <2>5, <2>6, <2>7, <2>8, <2>9, <2>11 DEF active, audit
<1>4. ASSUME NEW q \in Queries, q.protocol = Target
      PROVE  state.direct + state.transported = Cardinality(View(q, Cards))
  <2> DEFINE D == {c \in Cards : Resolve(c.protocol, Target).kind = "direct"}
             T == {c \in Cards : Resolve(c.protocol, Target).kind = "transported"}
  <2>1. state.direct = Cardinality(D) /\ state.transported = Cardinality(T)
    BY <1>1 DEF StateOf
  <2>2. View(q, Cards) = D \union T /\ D \intersect T = {} /\ D \in SUBSET Cards /\ T \in SUBSET Cards
    <3>1. \A c \in Cards : Legal(c, Target) <=> c \in D \union T
      BY <1>1, ResolveFacts DEF Legal
    <3> QED
      BY <1>4, <3>1 DEF View
  <2> HIDE DEF D, T
  <2>3. IsFiniteSet(D) /\ IsFiniteSet(T)
    BY <1>1, <2>2, IdsCount
  <2>4. Cardinality(D \union T) = Cardinality(D) + Cardinality(T)
    BY <2>2, <2>3, TwoParts
  <2> QED
    BY <2>1, <2>2, <2>4
<1> QED
  BY <1>1, <1>3, <1>4 DEF OneEvidence, Own

-------------------------------------------------------------------------------
(* The steps.                                                               *)

LEMMA FlowInitially ==
  ASSUME FlowInit
  PROVE  FlowInv
<1>1. maps \in Seq(Maps) /\ archive \in Seq(Raw) /\ archive = <<>> /\ radius = -1 /\ err \in ErrorTables
  BY DEF FlowInit
<1>2. Cards = {} /\ Own = {} /\ OnePerIdentity
  BY <1>1 DEF Cards, Own, OnePerIdentity, ToSet
<1>3. FlowTyped
  BY <1>1 DEF FlowTyped
<1>4. \A F : SumFunctionOnSet(F, {}) = 0
  BY FS_EmptySet, SumStep
<1>5. /\ \A v : LegalAt(Kind, {}, v) = {} /\ At({}, v) = {}
      /\ \A k : WithKind(Kind, {}, k) = {}
      /\ Cardinality({}) = 0
  BY FS_EmptySet DEF LegalAt, At, WithKind
<1>6. StateSum(Kind, Information, Response, {}) = Empty
  BY <1>4, <1>5 DEF StateSum, SumsAt, Empty
<1>7. CorrectionSum({}) = Empty
  BY <1>4, <1>5 DEF CorrectionSum, Empty
<1> QED
  BY <1>2, <1>3, <1>6, <1>7 DEF FlowInv, FlowInit

\* A radius of a fit is one of its errors, or none.
LEMMA RadiusTyped ==
  ASSUME FlowTyped, NEW S \in SUBSET MatchedPairs
  PROVE  SplitRadius(err, S) \in Nat \union {-1}
         /\ (S # {} => PooledRadius(err, S) \in Nat)
<1> DEFINE n == Cardinality(S)
<1>1. IsFiniteSet(S) /\ n \in Nat /\ (n = 0 <=> S = {}) /\ err \in [MatchedPairs -> Nat]
  BY FS_Subset, FS_CardinalityType, FS_EmptySet, EvidenceAssumption DEF FlowTyped
<1>2. err \in [MatchedPairs -> Int] /\ \A x \in {err[s] : s \in S} : x \in Nat
  BY <1>1
<1>3. Rank(n) \in Nat /\ Rank(n) # 0
  <2> HIDE DEF n
  <2> QED
    BY <1>1, RankFacts
<1>4. ASSUME NEW k \in Nat, k <= n, k # 0
      PROVE  Smallest(err, S, k) \in Nat
  BY <1>1, <1>2, <1>4, SmallestFacts
<1>5. SplitRadius(err, S) \in Nat \union {-1}
  <2> HIDE DEF n
  <2>1. CASE Rank(n) > n
    BY <2>1 DEF SplitRadius, n
  <2>2. CASE ~(Rank(n) > n)
    <3>1. Smallest(err, S, Rank(n)) \in Nat
      BY <1>1, <1>3, <1>4, <2>2
    <3> QED
      BY <2>2, <3>1 DEF SplitRadius, n
  <2> QED
    BY <2>1, <2>2
<1>6. ASSUME S # {}
      PROVE  PooledRadius(err, S) \in Nat
  <2> HIDE DEF n
  <2>1. IsFiniteSet({n, Rank(n)}) /\ {n, Rank(n)} \in SUBSET Int
    <3>1. {n, Rank(n)} = {n} \union {Rank(n)} /\ IsFiniteSet({n})
      BY FS_Singleton
    <3>2. IsFiniteSet({n} \union {Rank(n)})
      BY <3>1, FS_AddElement
    <3> QED
      BY <1>1, <1>3, <3>1, <3>2
  <2>2. Min({n, Rank(n)}) \in {n, Rank(n)} /\ Min({n, Rank(n)}) <= n
    BY <2>1, LeastOf
  <2>3. Smallest(err, S, Min({n, Rank(n)})) \in Nat
    BY <1>1, <1>3, <1>4, <1>6, <2>2
  <2> QED
    BY <2>3 DEF PooledRadius, n
<1> QED
  BY <1>5, <1>6

\* While nothing is archived the states do not depend on the maps.
LEMMA FitKeepsInv ==
  ASSUME FlowInv, NEW p \in Protocols, NEW q \in Protocols, NEW g \in Groupings,
         NEW i \in Intercepts, FitMap(p, q, g, i)
  PROVE  FlowInv'
<1>1. PICK r \in Radii(err, g) \ {-1} :
        maps' = Append(maps, [source |-> p, target |-> q, radius |-> r, intercept |-> i])
  BY DEF FitMap
<1>2. archive = <<>> /\ UNCHANGED <<err, archive, state, correction, radius>>
  BY DEF FitMap
<1>3. r \in Nat
  <2>1. g.fit \in SUBSET MatchedPairs /\ g.radius \in SUBSET MatchedPairs
    BY EvidenceAssumption
  <2>2. SplitRadius(err, g.radius) \in Nat \union {-1} /\ (g.fit # {} => PooledRadius(err, g.fit) \in Nat)
    BY <2>1, RadiusTyped DEF FlowInv
  <2>3. PooledIsLegal(g) => g.fit # {}
    <3> SUFFICES ASSUME g.fit = {}, Cardinality(StructuresOf(g.fit)) >= 3
                 PROVE  FALSE
      BY DEF PooledIsLegal
    <3>1. StructuresOf(g.fit) = {}
      BY DEF StructuresOf
    <3> QED
      BY <3>1, FS_EmptySet
  <2> QED
    BY <2>2, <2>3 DEF Radii
<1>4. FlowTyped'
  <2>1. [source |-> p, target |-> q, radius |-> r, intercept |-> i] \in Maps
    BY <1>3, EvidenceAssumption DEF Maps
  <2> QED
    BY <1>1, <1>2, <2>1 DEF FlowInv, FlowTyped
<1>5. Cards = {} /\ Own = {} /\ Cards' = {} /\ Own' = {}
  BY <1>2 DEF Cards, Own, ToSet
<1>6. \A F : SumFunctionOnSet(F, {}) = 0
  BY FS_EmptySet, SumStep
<1>7. \A kind, info, response : StateSum(kind, info, response, {})
        = [precision |-> [v \in Embeddings |-> 0], eta |-> [v \in Embeddings |-> 0],
           direct |-> 0, transported |-> 0, rejected |-> 0]
  <2>1. /\ \A kind, v : LegalAt(kind, {}, v) = {}
        /\ \A kind, k : WithKind(kind, {}, k) = {}
        /\ Cardinality({}) = 0
    BY FS_EmptySet DEF LegalAt, WithKind
  <2> QED
    BY <1>6, <2>1 DEF StateSum, SumsAt
<1>8. state' = StateSum(Kind', Information', Response', Cards') /\ correction' = CorrectionSum(Own')
  BY <1>2, <1>5, <1>7 DEF FlowInv
<1> QED
  BY <1>2, <1>4, <1>8 DEF FlowInv, OnePerIdentity

LEMMA CalibrateKeepsInv ==
  ASSUME FlowInv, NEW g \in Groupings, Calibrate(g.radius)
  PROVE  FlowInv'
<1>1. radius' = PooledRadius(err, g.radius) /\ UNCHANGED <<err, maps, archive, state, correction>>
  BY DEF Calibrate
<1>2. g.radius # {}
  <2> SUFFICES ASSUME g.radius = {}
               PROVE  FALSE
    OBVIOUS
  <2> QED
    BY FS_EmptySet, EvidenceAssumption DEF Calibrate
<1>3. radius' \in Nat
  <2>1. g.radius \in SUBSET MatchedPairs
    BY EvidenceAssumption
  <2> QED
    BY <1>1, <1>2, <2>1, RadiusTyped DEF FlowInv
<1>4. Kind' = Kind /\ Information' = Information /\ Response' = Response
  BY <1>1 DEF Kind, Information, Response, Resolve, InformationOf, Transferred
<1>5. Cards' = Cards /\ Own' = Own
  BY <1>1 DEF Cards, Own
<1> QED
  BY <1>1, <1>3, <1>4, <1>5 DEF FlowInv, FlowTyped, OnePerIdentity

LEMMA ObserveKeepsInv ==
  ASSUME FlowInv, NEW c \in Raw, Observe(c)
  PROVE  FlowInv'
<1>1. /\ archive' = Append(archive, c) /\ state' = StateAfter(state, c)
      /\ correction' = (IF c.protocol = Target THEN CorrectionAfter(correction, c) ELSE correction)
      /\ UNCHANGED <<err, maps, radius>>
      /\ c.id \notin {archive[k].id : k \in DOMAIN archive}
  BY DEF Observe
<1>2. /\ archive \in Seq(Raw) /\ Len(archive) \in Nat /\ DOMAIN archive = 1..Len(archive)
      /\ archive' \in Seq(Raw) /\ DOMAIN archive' = 1..(Len(archive) + 1)
      /\ \A k \in 1..(Len(archive) + 1) :
           archive'[k] = IF k = Len(archive) + 1 THEN c ELSE archive[k]
  BY <1>1 DEF FlowInv, FlowTyped
<1>3. FlowTyped'
  BY <1>1, <1>2 DEF FlowInv, FlowTyped
<1>4. OnePerIdentity'
  <2>1. \A i, j \in 1..(Len(archive) + 1) : archive'[i].id = archive'[j].id => i = j
    <3> TAKE i, j \in 1..(Len(archive) + 1)
    <3> HAVE archive'[i].id = archive'[j].id
    <3>1. i \in DOMAIN archive \/ i = Len(archive) + 1
      BY <1>2
    <3>2. j \in DOMAIN archive \/ j = Len(archive) + 1
      BY <1>2
    <3> QED
      BY <1>1, <1>2, <3>1, <3>2 DEF FlowInv, OnePerIdentity
  <2> QED
    BY <1>2, <2>1 DEF OnePerIdentity
<1>5. Cards' = Cards \union {c} /\ c \notin Cards
  BY <1>1, <1>2 DEF Cards, ToSet
<1>6. Kind' = Kind /\ Information' = Information /\ Response' = Response
  BY <1>1 DEF Kind, Information, Response, Resolve, InformationOf, Transferred
<1>7. FlowTyped /\ IsFiniteSet(Cards) /\ Cards \in SUBSET Raw /\ c \in Raw \ Cards
  BY <1>5, CardsAreFinite DEF FlowInv
<1>8. state' = StateSum(Kind', Information', Response', Cards')
  BY <1>1, <1>5, <1>6, <1>7, StateGrows DEF FlowInv
<1>9. correction' = CorrectionSum(Own')
  <2>1. Own' = IF c.protocol = Target THEN Own \union {c} ELSE Own
    BY <1>5 DEF Own
  <2>2. Own \in SUBSET Raw /\ IsFiniteSet(Own) /\ c \in Raw \ Own
    <3>1. Own \in SUBSET Cards
      BY DEF Own
    <3> QED
      BY <1>7, <3>1, FS_Subset
  <2> QED
    BY <1>1, <2>1, <2>2, CorrectionGrows DEF FlowInv
<1> QED
  BY <1>3, <1>4, <1>8, <1>9 DEF FlowInv

LEMMA FlowStepKeepsInv ==
  ASSUME FlowInv, [FlowNext]_flowVars
  PROVE  FlowInv'
<1>1. CASE UNCHANGED flowVars
  <2>1. UNCHANGED <<err, maps, archive, state, correction, radius>>
    BY <1>1 DEF flowVars
  <2>2. Kind' = Kind /\ Information' = Information /\ Response' = Response
    BY <2>1 DEF Kind, Information, Response, Resolve, InformationOf, Transferred
  <2>3. Cards' = Cards /\ Own' = Own
    BY <2>1 DEF Cards, Own
  <2> QED
    BY <2>1, <2>2, <2>3 DEF FlowInv, FlowTyped, OnePerIdentity
<1>2. CASE FlowNext
  <2>1. ASSUME NEW p \in Protocols, NEW q \in Protocols, NEW g \in Groupings, NEW i \in Intercepts,
               FitMap(p, q, g, i)
        PROVE  FlowInv'
    BY <2>1, FitKeepsInv
  <2>2. ASSUME NEW g \in Groupings, Calibrate(g.radius)
        PROVE  FlowInv'
    BY <2>2, CalibrateKeepsInv
  <2>3. ASSUME NEW c \in Raw, Observe(c)
        PROVE  FlowInv'
    BY <2>3, ObserveKeepsInv
  <2> QED
    BY <1>2, <2>1, <2>2, <2>3 DEF FlowNext
<1> QED
  BY <1>1, <1>2

\* Transports are typed, every identity is archived once, and the two states
\* are sums over the archive.
THEOREM ArchiveInvariant == FlowSpec => []FlowInv
<1>1. FlowInit => FlowInv
  BY FlowInitially
<1>2. FlowInv /\ [FlowNext]_flowVars => FlowInv'
  BY FlowStepKeepsInv
<1> QED
  BY <1>1, <1>2, PTL DEF FlowSpec

\* Radii calibrated on some structures cover as many of the structures, or of
\* the systems, that are left out as they promise, whatever the fits err by.
THEOREM CalibratedRadiiCover == FlowSpec => []RadiiCover
<1>1. FlowInv => RadiiCover
  BY AnyRadiiCover DEF FlowInv, FlowTyped
<1> QED
  BY <1>1, ArchiveInvariant, PTL

\* All consumers of the archive take the same cards, and the states are those
\* of the archive as a set.
THEOREM ConsumersShareTheirEvidence == FlowSpec => []OneEvidence
<1>1. FlowInv => OneEvidence
  BY AnyEvidenceIsOne
<1> QED
  BY <1>1, ArchiveInvariant, PTL

\* A query that is screened stable is stable, if every card that corrects its
\* prediction is as near as its transport and the calibration say.
THEOREM StableScreensAreStable == FlowSpec => []StableIsStable
<1>1. FlowInv => StableIsStable
  BY AnyScreenIsStable DEF FlowInv
<1> QED
  BY <1>1, ArchiveInvariant, PTL

-------------------------------------------------------------------------------
(* What each kind of file owes to the files it was made from.               *)

\* The systems that a run under a plan can touch.
Span(plan) == plan.eligible \union Queried(plan)

\* The fold k of `plan` queries systems of the fold j of `base` and is fitted
\* on what the whole of that fold leaves, which supports it.
DrawnFrom(plan, k, base, j) ==
  LET fit == plan.eligible \ plan.folds[k].query
  IN  /\ plan.folds[k].query \subseteq base.folds[j].query
      /\ fit = base.eligible \ base.folds[j].query
      /\ \A y \in plan.folds[k].query : ElementsOf[y] \subseteq Elements(fit)

\* A manifest of the convergence study keeps the folds of its plan in place.
CalIsDrawn(cal) ==
  /\ cal.eligible = cal.origin.eligible
  /\ DOMAIN cal.folds = DOMAIN cal.origin.folds
  /\ \A k \in DOMAIN cal.folds :
       /\ cal.folds[k].fit = FitRoster(cal.origin.folds[k], cal.origin.eligible)
       /\ cal.folds[k].query \subseteq cal.origin.folds[k].query
       /\ \A y \in cal.folds[k].query : ElementsOf[y] \subseteq Elements(cal.folds[k].fit)

CountsFit(plan) ==
  \A k \in DOMAIN plan.folds :
    plan.folds[k].count # NoCount =>
      Cardinality(plan.eligible \ plan.folds[k].query) = plan.folds[k].count

\* What the plans of every status have from where they come.
PlanIsDrawn(p) ==
  CASE p.status = "crossfit" ->
         /\ p.origin.kind = "result"
         /\ Span(p) \intersect p.origin.query = {}
         /\ Span(p) \subseteq SystemsIn(p.task.rows) /\ QueriesOnce(p)
    [] p.status = "confirmation" -> TRUE
    [] OTHER -> p.origin.kind = "plan" /\ Span(p) \subseteq Span(p.origin)

\* What else the tools see to.
PlanIsKept(p) ==
  /\ p.status = "development" => QueriesOnce(p)
  /\ p.status = "e55_cal" => CalIsDrawn(p)
  /\ p.status = "e55_runner" =>
       \A k \in DOMAIN p.folds :
         \E j \in DOMAIN p.origin.origin.folds : DrawnFrom(p, k, p.origin.origin, j)
  /\ p.status = "equivalence" =>
       \A k \in DOMAIN p.folds : \A y \in p.folds[k].query :
         ElementsOf[y] \subseteq Elements(p.eligible \ p.folds[k].query)
  /\ p.status = "pool_shift" =>
       /\ p.eligible = p.origin.eligible /\ p.folds = p.origin.folds
       /\ p.task.made.percent = 100 => p.task.rows = p.origin.task.rows
  /\ p.status = "query_pool_shift" =>
       /\ DOMAIN p.folds = {1} /\ p.eligible = p.origin.eligible /\ p.task.made.percent \in Nat
       /\ p.folds[1].query = p.origin.folds[p.task.made.fold].query
       /\ p.task.rows = QueryShifted(p.origin.task, p.eligible, p.folds[1].query, p.task.made.percent)

ResultIsOfPlan(r, F) ==
  LET plan == r.plan.of
  IN  /\ plan.kind = "plan" /\ plan \in F /\ plan.status # "e55_cal"
      /\ r.plan.fold \in DOMAIN plan.folds
      /\ r.task = plan.task /\ r.query = plan.folds[r.plan.fold].query
      /\ OwnFit(r) => /\ r.fit = {} \/ r.fit = CrossfitFit(plan, r.plan.fold)
                      /\ r.fitRows = FitRows(r.task, r.fit)
                      /\ r.fit \subseteq SystemsIn(r.task.rows)
      /\ ~OwnFit(r) => /\ r.frozen \in F /\ r.frozen.kind = "frozen"
                       /\ r.fit = r.frozen.fit /\ r.fitRows = r.frozen.rows

\* A file among the files of F.
FileIsSound(f, F) ==
  /\ f.kind = "task" => f.rows \subseteq Pairs
  /\ f.kind = "frozen" => SystemsIn(f.rows) = f.fit
  /\ f.kind = "curve" => f.selected \intersect OpenedBy(f.opened) = {}
  /\ f.kind = "jarvis" =>
       /\ f.calibration \intersect f.evaluation = {}
       /\ \A y \in DOMAIN f.phases : f.phases[y] \intersect f.rows = {}
  /\ f.kind = "plan" =>
       /\ f.origin \in F /\ f.task.rows \subseteq Pairs
       /\ Span(f) \subseteq Systems /\ (f.status # "e55_cal" => CountsFit(f))
       /\ PlanIsDrawn(f) /\ PlanIsKept(f)
  /\ f.kind = "result" =>
       /\ Fitted(f) \intersect f.query = {}
       /\ f.plan.kind = "use" => ResultIsOfPlan(f, F)
       /\ f.plan.kind = "curve_use" => f.query \intersect OpenedBy(f.plan.of.opened) = {}

LineageInv == \A f \in files : FileIsSound(f, files)

-------------------------------------------------------------------------------
(* The helpers.                                                             *)

LEMMA FirstIsPart ==
  ASSUME NEW n, NEW salt, NEW S
  PROVE  First(n, salt, S) \subseteq S
BY DEF First

LEMMA FirstGrows ==
  ASSUME NEW n \in Int, NEW m \in Int, n <= m, NEW salt, NEW S, IsFiniteSet(S)
  PROVE  First(n, salt, S) \subseteq First(m, salt, S)
<1>1. \A x \in S : Cardinality(Before(salt, S, x)) \in Nat
  BY FS_Subset, FS_CardinalityType DEF Before
<1> QED
  BY <1>1 DEF First

LEMMA FirstIsAll ==
  ASSUME NEW salt \in Salts, NEW S, S \subseteq Pairs
  PROVE  First(Cardinality(S), salt, S) = S
<1>1. IsFiniteSet(S)
  BY LineageAssumption, FS_Subset
<1>2. ASSUME NEW x \in S
      PROVE  Cardinality(Before(salt, S, x)) < Cardinality(S)
  <2>1. Hash[<<salt, x>>] \in Nat
    BY LineageAssumption
  <2>2. x \notin Before(salt, S, x) /\ Before(salt, S, x) \subseteq S
    BY <2>1 DEF Before
  <2>3. /\ IsFiniteSet(Before(salt, S, x)) /\ Cardinality(Before(salt, S, x)) <= Cardinality(S)
        /\ Cardinality(Before(salt, S, x)) # Cardinality(S)
    BY <1>1, <2>2, FS_Subset
  <2> QED
    BY <1>1, <2>3, FS_CardinalityType
<1> QED
  BY <1>2 DEF First

LEMMA RowsAreOfTheirSystem ==
  ASSUME NEW rows, NEW y
  PROVE  RowsOf(rows, y) \subseteq rows /\ \A p \in RowsOf(rows, y) : SystemOf[p] = y
BY DEF RowsOf

LEMMA PairsHaveSystems ==
  ASSUME NEW rows, rows \subseteq Pairs
  PROVE  SystemsIn(rows) \subseteq Systems /\ IsFiniteSet(SystemsIn(rows)) /\ IsFiniteSet(rows)
<1>1. SystemsIn(rows) \subseteq Systems
  BY LineageAssumption DEF SystemsIn
<1> QED
  BY <1>1, LineageAssumption, FS_Subset

\* Every system is dealt into exactly one hand.
LEMMA DealtOnce ==
  ASSUME NEW n \in Nat \ {0}, NEW salt, NEW S, IsFiniteSet(S)
  PROVE  /\ DOMAIN Dealt(n, salt, S) = 1..n
         /\ UNION {Dealt(n, salt, S)[k] : k \in 1..n} = S
         /\ \A j, k \in 1..n : j # k => Dealt(n, salt, S)[j] \intersect Dealt(n, salt, S)[k] = {}
<1> DEFINE place(y) == Cardinality(Before(salt, OfStratum(S, Stratum(y)), y)) % n
<1>1. Dealt(n, salt, S) = [k \in 1..n |-> {y \in S : place(y) = k - 1}]
  BY DEF Dealt
<1>2. ASSUME NEW y \in S
      PROVE  place(y) \in 0..(n - 1)
  <2>1. IsFiniteSet(Before(salt, OfStratum(S, Stratum(y)), y))
    BY FS_Subset DEF Before, OfStratum
  <2>2. Cardinality(Before(salt, OfStratum(S, Stratum(y)), y)) \in Nat
    BY <2>1, FS_CardinalityType
  <2> QED
    BY <2>2
<1> HIDE DEF place
<1>3. ASSUME NEW y \in S
      PROVE  place(y) + 1 \in 1..n /\ place(y) = (place(y) + 1) - 1
  BY <1>2
<1>4. ASSUME NEW y \in S
      PROVE  y \in Dealt(n, salt, S)[place(y) + 1]
  BY <1>1, <1>3
<1>5. \A k \in 1..n : Dealt(n, salt, S)[k] \subseteq S
  BY <1>1
<1>6. UNION {Dealt(n, salt, S)[k] : k \in 1..n} = S
  BY <1>3, <1>4, <1>5
<1>7. \A j, k \in 1..n : j # k => Dealt(n, salt, S)[j] \intersect Dealt(n, salt, S)[k] = {}
  BY <1>1
<1> QED
  BY <1>1, <1>6, <1>7

LEMMA ShiftedIsPart ==
  ASSUME NEW task, NEW percent
  PROVE  Shifted(task, percent) \subseteq task.rows
BY FirstIsPart, RowsAreOfTheirSystem DEF Shifted, Prefix

\* The full variant of the shifted pools is the task itself.
LEMMA FullPool ==
  ASSUME NEW task, task.rows \subseteq Pairs
  PROVE  Shifted(task, 100) = task.rows
<1>1. ASSUME NEW y
      PROVE  Prefix("pool", RowsOf(task.rows, y), 100) = RowsOf(task.rows, y)
  <2> DEFINE n == Cardinality(RowsOf(task.rows, y))
  <2>1. RowsOf(task.rows, y) \subseteq Pairs
    BY RowsAreOfTheirSystem
  <2>2. n \in Nat
    BY <2>1, LineageAssumption, FS_Subset, FS_CardinalityType
  <2>3. (n * 100 + 99) \div 100 = n
    BY <2>2
  <2> HIDE DEF n
  <2>4. First(n, "pool", RowsOf(task.rows, y)) = RowsOf(task.rows, y)
    BY <2>1, FirstIsAll DEF n, Salts
  <2> QED
    BY <2>3, <2>4 DEF Prefix, n
<1>2. \A p \in task.rows : SystemOf[p] \in SystemsIn(task.rows) /\ p \in RowsOf(task.rows, SystemOf[p])
  BY DEF SystemsIn, RowsOf
<1> QED
  BY <1>1, <1>2, ShiftedIsPart DEF Shifted

\* A reduced query pool holds all rows of the systems it does not query, some
\* of those it queries, and nothing else.
LEMMA QueryShiftedRows ==
  ASSUME NEW task, NEW eligible, NEW query, NEW percent
  PROVE  /\ QueryShifted(task, eligible, query, percent) \subseteq task.rows
         /\ \A y \in eligible \ query :
              RowsOf(QueryShifted(task, eligible, query, percent), y) = RowsOf(task.rows, y)
         /\ \A y \in eligible \intersect query :
              RowsOf(QueryShifted(task, eligible, query, percent), y)
                = Prefix("query_pool", RowsOf(task.rows, y), percent)
         /\ \A y : y \notin eligible => RowsOf(QueryShifted(task, eligible, query, percent), y) = {}
<1> DEFINE part(y) == IF y \in query THEN Prefix("query_pool", RowsOf(task.rows, y), percent)
                      ELSE RowsOf(task.rows, y)
           rows == QueryShifted(task, eligible, query, percent)
<1>1. rows = UNION {part(y) : y \in eligible}
  BY DEF QueryShifted
<1>2. \A y : part(y) \subseteq RowsOf(task.rows, y)
  BY FirstIsPart DEF Prefix
<1>3. \A y : \A p \in part(y) : p \in task.rows /\ SystemOf[p] = y
  BY <1>2, RowsAreOfTheirSystem
<1> HIDE DEF part, rows
<1>4. \A y \in eligible : RowsOf(rows, y) = part(y)
  BY <1>1, <1>3 DEF RowsOf
<1>5. \A y : y \notin eligible => RowsOf(rows, y) = {}
  BY <1>1, <1>3 DEF RowsOf
<1>6. rows \subseteq task.rows
  BY <1>1, <1>3
<1> QED
  BY <1>4, <1>5, <1>6 DEF part, rows

-------------------------------------------------------------------------------
(* The tools that make tasks and transports.                                *)

LEMMA SoundAmongMore ==
  ASSUME NEW f, NEW F, NEW G, F \subseteq G, FileIsSound(f, F)
  PROVE  FileIsSound(f, G)
BY DEF FileIsSound, ResultIsOfPlan

LEMMA TaskAndVault ==
  ASSUME NEW split, NEW rows, rows \subseteq Pairs, NEW made, NEW F
  PROVE  FileIsSound(Task(split, rows, made), F) /\ FileIsSound(Vault(split, rows, made), F)
BY DEF FileIsSound, Task, Vault

\* New files that are sound among themselves and the old ones keep the rest so.
LEMMA Grown ==
  ASSUME LineageInv, NEW new, Write(new), \A f \in new : FileIsSound(f, files \union new)
  PROVE  LineageInv'
<1>1. files' = files \union new
  BY DEF Write
<1>2. \A f \in files : FileIsSound(f, files \union new)
  BY SoundAmongMore DEF LineageInv
<1> QED
  BY <1>1, <1>2 DEF LineageInv

LEMMA TaskBuilt ==
  ASSUME LineageInv, NEW r \in Releases, NEW size, BuildTask(r, size)
  PROVE  LineageInv'
<1> DEFINE rows == UNION {First(size.candidates, "pair", RowsOf(Matched(r), y)) : y \in Chosen(r, size)}
           made == [by |-> r.name]
<1>1. Write({Task("development", rows, made), Vault("development", rows, made)})
  BY DEF BuildTask
<1>2. Matched(r) \subseteq Pairs
  BY LineageAssumption DEF Matched
<1>3. rows \subseteq Pairs
  BY <1>2, FirstIsPart, RowsAreOfTheirSystem
<1> HIDE DEF rows, made
<1> DEFINE new == {Task("development", rows, made), Vault("development", rows, made)}
<1>4. \A f \in new : FileIsSound(f, files \union new)
  BY <1>3, TaskAndVault
<1>5. Write(new)
  BY <1>1
<1> HIDE DEF new
<1> QED
  BY <1>4, <1>5, Grown

LEMMA ConfirmatoryBuilt ==
  ASSUME LineageInv, NEW all \in Tasks, NEW vault, NEW development, NEW n, NEW m,
         BuildConfirmatory(all, vault, development, n, m)
  PROVE  LineageInv'
<1> DEFINE fresh == {p \in all.rows : /\ p \notin Excluded(development)
                                      /\ SystemOf[p] \notin SystemsIn(Excluded(development))}
           rowsOf(y) == OnePerParent(RowsOf(fresh, y))
           eligible == {y \in SystemsIn(fresh) : Cardinality(rowsOf(y)) >= m}
           selected == UNION {First(n, "confirmatory", OfStratum(eligible, t)) : t \in Strata}
           rows == UNION {rowsOf(y) : y \in selected}
           made == [by |-> "confirmatory", from |-> all, excluded |-> development]
<1>1. Write({Task("confirmatory", rows, made), Vault("confirmatory", rows, made)})
  BY DEF BuildConfirmatory
<1>2. all.rows \subseteq Pairs
  BY DEF LineageInv, FileIsSound, Tasks, OfKind
<1>3. rows \subseteq Pairs
  BY <1>2, RowsAreOfTheirSystem DEF OnePerParent
<1> HIDE DEF rows, made
<1> DEFINE new == {Task("confirmatory", rows, made), Vault("confirmatory", rows, made)}
<1>4. \A f \in new : FileIsSound(f, files \union new)
  BY <1>3, TaskAndVault
<1>5. Write(new)
  BY <1>1
<1> HIDE DEF new
<1> QED
  BY <1>4, <1>5, Grown

LEMMA JarvisTaskBuilt ==
  ASSUME LineageInv, NEW r, NEW size, BuildJarvisTask(r, size)
  PROVE  LineageInv'
<1> DEFINE eligible == {y \in SystemsIn(Structural(r)) :
                          /\ Cardinality(RowsOf(Structural(r), y)) >= size.minimum
                          /\ Cardinality(ElementsOf[y]) >= 2}
<1>1. PICK s \in Splits(eligible) :
        LET systems == s.calibration \union s.evaluation
            selected == SelectedPairs(r, size, systems)
        IN  Write({[kind |-> "jarvis", calibration |-> s.calibration, evaluation |-> s.evaluation,
                    rows |-> selected, phases |-> [y \in systems |-> InitialPhases(r, y, selected)]]})
  BY DEF BuildJarvisTask
<1>2. s.calibration \intersect s.evaluation = {}
  <2>1. ASSUME NEW stride, NEW offset
        PROVE  LET p == Partition(eligible, stride, offset)
               IN  p.calibration \intersect p.evaluation = {}
    BY DEF Partition
  <2> HIDE DEF eligible
  <2>2. ASSUME NEW counts
        PROVE  LET p == ByCount(eligible, counts) IN p.calibration \intersect p.evaluation = {}
    <3> DEFINE c == UNION {First(counts[t], "system", OfStratum(eligible, t)) : t \in Strata}
               d == UNION {First(2 * counts[t], "system", OfStratum(eligible, t)) : t \in Strata}
    <3>1. ByCount(eligible, counts) = [calibration |-> c, evaluation |-> d \ c]
      BY DEF ByCount
    <3> HIDE DEF c, d
    <3> QED
      BY <3>1
  <2>3. \/ \E stride \in {2, 3}, offset \in {0, 1} : s = Partition(eligible, stride, offset)
        \/ \E counts \in [Strata -> 0..1] : s = ByCount(eligible, counts)
    BY <1>1 DEF Splits
  <2> QED
    BY <2>1, <2>2, <2>3
<1> DEFINE systems == s.calibration \union s.evaluation
           selected == SelectedPairs(r, size, systems)
           f == [kind |-> "jarvis", calibration |-> s.calibration, evaluation |-> s.evaluation,
                 rows |-> selected, phases |-> [y \in systems |-> InitialPhases(r, y, selected)]]
<1>3. Write({f})
  BY <1>1
<1>4. FileIsSound(f, files \union {f})
  BY <1>2 DEF FileIsSound, InitialPhases
<1> HIDE DEF f
<1> QED
  BY <1>3, <1>4, Grown

LEMMA TransportFrozen ==
  ASSUME LineageInv, NEW task, NEW vault, NEW exclude, Freeze(task, vault, exclude)
  PROVE  LineageInv'
<1> DEFINE fit == SystemsIn(task.rows) \ (IF exclude = NoFile THEN {} ELSE SystemsIn(exclude.rows))
           f == [kind |-> "frozen", task |-> task, fit |-> fit, rows |-> FitRows(task, fit)]
<1>1. Write({f})
  BY DEF Freeze
<1>2. SystemsIn(f.rows) = f.fit
  BY DEF SystemsIn, FitRows
<1> HIDE DEF fit
<1>3. FileIsSound(f, files \union {f})
  BY <1>2 DEF FileIsSound
<1> HIDE DEF f
<1> QED
  BY <1>1, <1>3, Grown

LEMMA CurveBuilt ==
  ASSUME LineageInv, NEW task, NEW opened, BuildCurve(task, opened)
  PROVE  LineageInv'
<1> DEFINE rowsOf(y) == RowsOf(task.rows, y)
           eligible == {y \in SystemsIn(task.rows) :
                          /\ Cardinality(rowsOf(y)) >= CurveCandidates
                          /\ Cardinality({CompositionOf[p] : p \in rowsOf(y)}) >= CurveCompositions}
           selected == First(CurveSystems, "curve", eligible \ OpenedBy(opened))
           f == [kind |-> "curve", task |-> task, selected |-> selected, opened |-> opened,
                 folds |-> Dealt(2, "curve", selected)]
<1>1. Write({f})
  BY DEF BuildCurve
<1>2. selected \intersect OpenedBy(opened) = {}
  BY FirstIsPart
<1> HIDE DEF eligible, selected
<1>3. FileIsSound(f, files \union {f})
  BY <1>2 DEF FileIsSound
<1> HIDE DEF f
<1> QED
  BY <1>1, <1>3, Grown

-------------------------------------------------------------------------------
(* The tools that make plans.                                               *)

LEMMA PlanFields ==
  ASSUME NEW status, NEW task, NEW eligible, NEW folds, NEW origin
  PROVE  LET p == Plan(status, task, eligible, folds, origin)
         IN  /\ p.kind = "plan" /\ p.status = status /\ p.task = task
             /\ p.eligible = eligible /\ p.folds = folds /\ p.origin = origin
BY DEF Plan

LEMMA FoldFields ==
  ASSUME NEW query, NEW fit, NEW count
  PROVE  /\ Fold(query, fit, count).query = query
         /\ Fold(query, fit, count).fit = fit
         /\ Fold(query, fit, count).count = count
BY DEF Fold

LEMMA PlanIsSound ==
  ASSUME NEW p, NEW F, p.kind = "plan", p.origin \in F, p.task.rows \subseteq Pairs,
         Span(p) \subseteq Systems, p.status # "e55_cal" => CountsFit(p),
         PlanIsDrawn(p), PlanIsKept(p)
  PROVE  FileIsSound(p, F)
BY DEF FileIsSound

LEMMA TasksHaveRows ==
  ASSUME LineageInv
  PROVE  \A task \in Tasks : task.rows \subseteq Pairs
BY DEF LineageInv, FileIsSound, Tasks, OfKind

\* What a sound plan gives to the plans that are made from it.
LEMMA PlansAreSound ==
  ASSUME LineageInv, NEW p \in Plans \union Cals
  PROVE  /\ p \in files /\ p.kind = "plan" /\ p.origin \in files /\ p.task.rows \subseteq Pairs
         /\ Span(p) \subseteq Systems /\ IsFiniteSet(p.eligible)
         /\ p.status # "e55_cal" => CountsFit(p)
         /\ PlanIsDrawn(p) /\ PlanIsKept(p)
         /\ \A k \in DOMAIN p.folds : p.folds[k].query \subseteq Span(p)
<1>1. p \in files /\ p.kind = "plan"
  BY DEF Plans, Cals, OfKind
<1>2. FileIsSound(p, files)
  BY <1>1 DEF LineageInv
<1>3. Span(p) \subseteq Systems
  BY <1>1, <1>2 DEF FileIsSound
<1>4. IsFiniteSet(p.eligible)
  BY <1>3, LineageAssumption, FS_Subset DEF Span
<1>5. \A k \in DOMAIN p.folds : p.folds[k].query \subseteq Span(p)
  BY DEF Span, Queried
<1> QED
  BY <1>1, <1>2, <1>4, <1>5 DEF FileIsSound

LEMMA CrossfitBuilt ==
  ASSUME LineageInv, NEW task \in Tasks, NEW opened \in Results, BuildCrossfit(task, opened)
  PROVE  LineageInv'
<1> DEFINE hands == Dealt(Folds + 1, "crossfit", opened.fit)
           folds == [k \in DOMAIN hands |-> Fold(hands[k], NoRoster, NoCount)]
           p == Plan("crossfit", task, opened.fit, folds, opened)
<1>1. /\ opened.fit \subseteq SystemsIn(task.rows) /\ opened.fit \intersect opened.query = {}
      /\ Write({p})
  BY DEF BuildCrossfit
<1>2. /\ p.kind = "plan" /\ p.status = "crossfit" /\ p.task = task
      /\ p.eligible = opened.fit /\ p.folds = folds /\ p.origin = opened
  BY PlanFields
<1> HIDE DEF p
<1>3. task.rows \subseteq Pairs
  BY TasksHaveRows
<1>4. opened.fit \subseteq Systems /\ IsFiniteSet(opened.fit)
  BY <1>1, <1>3, PairsHaveSystems, FS_Subset
<1>5. Folds + 1 \in Nat \ {0}
  BY LineageAssumption
<1>6. /\ DOMAIN hands = 1..(Folds + 1)
      /\ UNION {hands[k] : k \in 1..(Folds + 1)} = opened.fit
      /\ \A j, k \in 1..(Folds + 1) : j # k => hands[j] \intersect hands[k] = {}
  BY <1>4, <1>5, DealtOnce
<1> HIDE DEF hands
<1>7. /\ DOMAIN p.folds = 1..(Folds + 1)
      /\ \A k \in 1..(Folds + 1) : p.folds[k].query = hands[k] /\ p.folds[k].count = NoCount
  BY <1>2, <1>6, FoldFields
<1> HIDE DEF folds
<1>8. Queried(p) = opened.fit
  BY <1>6, <1>7 DEF Queried
<1>9. QueriesOnce(p) /\ Span(p) = opened.fit
  BY <1>2, <1>6, <1>7, <1>8 DEF QueriesOnce, Disjoint, Span
<1>10. CountsFit(p)
  BY <1>7 DEF CountsFit
<1>11. opened \in files /\ opened.kind = "result"
  BY DEF Results, OfKind
<1>12. PlanIsDrawn(p) /\ PlanIsKept(p)
  BY <1>1, <1>2, <1>9, <1>11 DEF PlanIsDrawn, PlanIsKept
<1>13. FileIsSound(p, files \union {p})
  BY <1>2, <1>3, <1>4, <1>9, <1>10, <1>11, <1>12, PlanIsSound
<1> QED
  BY <1>1, <1>13, Grown

LEMMA CleanroomBuilt ==
  ASSUME LineageInv, NEW task \in Tasks, NEW prior \in Plans, NEW choice,
         BuildCleanroom(task, prior, choice)
  PROVE  LineageInv'
<1> DEFINE chosen == [k \in DOMAIN choice |-> prior.folds[choice[k]].query]
           development == UNION {chosen[k] : k \in DOMAIN chosen}
           confirmation == SystemsIn(task.rows) \ development
           folds == [k \in DOMAIN choice |->
                       Fold(chosen[k], NoRoster, Cardinality(development \ chosen[k]))]
           d == Plan("development", task, development, folds, prior)
           c == Plan("confirmation", task, SystemsIn(task.rows),
                     <<Fold(confirmation, NoRoster, Cardinality(development))>>, prior)
<1>1. /\ prior.task = task /\ prior.status = "crossfit"
      /\ \A k \in DOMAIN choice : choice[k] \in DOMAIN prior.folds
      /\ \A j, k \in DOMAIN choice : j # k => chosen[j] \intersect chosen[k] = {}
      /\ Write({d, c})
  BY DEF BuildCleanroom
<1>2. /\ d.kind = "plan" /\ d.status = "development" /\ d.task = task
      /\ d.eligible = development /\ d.origin = prior /\ DOMAIN d.folds = DOMAIN choice
      /\ \A k \in DOMAIN choice : /\ d.folds[k].query = chosen[k]
                                  /\ d.folds[k].count = Cardinality(development \ chosen[k])
  <2>1. /\ d.kind = "plan" /\ d.status = "development" /\ d.task = task
        /\ d.eligible = development /\ d.origin = prior /\ d.folds = folds
    BY PlanFields
  <2>2. \A k \in DOMAIN choice : /\ folds[k].query = chosen[k]
                                  /\ folds[k].count = Cardinality(development \ chosen[k])
    BY FoldFields
  <2>3. DOMAIN folds = DOMAIN choice
    OBVIOUS
  <2> HIDE DEF d, folds, development, chosen
  <2> QED
    BY <2>1, <2>2, <2>3
<1>3. /\ c.kind = "plan" /\ c.status = "confirmation" /\ c.task = task
      /\ c.eligible = SystemsIn(task.rows) /\ c.origin = prior /\ DOMAIN c.folds = {1}
      /\ c.folds[1].query = confirmation /\ c.folds[1].count = Cardinality(development)
  <2> DEFINE fold == Fold(confirmation, NoRoster, Cardinality(development))
  <2>1. fold.query = confirmation /\ fold.count = Cardinality(development)
    BY FoldFields
  <2> HIDE DEF fold
  <2>2. DOMAIN <<fold>> = {1} /\ <<fold>>[1] = fold
    OBVIOUS
  <2>3. /\ c.kind = "plan" /\ c.status = "confirmation" /\ c.task = task
        /\ c.eligible = SystemsIn(task.rows) /\ c.origin = prior /\ c.folds = <<fold>>
    BY PlanFields DEF fold
  <2> QED
    BY <2>1, <2>2, <2>3
<1>4. /\ prior \in files /\ prior.kind = "plan" /\ task.rows \subseteq Pairs
      /\ Span(prior) \subseteq Systems /\ Span(prior) \subseteq SystemsIn(task.rows)
      /\ \A k \in DOMAIN prior.folds : prior.folds[k].query \subseteq Span(prior)
  BY <1>1, PlansAreSound DEF PlanIsDrawn
<1>5. SystemsIn(task.rows) \subseteq Systems
  BY <1>4, PairsHaveSystems
<1>6. development \subseteq Span(prior)
  BY <1>1, <1>4
<1>7. DOMAIN chosen = DOMAIN choice
  OBVIOUS
<1> HIDE DEF c, d, chosen
<1>8. FileIsSound(d, files \union {d, c})
  <2>1. Queried(d) = development
    BY <1>2, <1>7 DEF Queried
  <2> HIDE DEF development
  <2>2. QueriesOnce(d) /\ Span(d) = development
    <3>1. ASSUME NEW j \in DOMAIN d.folds, NEW k \in DOMAIN d.folds, j # k
          PROVE  d.folds[j].query \intersect d.folds[k].query = {}
      <4>1. j \in DOMAIN choice /\ k \in DOMAIN choice
        BY <1>2
      <4>2. chosen[j] \intersect chosen[k] = {}
        BY <1>1, <3>1, <4>1
      <4>3. d.folds[j].query = chosen[j] /\ d.folds[k].query = chosen[k]
        BY <1>2, <4>1
      <4> QED
        BY <4>2, <4>3
    <3>2. d.eligible = development
      BY <1>2
    <3> QED
      BY <2>1, <3>1, <3>2 DEF QueriesOnce, Disjoint, Span
  <2>3. CountsFit(d)
    BY <1>2 DEF CountsFit
  <2>4. PlanIsDrawn(d) /\ PlanIsKept(d)
    BY <1>2, <1>4, <1>6, <2>2 DEF PlanIsDrawn, PlanIsKept
  <2> QED
    BY <1>2, <1>4, <1>6, <2>2, <2>3, <2>4, PlanIsSound
<1>9. FileIsSound(c, files \union {d, c})
  <2>1. Span(c) = SystemsIn(task.rows)
    BY <1>3 DEF Span, Queried
  <2>2. SystemsIn(task.rows) \ confirmation = development
    BY <1>4, <1>6
  <2>3. CountsFit(c)
    BY <1>3, <2>2 DEF CountsFit
  <2>4. PlanIsDrawn(c) /\ PlanIsKept(c)
    BY <1>3 DEF PlanIsDrawn, PlanIsKept
  <2> QED
    BY <1>3, <1>4, <1>5, <2>1, <2>3, <2>4, PlanIsSound
<1> QED
  BY <1>1, <1>8, <1>9, Grown

LEMMA EquivalenceBuilt ==
  ASSUME LineageInv, NEW task \in Tasks, NEW plan \in Plans, NEW count \in Nat,
         BuildEquivalence(task, plan, count)
  PROVE  LineageInv'
<1> DEFINE selected == First(count, "equivalence", Twice(plan.eligible))
           p == Plan("equivalence", task, plan.eligible,
                     <<Fold(selected, NoRoster, Cardinality(plan.eligible) - count)>>, plan)
<1>1. /\ Cardinality(selected) = count /\ EquivalenceSupported(plan.eligible, selected)
      /\ Write({p})
  BY DEF BuildEquivalence
<1>2. /\ p.kind = "plan" /\ p.status = "equivalence" /\ p.task = task
      /\ p.eligible = plan.eligible /\ p.origin = plan /\ DOMAIN p.folds = {1}
      /\ p.folds[1].query = selected
      /\ p.folds[1].count = Cardinality(plan.eligible) - count
  BY PlanFields, FoldFields
<1> HIDE DEF p
<1>3. /\ plan \in files /\ plan.kind = "plan" /\ task.rows \subseteq Pairs
      /\ Span(plan) \subseteq Systems /\ IsFiniteSet(plan.eligible)
  BY PlansAreSound, TasksHaveRows
<1>4. selected \subseteq plan.eligible
  BY FirstIsPart DEF Twice
<1> HIDE DEF selected
<1>5. Span(p) = plan.eligible /\ Span(p) \subseteq Span(plan)
  BY <1>2, <1>4 DEF Span, Queried
<1>6. CountsFit(p)
  <2>1. Cardinality(plan.eligible \ selected)
          = Cardinality(plan.eligible) - Cardinality(plan.eligible \intersect selected)
    BY <1>3, FS_Difference
  <2>2. plan.eligible \intersect selected = selected
    BY <1>4
  <2> QED
    BY <1>1, <1>2, <2>1, <2>2 DEF CountsFit
<1>7. PlanIsDrawn(p) /\ PlanIsKept(p)
  BY <1>1, <1>2, <1>3, <1>5 DEF PlanIsDrawn, PlanIsKept, EquivalenceSupported
<1>8. FileIsSound(p, files \union {p})
  BY <1>2, <1>3, <1>5, <1>6, <1>7, PlanIsSound
<1> QED
  BY <1>1, <1>8, Grown

LEMMA PoolShiftBuilt ==
  ASSUME LineageInv, NEW task \in Tasks, NEW vault, NEW plan \in Plans,
         BuildPoolShift(task, vault, plan)
  PROVE  LineageInv'
<1> DEFINE made(f) == [by |-> "pool_shift", from |-> task, percent |-> f]
           variant(f) == Task(task.split, Shifted(task, f), made(f))
           reduced(f) == Vault(task.split, Shifted(task, f), made(f))
           p(f) == Plan("pool_shift", variant(f), plan.eligible, plan.folds, plan)
           new == UNION {{variant(f), reduced(f), p(f)} : f \in Fractions \union {100}}
<1>1. plan.task = task /\ Write(new)
  BY DEF BuildPoolShift
<1>2. /\ plan \in files /\ plan.kind = "plan" /\ task.rows \subseteq Pairs
      /\ Span(plan) \subseteq Systems /\ CountsFit(plan)
  BY PlansAreSound, TasksHaveRows DEF Plans, Cals
<1>3. ASSUME NEW f
      PROVE  /\ FileIsSound(variant(f), files \union new) /\ FileIsSound(reduced(f), files \union new)
             /\ FileIsSound(p(f), files \union new)
  <2>1. Shifted(task, f) \subseteq Pairs
    BY <1>2, ShiftedIsPart
  <2>2. FileIsSound(variant(f), files \union new) /\ FileIsSound(reduced(f), files \union new)
    BY <2>1, TaskAndVault
  <2>3. variant(f).rows = Shifted(task, f) /\ variant(f).made.percent = f
    BY DEF Task
  <2>4. /\ p(f).kind = "plan" /\ p(f).status = "pool_shift" /\ p(f).task = variant(f)
        /\ p(f).eligible = plan.eligible /\ p(f).folds = plan.folds /\ p(f).origin = plan
    BY PlanFields
  <2> HIDE DEF p, variant, reduced, new
  <2>5. Span(p(f)) = Span(plan)
    BY <2>4 DEF Span, Queried
  <2>6. CountsFit(p(f))
    BY <1>2, <2>4 DEF CountsFit
  <2>7. f = 100 => variant(f).rows = plan.task.rows
    BY <1>1, <1>2, <2>3, FullPool
  <2>8. PlanIsDrawn(p(f)) /\ PlanIsKept(p(f))
    BY <1>2, <2>3, <2>4, <2>5, <2>7 DEF PlanIsDrawn, PlanIsKept
  <2>9. FileIsSound(p(f), files \union new)
    BY <1>2, <2>1, <2>3, <2>4, <2>5, <2>6, <2>8, PlanIsSound
  <2> QED
    BY <2>2, <2>9
<1> HIDE DEF variant, reduced, p
<1>4. \A g \in new : FileIsSound(g, files \union new)
  BY <1>3
<1> HIDE DEF new
<1> QED
  BY <1>1, <1>4, Grown

LEMMA QueryPoolShiftBuilt ==
  ASSUME LineageInv, NEW task \in Tasks, NEW vault, NEW plan \in Plans, NEW percent \in Fractions,
         BuildQueryPoolShift(task, vault, plan, percent)
  PROVE  LineageInv'
<1> DEFINE made(k) == [by |-> "query_pool_shift", from |-> plan, percent |-> percent, fold |-> k]
           query(k) == plan.folds[k].query
           rows(k) == QueryShifted(task, plan.eligible, query(k), percent)
           variant(k) == Task("development", rows(k), made(k))
           passes(k) == \A y \in query(k) : Cardinality(RowsOf(rows(k), y)) >= MinimumCandidates
           written == {k \in DOMAIN plan.folds : \A j \in 1..k : passes(j)}
           reduced(k) == Vault(vault.split, rows(k), made(k))
           p(k) == Plan("query_pool_shift", variant(k), plan.eligible,
                        <<Fold(query(k), NoRoster, Cardinality(plan.eligible \ query(k)))>>, plan)
           new == UNION {{variant(k), reduced(k), p(k)} : k \in written}
<1>1. plan.task = task /\ Write(new)
  BY DEF BuildQueryPoolShift
<1>2. /\ plan \in files /\ plan.kind = "plan" /\ task.rows \subseteq Pairs
      /\ Span(plan) \subseteq Systems
      /\ \A k \in DOMAIN plan.folds : plan.folds[k].query \subseteq Span(plan)
  BY PlansAreSound, TasksHaveRows
<1>3. written \subseteq DOMAIN plan.folds
  OBVIOUS
<1>4. ASSUME NEW k \in DOMAIN plan.folds
      PROVE  /\ FileIsSound(variant(k), files \union new) /\ FileIsSound(reduced(k), files \union new)
             /\ FileIsSound(p(k), files \union new)
  <2>1. rows(k) \subseteq Pairs
    BY <1>2, QueryShiftedRows
  <2>2. variant(k).rows = rows(k) /\ variant(k).made.percent = percent /\ variant(k).made.fold = k
    BY DEF Task
  <2>3. /\ p(k).kind = "plan" /\ p(k).status = "query_pool_shift" /\ p(k).task = variant(k)
        /\ p(k).eligible = plan.eligible /\ p(k).origin = plan /\ DOMAIN p(k).folds = {1}
        /\ p(k).folds[1].query = query(k)
        /\ p(k).folds[1].count = Cardinality(plan.eligible \ query(k))
    BY PlanFields, FoldFields
  <2>4. percent \in Nat
    BY LineageAssumption
  <2> HIDE DEF rows, made
  <2>5. FileIsSound(variant(k), files \union new) /\ FileIsSound(reduced(k), files \union new)
    BY <2>1, TaskAndVault
  <2> HIDE DEF p, variant, reduced, new
  <2>6. Span(p(k)) = plan.eligible \union query(k) /\ Span(p(k)) \subseteq Span(plan)
    BY <1>2, <2>3 DEF Span, Queried
  <2>7. CountsFit(p(k))
    BY <2>3 DEF CountsFit
  <2>8. variant(k).rows = QueryShifted(plan.task, plan.eligible, query(k), percent)
    BY <1>1, <2>2 DEF rows
  <2>9. PlanIsDrawn(p(k)) /\ PlanIsKept(p(k))
    BY <1>2, <2>2, <2>3, <2>4, <2>6, <2>8 DEF PlanIsDrawn, PlanIsKept
  <2>10. FileIsSound(p(k), files \union new)
    BY <1>2, <2>1, <2>2, <2>3, <2>6, <2>7, <2>9, PlanIsSound
  <2> QED
    BY <2>5, <2>10
<1> HIDE DEF variant, reduced, p, written
<1>5. \A g \in new : FileIsSound(g, files \union new)
  BY <1>3, <1>4
<1> HIDE DEF new
<1> QED
  BY <1>1, <1>5, Grown

LEMMA ConvergenceBuilt ==
  ASSUME LineageInv, NEW task \in Tasks, NEW plan \in Plans, BuildConvergence(task, plan)
  PROVE  LineageInv'
<1> DEFINE picks(k) == UNION {First(1, "e55", Supported(task, plan.folds[k], plan.eligible, b)) : b \in 1..Bins}
           folds == [k \in DOMAIN plan.folds |->
                       LET fit == FitRoster(plan.folds[k], plan.eligible)
                       IN  Fold(picks(k), fit, Cardinality(fit))]
           p == Plan("e55_cal", task, plan.eligible, folds, plan)
<1>1. Write({p})
  BY DEF BuildConvergence
<1>2. /\ p.kind = "plan" /\ p.status = "e55_cal" /\ p.task = task
      /\ p.eligible = plan.eligible /\ p.folds = folds /\ p.origin = plan
  BY PlanFields
<1> HIDE DEF p
<1>3. ASSUME NEW k \in DOMAIN plan.folds
      PROVE  /\ picks(k) \subseteq plan.folds[k].query
             /\ \A y \in picks(k) : ElementsOf[y] \subseteq Elements(FitRoster(plan.folds[k], plan.eligible))
  <2>1. \A b : /\ Supported(task, plan.folds[k], plan.eligible, b) \subseteq plan.folds[k].query
               /\ \A y \in Supported(task, plan.folds[k], plan.eligible, b) :
                    ElementsOf[y] \subseteq Elements(FitRoster(plan.folds[k], plan.eligible))
    BY DEF Supported, Bin
  <2> QED
    BY <2>1, FirstIsPart
<1> HIDE DEF picks
<1>4. DOMAIN p.folds = DOMAIN plan.folds
  BY <1>2
<1>5. ASSUME NEW k \in DOMAIN plan.folds
      PROVE  /\ p.folds[k].query = picks(k)
             /\ p.folds[k].fit = FitRoster(plan.folds[k], plan.eligible)
  BY <1>2, FoldFields
<1> HIDE DEF folds
<1>6. /\ plan \in files /\ plan.kind = "plan" /\ task.rows \subseteq Pairs
      /\ Span(plan) \subseteq Systems
      /\ \A k \in DOMAIN plan.folds : plan.folds[k].query \subseteq Span(plan)
  BY PlansAreSound, TasksHaveRows
<1>7. Span(p) \subseteq Span(plan)
  BY <1>2, <1>3, <1>4, <1>5, <1>6 DEF Span, Queried
<1>8. CalIsDrawn(p)
  BY <1>2, <1>3, <1>4, <1>5 DEF CalIsDrawn
<1>9. PlanIsDrawn(p) /\ PlanIsKept(p)
  BY <1>2, <1>6, <1>7, <1>8 DEF PlanIsDrawn, PlanIsKept
<1>10. FileIsSound(p, files \union {p})
  BY <1>2, <1>6, <1>7, <1>9, PlanIsSound
<1> QED
  BY <1>1, <1>10, Grown

LEMMA RunnerManifestsBuilt ==
  ASSUME LineageInv, NEW cal \in Cals, BuildRunnerManifests(cal)
  PROVE  LineageInv'
<1> DEFINE dev == cal.origin
           p(k) == Plan("e55_runner", cal.task, RunnerEligible(cal, k),
                        <<Fold(cal.folds[k].query, NoRoster, NoCount)>>, cal)
           new == {p(k) : k \in DOMAIN cal.folds}
<1>1. /\ \A k \in DOMAIN dev.folds : cal.folds[k].query \intersect cal.folds[k].fit = {}
      /\ Write(new)
  BY DEF BuildRunnerManifests
<1>2. /\ cal \in files /\ cal.kind = "plan" /\ cal.task.rows \subseteq Pairs
      /\ Span(cal) \subseteq Systems /\ PlanIsKept(cal)
      /\ \A k \in DOMAIN cal.folds : cal.folds[k].query \subseteq Span(cal)
  BY PlansAreSound
<1>3. CalIsDrawn(cal)
  BY <1>2 DEF PlanIsKept, Cals
<1>4. ASSUME NEW k \in DOMAIN cal.folds
      PROVE  FileIsSound(p(k), files \union new)
  <2>1. /\ p(k).kind = "plan" /\ p(k).status = "e55_runner" /\ p(k).task = cal.task
        /\ p(k).eligible = RunnerEligible(cal, k) /\ p(k).origin = cal /\ DOMAIN p(k).folds = {1}
        /\ p(k).folds[1].query = cal.folds[k].query /\ p(k).folds[1].count = NoCount
    BY PlanFields, FoldFields
  <2> HIDE DEF p, new
  <2>2. /\ k \in DOMAIN dev.folds /\ cal.folds[k].fit = FitRoster(dev.folds[k], dev.eligible)
        /\ cal.folds[k].query \subseteq dev.folds[k].query
        /\ \A y \in cal.folds[k].query : ElementsOf[y] \subseteq Elements(cal.folds[k].fit)
        /\ cal.folds[k].fit \subseteq cal.eligible
    BY <1>3 DEF CalIsDrawn, FitRoster
  <2>3. Span(p(k)) \subseteq Span(cal)
    BY <1>2, <2>1, <2>2 DEF Span, Queried, RunnerEligible
  <2>4. p(k).eligible \ p(k).folds[1].query = cal.folds[k].fit
    BY <1>1, <2>1, <2>2 DEF RunnerEligible
  <2>5. DrawnFrom(p(k), 1, dev, k)
    BY <2>1, <2>2, <2>4 DEF DrawnFrom, FitRoster
  <2>6. CountsFit(p(k))
    BY <2>1 DEF CountsFit
  <2>7. PlanIsDrawn(p(k)) /\ PlanIsKept(p(k))
    BY <1>2, <2>1, <2>2, <2>3, <2>5 DEF PlanIsDrawn, PlanIsKept
  <2> QED
    BY <1>2, <2>1, <2>3, <2>6, <2>7, PlanIsSound
<1> HIDE DEF p
<1>5. \A g \in new : FileIsSound(g, files \union new)
  BY <1>4
<1> HIDE DEF new
<1> QED
  BY <1>1, <1>5, Grown

-------------------------------------------------------------------------------
(* The runner.                                                              *)

\* What Run writes.
Outcome(task, query, fit, frozen, needs, plan) ==
  LET fitted == task.split = "development" /\ Cardinality(fit) >= 2 /\ needs
  IN  [kind |-> "result", split |-> task.split, task |-> task, query |-> query,
       fit |-> IF frozen # NoFile THEN frozen.fit ELSE IF fitted THEN fit ELSE {},
       fitRows |-> IF frozen # NoFile THEN frozen.rows ELSE IF fitted THEN FitRows(task, fit) ELSE {},
       frozen |-> frozen, plan |-> plan]

LEMMA RunWrites ==
  ASSUME NEW task, NEW vault, NEW query, NEW fit, NEW frozen, NEW needs, NEW plan,
         Run(task, vault, query, fit, frozen, needs, plan)
  PROVE  /\ Write({Outcome(task, query, fit, frozen, needs, plan)})
         /\ fit \subseteq SystemsIn(task.rows) /\ fit \intersect query = {}
         /\ frozen # NoFile => frozen.fit \intersect query = {}
BY DEF Run, Outcome

\* Whatever model ranks the queries has seen no outcome of theirs.
LEMMA OutcomeIsClean ==
  ASSUME LineageInv, NEW task, NEW vault, NEW query, NEW fit, NEW frozen \in Frozen \union {NoFile},
         NEW needs, NEW plan, Run(task, vault, query, fit, frozen, needs, plan)
  PROVE  LET r == Outcome(task, query, fit, frozen, needs, plan)
         IN  Fitted(r) \intersect r.query = {}
<1> DEFINE r == Outcome(task, query, fit, frozen, needs, plan)
<1>1. /\ fit \intersect query = {}
      /\ frozen # NoFile => frozen.fit \intersect query = {}
  BY RunWrites
<1>2. frozen # NoFile => SystemsIn(frozen.rows) \subseteq frozen.fit
  BY DEF Frozen, OfKind, LineageInv, FileIsSound
<1>3. SystemsIn(FitRows(task, fit)) \subseteq fit /\ SystemsIn({}) = {}
  BY DEF SystemsIn, FitRows
<1>4. /\ r.query = query
      /\ \/ frozen # NoFile /\ r.fitRows = frozen.rows
         \/ r.fitRows = FitRows(task, fit)
         \/ r.fitRows = {}
  BY DEF Outcome
<1> HIDE DEF r
<1>5. Fitted(r) \intersect r.query = {}
  BY <1>1, <1>2, <1>3, <1>4 DEF Fitted
<1> QED
  BY <1>5 DEF r

LEMMA OutcomeFields ==
  ASSUME NEW task, NEW query, NEW fit, NEW frozen, NEW needs, NEW plan
  PROVE  LET r == Outcome(task, query, fit, frozen, needs, plan)
         IN  /\ r.kind = "result" /\ r.task = task /\ r.query = query /\ r.plan = plan
             /\ r.frozen = frozen
             /\ frozen = NoFile => \/ r.fit = fit /\ r.fitRows = FitRows(task, fit)
                                   \/ r.fit = {} /\ r.fitRows = {}
             /\ frozen # NoFile => r.fit = frozen.fit /\ r.fitRows = frozen.rows
BY DEF Outcome

LEMMA PlainRun ==
  ASSUME LineageInv, NEW task, NEW vault, NEW max, NEW frozen \in Frozen \union {NoFile}, NEW needs,
         RunPlain(task, vault, max, frozen, needs)
  PROVE  LineageInv'
<1> DEFINE query == PlainQuery(task, max)
           fit == SystemsIn(task.rows) \ query
           r == Outcome(task, query, fit, frozen, needs, NoFile)
<1>1. Run(task, vault, query, fit, frozen, needs, NoFile)
  BY DEF RunPlain
<1> HIDE DEF query, fit
<1>2. Write({r}) /\ Fitted(r) \intersect r.query = {}
  BY <1>1, RunWrites, OutcomeIsClean
<1>3. r.kind = "result" /\ r.plan.kind = "none"
  BY OutcomeFields DEF NoFile
<1> HIDE DEF r
<1>4. FileIsSound(r, files \union {r})
  BY <1>2, <1>3 DEF FileIsSound
<1> QED
  BY <1>2, <1>4, Grown

LEMMA CurveRun ==
  ASSUME LineageInv, NEW curve \in OfKind("curve"), NEW vault,
         NEW frozen \in Frozen \union {NoFile}, NEW needs, RunCurve(curve, vault, frozen, needs)
  PROVE  LineageInv'
<1> DEFINE fit == SystemsIn(curve.task.rows) \ curve.selected
           use == [kind |-> "curve_use", of |-> curve]
           r == Outcome(curve.task, curve.selected, fit, frozen, needs, use)
<1>1. Run(curve.task, vault, curve.selected, fit, frozen, needs, use)
  BY DEF RunCurve
<1>2. curve.selected \intersect OpenedBy(curve.opened) = {}
  BY DEF OfKind, LineageInv, FileIsSound
<1>3. use.kind = "curve_use" /\ use.of = curve
  OBVIOUS
<1> HIDE DEF fit, use
<1>4. Write({r}) /\ Fitted(r) \intersect r.query = {}
  BY <1>1, RunWrites, OutcomeIsClean
<1>5. r.kind = "result" /\ r.plan = use /\ r.query = curve.selected
  BY OutcomeFields
<1> HIDE DEF r
<1>6. FileIsSound(r, files \union {r})
  BY <1>2, <1>3, <1>4, <1>5 DEF FileIsSound
<1> QED
  BY <1>4, <1>6, Grown

LEMMA FoldRun ==
  ASSUME LineageInv, NEW plan \in Plans, NEW k \in DOMAIN plan.folds, NEW vault,
         NEW frozen \in Frozen \union {NoFile}, NEW needs, RunFold(plan, k, vault, frozen, needs)
  PROVE  LineageInv'
<1> DEFINE fit == CrossfitFit(plan, k)
           query == plan.folds[k].query
           use == [kind |-> "use", of |-> plan, fold |-> k]
           r == Outcome(plan.task, query, fit, frozen, needs, use)
<1>1. Run(plan.task, vault, query, fit, frozen, needs, use)
  BY DEF RunFold
<1>2. use.kind = "use" /\ use.of = plan /\ use.fold = k
  OBVIOUS
<1> HIDE DEF fit, use, query
<1>3. /\ Write({r}) /\ Fitted(r) \intersect r.query = {}
      /\ fit \subseteq SystemsIn(plan.task.rows)
  BY <1>1, RunWrites, OutcomeIsClean
<1>4. /\ r.kind = "result" /\ r.plan = use /\ r.task = plan.task /\ r.query = query
      /\ r.frozen = frozen
      /\ frozen = NoFile => \/ r.fit = fit /\ r.fitRows = FitRows(plan.task, fit)
                            \/ r.fit = {} /\ r.fitRows = {}
      /\ frozen # NoFile => /\ frozen \in files /\ frozen.kind = "frozen"
                            /\ r.fit = frozen.fit /\ r.fitRows = frozen.rows
  BY OutcomeFields DEF Frozen, OfKind
<1> HIDE DEF r
<1>5. FitRows(plan.task, {}) = {}
  BY DEF FitRows
<1>6. plan \in files /\ plan.kind = "plan" /\ plan.status # "e55_cal"
  BY PlansAreSound DEF Plans, Cals
<1>7. ResultIsOfPlan(r, files \union {r})
  BY <1>2, <1>3, <1>4, <1>5, <1>6 DEF ResultIsOfPlan, OwnFit, fit, query
<1>8. FileIsSound(r, files \union {r})
  BY <1>2, <1>3, <1>4, <1>7 DEF FileIsSound
<1> QED
  BY <1>3, <1>8, Grown

-------------------------------------------------------------------------------

\* Every file that the tools make is sound: what a result, a plan, a curve or a
\* JARVIS task owes to the files it was made from, in every order of the tools.
THEOREM FilesAreSound == LineageSpec => []LineageInv
<1>1. LineageInit => LineageInv
  BY DEF LineageInit, LineageInv
<1>2. LineageInv /\ [LineageNext]_lineageVars => LineageInv'
  <2> SUFFICES ASSUME LineageInv, [LineageNext]_lineageVars
               PROVE  LineageInv'
    OBVIOUS
  <2>1. CASE UNCHANGED lineageVars
    BY <2>1 DEF lineageVars, LineageInv
  <2>2. CASE Build
    <3>1. ASSUME NEW r \in Releases, NEW size \in Sizes, BuildTask(r, size) \/ BuildJarvisTask(r, size)
          PROVE  LineageInv'
      BY <3>1, TaskBuilt, JarvisTaskBuilt
    <3>2. ASSUME NEW t \in Tasks, NEW v \in Vaults, NEW d \in Tasks \union {NoFile},
                 BuildConfirmatory(t, v, d, 1, MinimumCandidates) \/ Freeze(t, v, d)
          PROVE  LineageInv'
      BY <3>2, ConfirmatoryBuilt, TransportFrozen
    <3>3. ASSUME NEW t \in Tasks, NEW v \in Vaults, NEW p \in Plans,
                 BuildPoolShift(t, v, p) \/ \E f \in Fractions : BuildQueryPoolShift(t, v, p, f)
          PROVE  LineageInv'
      BY <3>3, PoolShiftBuilt, QueryPoolShiftBuilt
    <3>4. ASSUME NEW t \in Tasks,
                 \/ \E r \in Results : BuildCrossfit(t, r)
                 \/ \E R \in SUBSET Results : BuildCurve(t, R)
          PROVE  LineageInv'
      BY <3>4, CrossfitBuilt, CurveBuilt
    <3>5. ASSUME NEW t \in Tasks, NEW p \in Plans,
                 \/ \E choice \in FoldChoices : BuildCleanroom(t, p, choice)
                 \/ \E n \in {1, 2} : BuildEquivalence(t, p, n)
                 \/ BuildConvergence(t, p)
          PROVE  LineageInv'
      BY <3>5, CleanroomBuilt, EquivalenceBuilt, ConvergenceBuilt
    <3>6. ASSUME NEW p \in Cals, BuildRunnerManifests(p)
          PROVE  LineageInv'
      BY <3>6, RunnerManifestsBuilt
    <3> QED
      BY <2>2, <3>1, <3>2, <3>3, <3>4, <3>5, <3>6 DEF Build
  <2>3. CASE RunSomething
    <3>1. ASSUME NEW v \in Vaults, NEW x \in Frozen \union {NoFile}, NEW needs \in BOOLEAN,
                 \E t \in Tasks, max \in {1, 2} : RunPlain(t, v, max, x, needs)
          PROVE  LineageInv'
      BY <3>1, PlainRun
    <3>2. ASSUME NEW v \in Vaults, NEW x \in Frozen \union {NoFile}, NEW needs \in BOOLEAN,
                 \E p \in Plans : \E k \in DOMAIN p.folds : RunFold(p, k, v, x, needs)
          PROVE  LineageInv'
      BY <3>2, FoldRun
    <3>3. ASSUME NEW v \in Vaults, NEW x \in Frozen \union {NoFile}, NEW needs \in BOOLEAN,
                 \E c \in OfKind("curve") : RunCurve(c, v, x, needs)
          PROVE  LineageInv'
      BY <3>3, CurveRun
    <3> QED
      BY <2>3, <3>1, <3>2, <3>3 DEF RunSomething
  <2> QED
    BY <2>1, <2>2, <2>3 DEF LineageNext
<1> QED
  BY <1>1, <1>2, PTL DEF LineageSpec

-------------------------------------------------------------------------------
(* Lines of plans.                                                          *)

\* From every plan, a line of files leads back.
LEMMA LineIsDefined ==
  ASSUME LineageInv, NEW plan \in files
  PROVE  /\ Line(plan)[0] = plan
         /\ \A n \in Nat : Line(plan)[n] \in files
         /\ \A n \in Nat : Line(plan)[n + 1] =
              IF Line(plan)[n].kind = "plan" THEN Line(plan)[n].origin ELSE Line(plan)[n]
<1> DEFINE step == [f \in files |-> IF f.kind = "plan" THEN f.origin ELSE f]
           Is(line) == line = [n \in Nat |->
             IF n = 0 THEN plan
             ELSE LET child == line[n - 1] IN IF child.kind = "plan" THEN child.origin ELSE child]
<1>1. step \in [files -> files]
  BY DEF LineageInv, FileIsSound
<1> HIDE DEF step
<1>2. PICK g \in [Nat -> files] : g = [n \in Nat |-> IF n = 0 THEN plan ELSE step[g[n - 1]]]
  BY <1>1, RepeatExists
<1>3. \A n \in Nat : n # 0 => step[g[n - 1]] = (IF g[n - 1].kind = "plan" THEN g[n - 1].origin ELSE g[n - 1])
  BY <1>2 DEF step
<1>4. Is(g)
  BY <1>2, <1>3, Zenon
<1>5. Line(plan) = CHOOSE line : Is(line)
  BY Zenon DEF Line
<1>6. Is(Line(plan))
  BY <1>4, <1>5
<1>7. ASSUME NEW h, Is(h)
      PROVE  /\ h[0] = plan
             /\ \A n \in Nat : h[n + 1] = IF h[n].kind = "plan" THEN h[n].origin ELSE h[n]
  BY <1>7
<1> HIDE DEF Is
<1> DEFINE P == {n \in Nat : Line(plan)[n] \in files}
<1>8. 0 \in P
  BY <1>6, <1>7
<1>9. ASSUME NEW n \in Nat, n \in P
      PROVE  n + 1 \in P
  BY <1>6, <1>7, <1>9 DEF LineageInv, FileIsSound
<1> HIDE DEF P
<1>10. \A n \in Nat : n \in P
  BY <1>8, <1>9, NumberInduction
<1> QED
  BY <1>6, <1>7, <1>10 DEF P

\* Along a line without a confirmation roster every plan has the systems of the
\* plan, and the result at its end has queried none of them.
LEMMA LineKeepsSpan ==
  ASSUME LineageInv, NEW plan \in files, plan.kind = "plan"
  PROVE  \A n \in Nat :
           (\A i \in 0..n : Line(plan)[i].kind = "plan" => Line(plan)[i].status # "confirmation") =>
             \/ Line(plan)[n].kind = "plan" /\ Span(plan) \subseteq Span(Line(plan)[n])
             \/ Line(plan)[n].kind = "result" /\ Span(plan) \intersect Line(plan)[n].query = {}
<1> DEFINE clean(n) ==
             \A i \in 0..n : Line(plan)[i].kind = "plan" => Line(plan)[i].status # "confirmation"
           kept(n) ==
             \/ Line(plan)[n].kind = "plan" /\ Span(plan) \subseteq Span(Line(plan)[n])
             \/ Line(plan)[n].kind = "result" /\ Span(plan) \intersect Line(plan)[n].query = {}
           P == {n \in Nat : clean(n) => kept(n)}
<1>1. 0 \in P
  BY LineIsDefined
<1>2. ASSUME NEW n \in Nat, n \in P
      PROVE  n + 1 \in P
  <2> SUFFICES ASSUME clean(n + 1)
               PROVE  kept(n + 1)
    OBVIOUS
  <2> DEFINE here == Line(plan)[n]
             next == Line(plan)[n + 1]
  <2>1. clean(n) /\ (here.kind = "plan" => here.status # "confirmation")
    OBVIOUS
  <2>2. kept(n)
    BY <1>2, <2>1
  <2>3. here \in files /\ next = IF here.kind = "plan" THEN here.origin ELSE here
    BY LineIsDefined
  <2> HIDE DEF here, next
  <2>4. CASE here.kind = "plan"
    <3>1. Span(plan) \subseteq Span(here) /\ next = here.origin
      BY <2>2, <2>3, <2>4 DEF here
    <3>2. PlanIsDrawn(here) /\ here.status # "confirmation"
      BY <2>1, <2>3, <2>4 DEF LineageInv, FileIsSound
    <3>3. \/ next.kind = "result" /\ Span(here) \intersect next.query = {}
          \/ next.kind = "plan" /\ Span(here) \subseteq Span(next)
      BY <3>1, <3>2 DEF PlanIsDrawn
    <3> QED
      BY <3>1, <3>3 DEF next
  <2>5. CASE here.kind # "plan"
    BY <2>2, <2>3, <2>5 DEF here, next
  <2> QED
    BY <2>4, <2>5
<1> HIDE DEF P
<1>3. \A n \in Nat : n \in P
  BY <1>1, <1>2, NumberInduction
<1> QED
  BY <1>3 DEF P

-------------------------------------------------------------------------------

\* No outcome of a queried system is in the model that ranks its candidates; a
\* run under a development plan queries no system that the opened result behind
\* the plan has evaluated, however many plans lie between, and fits on none
\* unless it is given a frozen model; a curve queries nothing opened before; no
\* phase of the JARVIS task is sealed.
THEOREM NoOutcomeLeaks == LineageSpec => []NothingLeaks
<1>1. LineageInv => NothingLeaks
  <2> SUFFICES ASSUME LineageInv
               PROVE  NothingLeaks
    OBVIOUS
  <2>1. ASSUME NEW r \in Results
        PROVE  /\ Fitted(r) \intersect r.query = {}
               /\ r.plan.kind = "curve_use" => r.query \intersect OpenedBy(r.plan.of.opened) = {}
    BY DEF Results, OfKind, LineageInv, FileIsSound
  <2>2. ASSUME NEW r \in Results, r.plan.kind = "use",
               \A p \in Ancestors(r.plan.of) : p.kind = "plan" => p.status # "confirmation",
               NEW opened \in Ancestors(r.plan.of), opened.kind = "result"
        PROVE  /\ opened.query \intersect r.query = {}
               /\ OwnFit(r) => opened.query \intersect Fitted(r) = {}
    <3> DEFINE plan == r.plan.of
    <3>1. ResultIsOfPlan(r, files)
      BY <2>2 DEF Results, OfKind, LineageInv, FileIsSound
    <3>2. plan \in files /\ plan.kind = "plan"
      BY <3>1 DEF ResultIsOfPlan
    <3>3. r.query \subseteq Span(plan)
      BY <3>1 DEF ResultIsOfPlan, Span, Queried
    <3>4. OwnFit(r) => Fitted(r) \subseteq Span(plan)
      <4>1. OwnFit(r) => Fitted(r) \subseteq r.fit
        BY <3>1 DEF ResultIsOfPlan, Fitted, FitRows, SystemsIn
      <4>2. OwnFit(r) => r.fit \subseteq plan.eligible
        BY <3>1 DEF ResultIsOfPlan, CrossfitFit
      <4> QED
        BY <4>1, <4>2 DEF Span
    <3> HIDE DEF plan
    <3>5. PICK n \in 0..LineLength : opened = Line(plan)[n]
      BY <2>2 DEF Ancestors, plan
    <3>6. n \in Nat
      BY LineageAssumption
    <3>7. \A i \in 0..n : Line(plan)[i].kind = "plan" => Line(plan)[i].status # "confirmation"
      <4> TAKE i \in 0..n
      <4>1. i \in 0..LineLength
        BY LineageAssumption
      <4> QED
        BY <2>2, <4>1 DEF Ancestors, plan
    <3>8. Span(plan) \intersect opened.query = {}
      BY <2>2, <3>2, <3>5, <3>6, <3>7, LineKeepsSpan
    <3> QED
      BY <3>3, <3>4, <3>8
  <2>3. ASSUME NEW j \in OfKind("jarvis")
        PROVE  /\ j.calibration \intersect j.evaluation = {}
               /\ \A y \in DOMAIN j.phases : j.phases[y] \intersect j.rows = {}
    BY DEF OfKind, LineageInv, FileIsSound
  <2> QED
    BY <2>1, <2>2, <2>3 DEF NothingLeaks
<1> QED
  BY <1>1, FilesAreSound, PTL

\* A result without a frozen model is fitted on the roster that its plan
\* registered: on as many systems as the fold counts, in the convergence study
\* on what the whole fold leaves, with every element of its queries where a
\* study promises that; development plans query every registered system exactly
\* once.
THEOREM RostersAreHonoured == LineageSpec => []RosterHonoured
<1>1. LineageInv => RosterHonoured
  <2> SUFFICES ASSUME LineageInv
               PROVE  RosterHonoured
    OBVIOUS
  <2>1. ASSUME NEW p \in Plans,
               \/ p.status \in {"crossfit", "development"}
               \/ p.status = "pool_shift" /\ QueriesOnce(p.origin)
        PROVE  QueriesOnce(p)
    <3>1. PlanIsDrawn(p) /\ PlanIsKept(p)
      BY PlansAreSound
    <3> QED
      BY <2>1, <3>1 DEF PlanIsDrawn, PlanIsKept, QueriesOnce, Queried
  <2>2. ASSUME NEW r \in Results, r.plan.kind = "use", r.fit # {}
        PROVE  LET plan == r.plan.of
                   fold == plan.folds[r.plan.fold]
               IN  /\ r.query = fold.query /\ Fitted(r) = r.fit
                   /\ OwnFit(r) =>
                        /\ fold.count # NoCount => Cardinality(r.fit) = fold.count
                        /\ plan.status = "e55_runner" =>
                             LET dev == plan.origin.origin
                             IN  \E k \in DOMAIN dev.folds :
                                   /\ r.query \subseteq dev.folds[k].query
                                   /\ r.fit = dev.eligible \ dev.folds[k].query
                        /\ plan.status \in {"e55_runner", "equivalence"} =>
                             \A y \in r.query : ElementsOf[y] \subseteq Elements(Fitted(r))
    <3> DEFINE plan == r.plan.of
               k == r.plan.fold
    <3>1. ResultIsOfPlan(r, files)
      BY <2>2 DEF Results, OfKind, LineageInv, FileIsSound
    <3>2. /\ plan \in files /\ plan.kind = "plan" /\ k \in DOMAIN plan.folds
          /\ r.query = plan.folds[k].query
          /\ OwnFit(r) => r.fit = plan.eligible \ plan.folds[k].query
      BY <2>2, <3>1 DEF ResultIsOfPlan, CrossfitFit
    <3>3. Fitted(r) = r.fit
      <4>1. CASE OwnFit(r)
        BY <3>1, <4>1 DEF ResultIsOfPlan, Fitted, FitRows, SystemsIn
      <4>2. CASE ~OwnFit(r)
        <5>1. /\ r.frozen \in files /\ r.frozen.kind = "frozen"
              /\ r.fit = r.frozen.fit /\ r.fitRows = r.frozen.rows
          BY <3>1, <4>2 DEF ResultIsOfPlan
        <5> QED
          BY <5>1 DEF Fitted, LineageInv, FileIsSound
      <4> QED
        BY <4>1, <4>2
    <3>4. PlanIsKept(plan) /\ (plan.status # "e55_cal" => CountsFit(plan))
      BY <3>2 DEF LineageInv, FileIsSound
    <3>5. plan.status # "e55_cal"
      BY <3>1 DEF ResultIsOfPlan
    <3> HIDE DEF plan, k
    <3>6. OwnFit(r) /\ plan.folds[k].count # NoCount => Cardinality(r.fit) = plan.folds[k].count
      BY <3>2, <3>4, <3>5 DEF CountsFit
    <3>7. ASSUME plan.status = "e55_runner"
          PROVE  \E j \in DOMAIN plan.origin.origin.folds : DrawnFrom(plan, k, plan.origin.origin, j)
      BY <3>2, <3>4, <3>7 DEF PlanIsKept
    <3>8. ASSUME plan.status = "equivalence", OwnFit(r)
          PROVE  \A y \in r.query : ElementsOf[y] \subseteq Elements(r.fit)
      BY <3>2, <3>4, <3>8 DEF PlanIsKept
    <3> QED
      BY <3>2, <3>3, <3>6, <3>7, <3>8 DEF DrawnFrom, plan, k
  <2> QED
    BY <2>1, <2>2 DEF RosterHonoured
<1> QED
  BY <1>1, FilesAreSound, PTL

-------------------------------------------------------------------------------
(* Pools of several sizes.                                                  *)

\* Of a system, a pool has all rows of the full one, the first ones or none.
PartOfPool(rows, all, y) ==
  \/ RowsOf(rows, y) = RowsOf(all, y)
  \/ \E percent \in Nat : RowsOf(rows, y) = Prefix("query_pool", RowsOf(all, y), percent)
  \/ RowsOf(rows, y) = {}

LEMMA PartsAreNested ==
  ASSUME NEW all, all \subseteq Pairs, NEW y, NEW few, NEW more,
         PartOfPool(few, all, y), PartOfPool(more, all, y)
  PROVE  \/ RowsOf(few, y) \subseteq RowsOf(more, y)
         \/ RowsOf(more, y) \subseteq RowsOf(few, y)
<1> DEFINE rows == RowsOf(all, y)
           size(percent) == (Cardinality(rows) * percent + 99) \div 100
<1>1. IsFiniteSet(rows)
  BY RowsAreOfTheirSystem, PairsHaveSystems, FS_Subset
<1> HIDE DEF rows
<1>2. \A percent \in Nat : size(percent) \in Int
  BY <1>1, FS_CardinalityType
<1> HIDE DEF size
<1>3. \A percent : Prefix("query_pool", rows, percent) = First(size(percent), "query_pool", rows)
  BY DEF Prefix, size
<1>4. \A percent : Prefix("query_pool", rows, percent) \subseteq rows
  BY <1>3, FirstIsPart
<1>5. \A p, q \in Nat : \/ Prefix("query_pool", rows, p) \subseteq Prefix("query_pool", rows, q)
                        \/ Prefix("query_pool", rows, q) \subseteq Prefix("query_pool", rows, p)
  <2> TAKE p, q \in Nat
  <2>1. size(p) \in Int /\ size(q) \in Int /\ (size(p) <= size(q) \/ size(q) <= size(p))
    BY <1>2
  <2> QED
    BY <1>1, <1>3, <2>1, FirstGrows
<1> QED
  BY <1>4, <1>5 DEF PartOfPool, rows

\* What a result under a plan has in common with the fold it goes back to.
LEMMA OfItsBaseFold ==
  ASSUME LineageInv, NEW r \in Results, r.plan.kind = "use", r.fit # {}
  PROVE  LET base == BaseFold(r.plan)[1]
             query == base.folds[BaseFold(r.plan)[2]].query
         IN  /\ base.task.rows \subseteq Pairs /\ r.query = query
             /\ OwnFit(r) => r.fitRows = FitRows(base.task, base.eligible \ query)
             /\ ~OwnFit(r) => r.fitRows = r.frozen.rows
             /\ \A y \in r.query : PartOfPool(r.task.rows, base.task.rows, y)
<1> DEFINE plan == r.plan.of
           k == r.plan.fold
           origin == plan.origin
           Goal(base, j) ==
             /\ base.task.rows \subseteq Pairs /\ r.query = base.folds[j].query
             /\ OwnFit(r) => r.fitRows = FitRows(base.task, base.eligible \ base.folds[j].query)
             /\ ~OwnFit(r) => r.fitRows = r.frozen.rows
             /\ \A y \in r.query : PartOfPool(r.task.rows, base.task.rows, y)
<1>1. ResultIsOfPlan(r, files)
  BY DEF Results, OfKind, LineageInv, FileIsSound
<1>2. /\ plan \in files /\ plan.kind = "plan" /\ k \in DOMAIN plan.folds /\ r.task = plan.task
      /\ r.query = plan.folds[k].query
      /\ OwnFit(r) => /\ r.fit = plan.eligible \ plan.folds[k].query
                      /\ r.fitRows = FitRows(plan.task, r.fit)
      /\ ~OwnFit(r) => r.fitRows = r.frozen.rows
  BY <1>1 DEF ResultIsOfPlan, CrossfitFit
<1>3. /\ PlanIsKept(plan) /\ PlanIsDrawn(plan) /\ plan.task.rows \subseteq Pairs /\ origin \in files
  BY <1>2 DEF LineageInv, FileIsSound
<1> HIDE DEF plan, k
<1>4. CASE plan.status = "query_pool_shift"
  <2> DEFINE j == plan.task.made.fold
             percent == plan.task.made.percent
  <2>1. BaseFold(r.plan) = <<origin, j>>
    BY <1>4 DEF BaseFold, plan
  <2>2. /\ DOMAIN plan.folds = {1} /\ plan.eligible = origin.eligible /\ percent \in Nat
        /\ plan.folds[1].query = origin.folds[j].query
        /\ plan.task.rows = QueryShifted(origin.task, plan.eligible, plan.folds[1].query, percent)
    BY <1>3, <1>4 DEF PlanIsKept
  <2>3. k = 1 /\ origin.kind = "plan"
    BY <1>2, <1>3, <1>4, <2>2 DEF PlanIsDrawn
  <2>4. origin.task.rows \subseteq Pairs
    BY <1>3, <2>3 DEF LineageInv, FileIsSound
  <2> HIDE DEF origin, j, percent
  <2> DEFINE fit == origin.eligible \ r.query
  <2>5. /\ r.query = origin.folds[j].query /\ (OwnFit(r) => r.fit = fit)
        /\ r.task.rows = QueryShifted(origin.task, origin.eligible, r.query, percent)
    BY <1>2, <2>2, <2>3
  <2>6. /\ r.task.rows \subseteq origin.task.rows
        /\ \A y \in fit : RowsOf(r.task.rows, y) = RowsOf(origin.task.rows, y)
        /\ \A y \in origin.eligible \intersect r.query :
             RowsOf(r.task.rows, y) = Prefix("query_pool", RowsOf(origin.task.rows, y), percent)
        /\ \A y : y \notin origin.eligible => RowsOf(r.task.rows, y) = {}
    BY <2>5, QueryShiftedRows
  <2>7. FitRows(r.task, fit) = FitRows(origin.task, fit)
    <3>1. ASSUME NEW p, SystemOf[p] \in fit
          PROVE  p \in r.task.rows <=> p \in origin.task.rows
      <4>1. p \in RowsOf(r.task.rows, SystemOf[p]) <=> p \in RowsOf(origin.task.rows, SystemOf[p])
        BY <2>6, <3>1
      <4> QED
        BY <4>1 DEF RowsOf
    <3> QED
      BY <3>1 DEF FitRows
  <2>8. \A y \in r.query : PartOfPool(r.task.rows, origin.task.rows, y)
    BY <2>2, <2>6 DEF PartOfPool
  <2>9. Goal(origin, j)
    BY <1>2, <2>4, <2>5, <2>7, <2>8
  <2> QED
    BY <2>1, <2>9
<1>5. CASE plan.status = "pool_shift" /\ plan.task.made.percent = 100
  <2>1. BaseFold(r.plan) = <<origin, k>>
    BY <1>5 DEF BaseFold, plan, k
  <2>2. /\ plan.eligible = origin.eligible /\ plan.folds = origin.folds
        /\ plan.task.rows = origin.task.rows
    BY <1>3, <1>5 DEF PlanIsKept
  <2> HIDE DEF origin
  <2>3. Goal(origin, k)
    BY <1>2, <1>3, <2>2 DEF PartOfPool, FitRows
  <2> QED
    BY <2>1, <2>3
<1>6. CASE /\ plan.status # "query_pool_shift"
           /\ ~(plan.status = "pool_shift" /\ plan.task.made.percent = 100)
  <2>1. BaseFold(r.plan) = <<plan, k>>
    BY <1>6 DEF BaseFold, plan, k
  <2>2. Goal(plan, k)
    BY <1>2, <1>3 DEF PartOfPool
  <2> QED
    BY <2>1, <2>2
<1> QED
  BY <1>4, <1>5, <1>6

\* Results of one fold, on its own pool, on a reduced one or on the full variant
\* of the shifted pools, with the same frozen model or none, have the same
\* queries, the same model and, of every query, candidates of which one has a
\* part of the other's.
THEOREM PoolsShareTheirModel == LineageSpec => []SameModelAcrossPools
<1>1. LineageInv => SameModelAcrossPools
  <2> SUFFICES ASSUME LineageInv, NEW r \in Results, NEW s \in Results,
                      r.plan.kind = "use", r.fit # {}, s.plan.kind = "use", s.fit # {},
                      BaseFold(r.plan) = BaseFold(s.plan), r.frozen = s.frozen
               PROVE  /\ r.query = s.query /\ r.fitRows = s.fitRows
                      /\ \A y \in r.query : \/ RowsOf(r.task.rows, y) \subseteq RowsOf(s.task.rows, y)
                                           \/ RowsOf(s.task.rows, y) \subseteq RowsOf(r.task.rows, y)
    BY DEF SameModelAcrossPools
  <2> DEFINE base == BaseFold(r.plan)[1]
  <2>1. /\ base.task.rows \subseteq Pairs /\ r.query = s.query /\ r.fitRows = s.fitRows
        /\ \A y \in r.query : /\ PartOfPool(r.task.rows, base.task.rows, y)
                             /\ PartOfPool(s.task.rows, base.task.rows, y)
    BY OfItsBaseFold DEF OwnFit
  <2> HIDE DEF base
  <2> QED
    BY <2>1, PartsAreNested
<1> QED
  BY <1>1, FilesAreSound, PTL

===============================================================================

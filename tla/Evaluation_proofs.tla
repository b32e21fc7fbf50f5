--------------------------- MODULE Evaluation_proofs ---------------------------
(***************************************************************************)
(* What the evaluation of a campaign promises, for every size: the paired  *)
(* sign-flip test keeps its level and its interval says what the test      *)
(* says, certificates about the hull are true, complete once all is        *)
(* revealed and never withdrawn, the monotone chain is the lower hull, it  *)
(* gives the labels and energies of the envelope of all decompositions,    *)
(* and a trace only revokes what it declared stable.                       *)
(*                                                                         *)
(* Level: flipping a pattern permutes the sign patterns, so the patterns   *)
(* that the data could have shown share one set of flipped means.  Among   *)
(* the significant ones take one that shows least: every significant one   *)
(* shows as much or more and is therefore counted in its p-value.          *)
(*                                                                         *)
(* Interval: as the hypothesis moves towards the mean, what is observed    *)
(* shrinks by the most that any pattern's flipped mean can, so the set of  *)
(* patterns that exceed it only grows: the accepted hypotheses have no gap *)
(* on either side of the mean.                                             *)
(*                                                                         *)
(* Certificates: the linear program has a mixture to choose, that of the   *)
(* elements; shares are natural numbers, so the cheapest mixture grows     *)
(* with the energies and lies between its values at the two endpoints; a   *)
(* reveal narrows the endpoints around the truth.                          *)
(*                                                                         *)
(* Radius: of the clusters that their own radius misses take one with the  *)
(* least error: the clusters that its radius was calibrated to lie above   *)
(* have smaller errors and are therefore covered.                          *)
(*                                                                         *)
(* Chain: every step keeps a chain of strict left turns below all points   *)
(* so far.  The points popped are a suffix, by the order of the slopes     *)
(* along a convex chain, and lie above the line that replaces them.        *)
(*                                                                         *)
(* Hull: the entries left out of the chain are above the line of the       *)
(* elements, so no entry is below a line of two neighbours of the chain;   *)
(* a mixture of entries is not below such a line either, and the mixture   *)
(* of the two neighbours is on it: the chain gives the cheapest mixture.   *)
(*                                                                         *)
(* Trace: the diagram is the references and the phases of what was         *)
(* selected.  The hull sinks when phases are added, so who is not above it *)
(* now was not when selected.  A later call has the same phases in another *)
(* order, so the chain is the same, and only the names can decide          *)
(* differently between exact ties.                                         *)
(***************************************************************************)
EXTENDS PairedRandomization, CampaignEvaluation, DataFacts

\* Finitely many sign patterns, and one at least.
LEMMA SignsAreFinite ==
  ASSUME NEW n \in Nat
  PROVE  /\ IsFiniteSet(Signs(n)) /\ Draws(n) \in Nat \ {0}
         /\ [k \in 1..n |-> 1] \in Signs(n)
<1> DEFINE Plus == [s \in Signs(n) |-> {k \in 1..n : s[k] = 1}]
<1>1. Plus \in [Signs(n) -> SUBSET (1..n)]
  OBVIOUS
<1>2. ASSUME NEW s \in Signs(n), NEW t \in Signs(n), Plus[s] = Plus[t]
      PROVE  s = t
  <2>1. \A k \in 1..n : s[k] \in {-1, 1} /\ t[k] \in {-1, 1} /\ (s[k] = 1 <=> t[k] = 1)
    BY <1>2 DEF Signs
  <2> QED
    BY <2>1 DEF Signs
<1>3. Plus \in Injection(Signs(n), SUBSET (1..n))
  BY <1>1, <1>2 DEF Injection, IsInjective
<1>4. IsFiniteSet(1..n)
  BY FS_Interval
<1>5. IsFiniteSet(SUBSET (1..n))
  BY <1>4, FS_SUBSET
<1>6. IsFiniteSet(Signs(n))
  BY <1>3, <1>5, FS_Injection
<1>7. [k \in 1..n |-> 1] \in Signs(n)
  BY DEF Signs
<1> QED
  BY <1>6, <1>7, FS_CardinalityType, FS_EmptySet DEF Draws

\* A sign takes a difference apart.
LEMMA SignedTerm ==
  ASSUME NEW e \in {-1, 1}, NEW x \in Int, NEW u \in Int, NEW theta \in Int
  PROVE  /\ u * x \in Int /\ e * (u * x) \in Int /\ e * (u * x - theta) \in Int
         /\ e * (u * x - theta) = e * (u * x) + (0 - theta) * e
<1>1. PICK y \in Int : y = u * x
  OBVIOUS
<1>2. \A f \in {-1, 1} : f * (y - theta) = f * y + (0 - theta) * f
  OBVIOUS
<1> QED
  BY <1>1, <1>2

\* A sum of flipped terms: what the data give, less theta times the signs.
DataSum(d, s) == SumFunctionOnSet([k \in DOMAIN d |-> s[k] * (Unit * d[k])], DOMAIN d)
SignSum(d, s) == SumFunctionOnSet(s, DOMAIN d)

\* The same over any set, for a sequence to be put in.
LEMMA FlippedOver ==
  ASSUME NEW D, IsFiniteSet(D), NEW d \in [D -> Int], NEW s \in [D -> {-1, 1}],
         NEW theta \in Int
  PROVE  /\ DataSum(d, s) \in Int
         /\ Flipped(d, s, theta) = DataSum(d, s) + (0 - theta) * SignSum(d, s)
<1> DEFINE F == [k \in D |-> s[k] * (Unit * d[k] - theta)]
           G == [k \in D |-> s[k] * (Unit * d[k])]
<1>0. Unit \in Int
  BY RandomizationAssumption
<1>1. PICK b \in Int : b = 0 - theta
  OBVIOUS
<1>2. \A k \in D : /\ s[k] \in Int
                   /\ s[k] * (Unit * d[k]) \in Int /\ s[k] * (Unit * d[k] - theta) \in Int
                   /\ s[k] * (Unit * d[k] - theta) = s[k] * (Unit * d[k]) + b * s[k]
  BY <1>0, <1>1, SignedTerm
<1>3. D \in SUBSET D
  OBVIOUS
<1>4. F \in [D -> Int]
  BY <1>2
<1>5. G \in [D -> Int]
  BY <1>2
<1>6. s \in [D -> Int]
  OBVIOUS
<1>7. 1 \in Int /\ 0 - b \in Int
  OBVIOUS
<1>8. \A k \in D : 1 * F[k] <= G[k] + b * s[k] /\ 1 * G[k] <= F[k] + (0 - b) * s[k]
  <2> TAKE k \in D
  <2>1. b * s[k] \in Int /\ (0 - b) * s[k] = 0 - b * s[k]
    BY <1>2, Distributes
  <2> QED
    BY <1>2, <2>1
<1> HIDE DEF F, G
<1>9. SumFunctionOnSet(F, D) \in Int /\ SumFunctionOnSet(G, D) \in Int /\ SumFunctionOnSet(s, D) \in Int
  BY <1>4, <1>5, <1>6, SumIsInt
<1>10. 1 * SumFunctionOnSet(F, D) <= SumFunctionOnSet(G, D) + b * SumFunctionOnSet(s, D)
  BY <1>3, <1>4, <1>5, <1>6, <1>7, <1>8, SumCompares, Zenon
<1>11. 1 * SumFunctionOnSet(G, D) <= SumFunctionOnSet(F, D) + (0 - b) * SumFunctionOnSet(s, D)
  BY <1>3, <1>4, <1>5, <1>6, <1>7, <1>8, SumCompares, Zenon
<1>12. SumFunctionOnSet(F, D) = SumFunctionOnSet(G, D) + b * SumFunctionOnSet(s, D)
  <2>1. PICK f, g, h \in Int : /\ f = SumFunctionOnSet(F, D) /\ g = SumFunctionOnSet(G, D)
                               /\ h = SumFunctionOnSet(s, D)
    BY <1>9
  <2>2. b * h \in Int /\ (0 - b) * h = 0 - b * h
    BY Distributes
  <2>3. 1 * f <= g + b * h /\ 1 * g <= f + (0 - b) * h
    BY <1>10, <1>11, <2>1
  <2>4. f = g + b * h
    BY <2>2, <2>3
  <2> QED
    BY <2>1, <2>4
<1>13. Flipped(d, s, theta) = SumFunctionOnSet(F, D) /\ DataSum(d, s) = SumFunctionOnSet(G, D)
         /\ SignSum(d, s) = SumFunctionOnSet(s, D)
  BY DEF Flipped, DataSum, SignSum, F, G
<1> QED
  BY <1>1, <1>9, <1>12, <1>13

\* Signs sum to no more than there are.
LEMMA SumOfSigns ==
  ASSUME NEW D, IsFiniteSet(D), NEW s \in [D -> {-1, 1}]
  PROVE  /\ SumFunctionOnSet(s, D) \in Int
         /\ SumFunctionOnSet(s, D) <= Cardinality(D)
         /\ 0 - SumFunctionOnSet(s, D) <= Cardinality(D)
<1> DEFINE One == [k \in D |-> 1]
           Zero == [k \in D |-> 0]
<1>1. D \in SUBSET D
  OBVIOUS
<1>2. s \in [D -> Int] /\ One \in [D -> Int] /\ Zero \in [D -> Int]
  OBVIOUS
<1>3. \A k \in D : 1 * s[k] <= One[k] + 0 * Zero[k] /\ (-1) * s[k] <= One[k] + 0 * Zero[k]
  OBVIOUS
<1>4. \A k \in D : One[k] = 1
  OBVIOUS
<1>5. 0 \in Int /\ 1 \in Int /\ -1 \in Int
  OBVIOUS
<1> HIDE DEF One, Zero
<1>6. SumFunctionOnSet(s, D) \in Int /\ SumFunctionOnSet(Zero, D) \in Int
  BY <1>1, <1>2, SumAdds
<1>7. SumFunctionOnSet(One, D) = Cardinality(D) /\ Cardinality(D) \in Nat
  BY <1>1, <1>2, <1>4, SumCounts, FS_CardinalityType
<1>8. 1 * SumFunctionOnSet(s, D) <= SumFunctionOnSet(One, D) + 0 * SumFunctionOnSet(Zero, D)
  BY <1>1, <1>2, <1>3, <1>5, SumCompares
<1>9. (-1) * SumFunctionOnSet(s, D) <= SumFunctionOnSet(One, D) + 0 * SumFunctionOnSet(Zero, D)
  BY <1>1, <1>2, <1>3, <1>5, SumCompares
<1> QED
  BY <1>6, <1>7, <1>8, <1>9

LEMMA OnesCount ==
  ASSUME NEW n \in Nat, NEW s \in [1..n -> Int], \A k \in 1..n : s[k] = 1
  PROVE  SumFunctionOnSet(s, 1..n) = n
<1>1. IsFiniteSet(1..n) /\ Cardinality(1..n) = n /\ 1..n \in SUBSET (1..n)
  BY FS_Interval
<1> QED
  BY <1>1, SumCounts

LEMMA FlippedIsLinear ==
  ASSUME NEW n \in Nat, NEW d \in [1..n -> Int], NEW s \in Signs(n), NEW theta \in Int
  PROVE  /\ DataSum(d, s) \in Int /\ SignSum(d, s) \in Int
         /\ Flipped(d, s, theta) = DataSum(d, s) + (0 - theta) * SignSum(d, s)
         /\ SignSum(d, s) <= n /\ 0 - SignSum(d, s) <= n
<1>1. DOMAIN d = 1..n
  OBVIOUS
<1>2. IsFiniteSet(1..n) /\ Cardinality(1..n) = n
  BY FS_Interval
<1>3. Unit \in Int /\ s \in [1..n -> {-1, 1}]
  BY RandomizationAssumption DEF Signs
<1>4. DataSum(d, s) \in Int /\ Flipped(d, s, theta) = DataSum(d, s) + (0 - theta) * SignSum(d, s)
  BY <1>1, <1>2, <1>3, FlippedOver
<1>5. /\ SignSum(d, s) \in Int
      /\ SignSum(d, s) <= n /\ 0 - SignSum(d, s) <= n
  BY <1>1, <1>2, <1>3, SumOfSigns DEF SignSum
<1> QED
  BY <1>4, <1>5

\* With no sign flipped the signs sum to the size of the sample.
LEMMA AsSeenIsLinear ==
  ASSUME NEW n \in Nat, NEW d \in [1..n -> Int], NEW theta \in Int
  PROVE  LET a == DataSum(d, [k \in 1..n |-> 1])
         IN  a \in Int /\ AsSeen(d, theta) = a + (0 - theta) * n
<1> DEFINE One == [k \in 1..n |-> 1]
           a == DataSum(d, One)
<1>1. DOMAIN d = 1..n
  OBVIOUS
<1>2. One \in Signs(n) /\ One \in [1..n -> Int] /\ \A k \in 1..n : One[k] = 1
  BY SignsAreFinite
<1>3. a \in Int /\ AsSeen(d, theta) = a + (0 - theta) * SignSum(d, One)
  BY <1>1, <1>2, FlippedIsLinear DEF AsSeen
<1> HIDE DEF One
<1>4. SignSum(d, One) = n
  BY <1>1, <1>2, OnesCount DEF SignSum
<1> QED
  BY <1>3, <1>4 DEF One

-------------------------------------------------------------------------------
(* The level of the test.                                                   *)

LEMMA SignedTwice ==
  ASSUME NEW e \in {-1, 1}, NEW f \in {-1, 1}, NEW x \in Int, NEW u \in Int
  PROVE  /\ e * f \in {-1, 1} /\ e * (e * f) = f /\ e * x \in Int /\ (e * x = 0 <=> x = 0)
         /\ f * (u * (e * x) - 0) = (e * f) * (u * x - 0)
<1>1. PICK y \in Int : y = u * x
  OBVIOUS
<1>2. u * (-1 * x) = 0 - y /\ u * (1 * x) = y
  BY <1>1
<1> QED
  BY <1>1, <1>2

\* Flipping the flipped data is flipping the data by the product of the signs.
Times(s, x) == [k \in DOMAIN x |-> s[k] * x[k]]

LEMMA TwoFlips ==
  ASSUME NEW n \in Nat, NEW d \in [1..n -> Int], NEW s \in Signs(n)
  PROVE  \A t \in Signs(n) :
           /\ Times(s, t) \in Signs(n) /\ Times(s, Times(s, t)) = t
           /\ Flipped(Times(s, d), t, 0) = Flipped(d, Times(s, t), 0)
           /\ Times(s, d) \in [1..n -> Int]
           /\ \A k \in 1..n : Times(s, d)[k] = 0 <=> d[k] = 0
<1> TAKE t \in Signs(n)
<1> DEFINE D == 1..n
           p == [k \in D |-> s[k] * d[k]]
           m == [k \in D |-> s[k] * t[k]]
           F == [k \in D |-> t[k] * (Unit * p[k] - 0)]
           G == [k \in D |-> m[k] * (Unit * d[k] - 0)]
<1>0. d \in [D -> Int] /\ s \in [D -> {-1, 1}] /\ t \in [D -> {-1, 1}]
  BY DEF Signs
<1>1. Unit \in Int
  BY RandomizationAssumption
<1>2. \A k \in D : /\ t[k] * (Unit * (s[k] * d[k]) - 0) = (s[k] * t[k]) * (Unit * d[k] - 0)
                   /\ s[k] * t[k] \in {-1, 1} /\ s[k] * (s[k] * t[k]) = t[k]
                   /\ s[k] * d[k] \in Int /\ (s[k] * d[k] = 0 <=> d[k] = 0)
  <2> TAKE k \in D
  <2>1. s[k] \in {-1, 1} /\ t[k] \in {-1, 1} /\ d[k] \in Int
    BY <1>0
  <2> QED
    BY <1>1, <2>1, SignedTwice
<1>3. F = G
  BY <1>2
<1>4. DOMAIN p = D /\ DOMAIN d = D /\ DOMAIN t = D /\ DOMAIN m = D
  BY <1>0
<1>5. Times(s, d) = p /\ Times(s, t) = m /\ Times(s, m) = [k \in D |-> s[k] * m[k]]
  BY <1>4 DEF Times
<1>6. Flipped(p, t, 0) = SumFunctionOnSet(F, D)
  BY <1>4 DEF Flipped
<1>7. Flipped(d, m, 0) = SumFunctionOnSet(G, D)
  BY <1>4 DEF Flipped
<1>8. p \in [D -> Int] /\ m \in [D -> {-1, 1}] /\ [k \in D |-> s[k] * m[k]] = t
       /\ \A k \in D : p[k] = 0 <=> d[k] = 0
  BY <1>0, <1>2
<1> HIDE DEF p, m
<1> QED
  BY <1>3, <1>5, <1>6, <1>7, <1>8 DEF Signs

\* What a test sees in the flipped data: as many patterns exceed as for the
\* data exceed what this pattern gives.
LEMMA ExceedancesOfFlipped ==
  ASSUME NEW n \in Nat, NEW d \in [1..n -> Int], NEW s \in Signs(n)
  PROVE  LET M(u) == Magnitude(Flipped(d, u, 0))
         IN  /\ Len(Times(s, d)) = n
             /\ AllTies(Times(s, d)) <=> AllTies(d)
             /\ Exceedances(Times(s, d), 0) = Cardinality({u \in Signs(n) : M(u) >= M(s)})
<1> DEFINE D == 1..n
           p == Times(s, d)
           M(u) == Magnitude(Flipped(d, u, 0))
           twist(u) == Times(s, u)
           one == [k \in D |-> 1]
           From == {t \in Signs(n) : M(twist(t)) >= M(s)}
           To == {u \in Signs(n) : M(u) >= M(s)}
<1>1. DOMAIN d = D /\ s \in [D -> {-1, 1}] /\ Signs(n) = [D -> {-1, 1}]
  BY DEF Signs
<1>2. one \in Signs(n)
  BY <1>1, SignsAreFinite
<1>3. \A t \in Signs(n) : /\ twist(t) \in Signs(n) /\ twist(twist(t)) = t
                          /\ Flipped(p, t, 0) = Flipped(d, twist(t), 0)
                          /\ p \in [D -> Int]
                          /\ \A k \in D : p[k] = 0 <=> d[k] = 0
  BY TwoFlips
<1>4. p \in Seq(Int) /\ Len(p) = n /\ DOMAIN p = D /\ \A k \in D : p[k] = 0 <=> d[k] = 0
  <2> HIDE DEF p
  <2>1. p \in [1..n -> Int] /\ \A k \in D : p[k] = 0 <=> d[k] = 0
    BY <1>2, <1>3
  <2>2. p \in Seq(Int)
    BY <1>1, <2>1, SeqDef
  <2>3. DOMAIN p = 1..Len(p) /\ Len(p) \in Nat
    BY <2>2, LenProperties
  <2> QED
    BY <1>1, <2>1, <2>2, <2>3
<1>5. AllTies(p) <=> AllTies(d)
  BY <1>1, <1>4 DEF AllTies
<1>6. twist(one) = s
  <2>1. \A k \in D : s[k] * 1 = s[k]
    BY <1>1
  <2> QED
    BY <1>1, <2>1 DEF Times
<1>7. Exceedances(p, 0) = Cardinality(From)
  <2>1. Observed(p, 0) = M(s)
    BY <1>2, <1>3, <1>4, <1>6 DEF Observed, AsSeen
  <2>2. \A t \in Signs(n) : Magnitude(Flipped(p, t, 0)) = M(twist(t))
    BY <1>3
  <2>3. {t \in Signs(n) : Magnitude(Flipped(p, t, 0)) >= Observed(p, 0)} = From
    BY <2>1, <2>2
  <2> QED
    BY <1>4, <2>3 DEF Exceedances
<1>8. Cardinality(From) = Cardinality(To)
  <2> DEFINE f == [t \in From |-> twist(t)]
  <2>1. \A t \in From : twist(t) \in To /\ twist(twist(t)) = t
    BY <1>3
  <2>2. \A u \in To : twist(u) \in From /\ twist(twist(u)) = u
    BY <1>3
  <2> HIDE DEF From, To, twist
  <2>3. f \in [From -> To]
    BY <2>1
  <2>4. \A t, u \in From : f[t] = f[u] => t = u
    BY <2>1
  <2>5. \A u \in To : \E t \in From : f[t] = u
    BY <2>2
  <2>6. f \in Bijection(From, To)
    BY <2>3, <2>4, <2>5 DEF Bijection, Injection, Surjection, IsInjective
  <2>7. IsFiniteSet(From)
    <3>1. IsFiniteSet(Signs(n))
      BY <1>1, SignsAreFinite
    <3> QED
      BY <3>1, FS_Subset DEF From
  <2> QED
    BY <2>6, <2>7, FS_Bijection DEF ExistsBijection
<1> QED
  BY <1>4, <1>5, <1>7, <1>8

\* A count of some patterns.
LEMMA CountsAreOrdered ==
  ASSUME NEW n \in Nat, NEW S \in SUBSET Signs(n), NEW T \in SUBSET S
  PROVE  /\ Cardinality(S) \in Nat /\ Cardinality(T) \in Nat
         /\ Cardinality(T) <= Cardinality(S) /\ Cardinality(S) <= Draws(n)
<1>1. IsFiniteSet(Signs(n))
  BY SignsAreFinite
<1>2. IsFiniteSet(S) /\ Cardinality(S) <= Cardinality(Signs(n))
  BY <1>1, FS_Subset
<1>3. IsFiniteSet(T) /\ Cardinality(T) <= Cardinality(S)
  BY <1>2, FS_Subset
<1> QED
  BY <1>2, <1>3, FS_CardinalityType DEF Draws

LEMMA NumberOfTiesIsInsignificant ==
  ASSUME NEW n \in Nat
  PROVE  ~Significant(Draws(n), n)
<1>1. Draws(n) \in Nat \ {0}
  BY SignsAreFinite
<1>2. Alpha \in Int /\ Alpha <= 99
  BY RandomizationAssumption
<1>3. \A x \in Nat, a \in Int : a <= 99 => a * x <= 100 * x
  <2> TAKE x \in Nat, a \in Int
  <2> HAVE a <= 99
  <2>1. PICK b \in Nat : b = 100 - a
    OBVIOUS
  <2>2. b * x >= 0 /\ 100 * x = a * x + b * x
    BY <2>1
  <2> QED
    BY <2>2
<1>4. Alpha * Draws(n) <= 100 * Draws(n) /\ Alpha * Draws(n) \in Int /\ 100 * Draws(n) \in Int
  BY <1>1, <1>2, <1>3
<1> QED
  BY <1>4 DEF Significant

\* Of the sign patterns, no larger share than alpha is significant: among the
\* significant ones take the one that shows least; all of them exceed it.
LEMMA AnyLevelIsKept ==
  ASSUME NEW n \in Nat, NEW d \in [1..n -> Int]
  PROVE  100 * Cardinality({s \in Signs(n) : Significant(PValue([k \in 1..n |-> s[k] * d[k]]), n)})
           <= Alpha * Draws(n)
<1> DEFINE pattern(s) == [k \in 1..n |-> s[k] * d[k]]
           M(u) == Magnitude(Flipped(d, u, 0))
           Above(s) == {u \in Signs(n) : M(u) >= M(s)}
           Found == {s \in Signs(n) : Significant(PValue(pattern(s)), n)}
<1>1. n \in Nat
  OBVIOUS
<1>2. IsFiniteSet(Signs(n)) /\ Draws(n) \in Nat \ {0} /\ Alpha \in Nat
  <2>1. Alpha \in Nat
    BY RandomizationAssumption
  <2> QED
    BY <1>1, <2>1, SignsAreFinite
<1>3. \A s \in Signs(n) : M(s) \in Int
  <2> TAKE s \in Signs(n)
  <2>1. 0 \in Int
    OBVIOUS
  <2>2. /\ DataSum(d, s) \in Int /\ SignSum(d, s) \in Int
        /\ Flipped(d, s, 0) = DataSum(d, s) + (0 - 0) * SignSum(d, s)
    BY <2>1, FlippedIsLinear
  <2>3. (0 - 0) * SignSum(d, s) = 0
    BY <2>2
  <2>4. Flipped(d, s, 0) \in Int
    BY <2>2, <2>3
  <2> QED
    BY <2>4 DEF Magnitude
<1>4. \A s \in Signs(n) : /\ Len(pattern(s)) = n
                          /\ AllTies(pattern(s)) <=> AllTies(d)
                          /\ Exceedances(pattern(s), 0) = Cardinality(Above(s))
  <2> TAKE s \in Signs(n)
  <2>1. pattern(s) = Times(s, d)
    BY DEF Times
  <2> QED
    BY <2>1, ExceedancesOfFlipped
<1>5. CASE Found = {}
  <2>1. Cardinality(Found) = 0
    BY <1>5, FS_EmptySet
  <2>2. \A a, b \in Nat : a * b >= 0
    OBVIOUS
  <2> QED
    BY <1>2, <2>1, <2>2
<1>6. CASE Found # {}
  <2>1. IsFiniteSet(Found)
    BY <1>2, FS_Subset
  <2>2. PICK s \in Found : \A u \in Found : M(s) <= M(u)
    <3> DEFINE Shown == [u \in Found |-> M(u)]
    <3>1. Shown \in [Found -> Int]
      BY <1>3
    <3> HIDE DEF Shown
    <3>2. PICK s \in Found : \A u \in Found : Shown[s] <= Shown[u]
      BY <1>6, <2>1, <3>1, LeastValue
    <3> QED
      BY <3>2 DEF Shown
  <2>3. ~AllTies(d)
    BY <1>1, <1>4, <2>2, NumberOfTiesIsInsignificant DEF PValue
  <2>4. Significant(Cardinality(Above(s)), n)
    BY <1>4, <2>2, <2>3 DEF PValue
  <2>5. Found \subseteq Above(s)
    BY <1>3, <2>2
  <2>6. Cardinality(Found) <= Cardinality(Above(s)) /\ Cardinality(Found) \in Nat
          /\ Cardinality(Above(s)) \in Nat
    BY <1>1, <2>5, CountsAreOrdered
  <2>7. 100 * Cardinality(Above(s)) < Alpha * Draws(n)
    BY <2>4 DEF Significant
  <2>8. \A x, y, z \in Int : x <= y /\ 100 * y < z => 100 * x <= z
    OBVIOUS
  <2>9. Alpha * Draws(n) \in Int
    BY <1>2
  <2> QED
    BY <2>6, <2>7, <2>8, <2>9
<1> QED
  BY <1>5, <1>6

-------------------------------------------------------------------------------
(* The interval.                                                            *)

\* Towards the mean of the data what is seen shrinks faster than what any
\* pattern gives.
LEMMA Excess ==
  ASSUME NEW a \in Int, NEW b \in Int, NEW c \in Int, NEW n \in Nat,
         NEW low \in Int, NEW high \in Int, low <= high, b <= n, 0 - b <= n
  PROVE  LET x(theta) == a + (0 - theta) * b
             y(theta) == c + (0 - theta) * n
         IN  /\ x(low) \in Int /\ x(high) \in Int /\ y(low) \in Int /\ y(high) \in Int
             /\ y(high) <= y(low)
             /\ n > 0 /\ low < high => y(high) < y(low)
             /\ y(high) >= 0 /\ Magnitude(x(low)) >= Magnitude(y(low))
                  => Magnitude(x(high)) >= Magnitude(y(high))
             /\ y(low) <= 0 /\ Magnitude(x(high)) >= Magnitude(y(high))
                  => Magnitude(x(low)) >= Magnitude(y(low))
<1>1. PICK e \in Nat : e = high - low
  OBVIOUS
<1>2. e * b <= e * n /\ 0 - e * b <= e * n /\ e * n >= 0 /\ e * b \in Int /\ e * n \in Int
        /\ (n > 0 /\ e > 0 => e * n > 0)
  <2>1. PICK p \in Nat, q \in Nat : n = b + p /\ n = q - b
    <3>1. n - b \in Nat /\ n + b \in Nat
      OBVIOUS
    <3> QED
      BY <3>1
  <2>2. e * p >= 0 /\ e * q >= 0 /\ e * n = e * b + e * p /\ e * n = e * q - e * b
    BY <2>1
  <2>3. e * b \in Int /\ e * n \in Int /\ e * p \in Int /\ e * q \in Int /\ e * n >= 0
    OBVIOUS
  <2>4. n > 0 /\ e > 0 => e * n > 0
    OBVIOUS
  <2> QED
    BY <2>2, <2>3, <2>4
<1>3. /\ (0 - high) * b = (0 - low) * b - e * b /\ (0 - high) * n = (0 - low) * n - e * n
      /\ (0 - low) * b \in Int /\ (0 - low) * n \in Int
  BY <1>1
<1> QED
  BY <1>1, <1>2, <1>3 DEF Magnitude

\* The patterns that count against a hypothesis.
Over(n, d, theta) == {s \in Signs(n) : Magnitude(Flipped(d, s, theta)) >= Observed(d, theta)}

\* Towards the mean more patterns exceed, and the mean itself they all do.
LEMMA MoreExceedTowardsTheMean ==
  ASSUME NEW n \in Nat, NEW d \in [1..n -> Int], NEW low \in Int, NEW high \in Int, low <= high
  PROVE  /\ AsSeen(d, low) \in Int /\ AsSeen(d, high) \in Int /\ AsSeen(d, high) <= AsSeen(d, low)
         /\ n > 0 /\ low < high => AsSeen(d, high) < AsSeen(d, low)
         /\ AsSeen(d, high) >= 0 => Over(n, d, low) \subseteq Over(n, d, high)
         /\ AsSeen(d, low) <= 0 => Over(n, d, high) \subseteq Over(n, d, low)
         /\ AsSeen(d, low) = 0 => Over(n, d, low) = Signs(n)
<1>1. PICK c \in Int : /\ AsSeen(d, low) = c + (0 - low) * n
                       /\ AsSeen(d, high) = c + (0 - high) * n
  BY AsSeenIsLinear
<1>2. /\ AsSeen(d, low) \in Int /\ AsSeen(d, high) \in Int /\ AsSeen(d, high) <= AsSeen(d, low)
      /\ n > 0 /\ low < high => AsSeen(d, high) < AsSeen(d, low)
  <2>1. 0 \in Int /\ 0 <= n /\ 0 - 0 <= n
    OBVIOUS
  <2> QED
    BY <1>1, <2>1, Excess
<1>3. ASSUME NEW s \in Signs(n)
      PROVE  /\ AsSeen(d, high) >= 0 /\ Magnitude(Flipped(d, s, low)) >= Magnitude(AsSeen(d, low))
                  => Magnitude(Flipped(d, s, high)) >= Magnitude(AsSeen(d, high))
             /\ AsSeen(d, low) <= 0 /\ Magnitude(Flipped(d, s, high)) >= Magnitude(AsSeen(d, high))
                  => Magnitude(Flipped(d, s, low)) >= Magnitude(AsSeen(d, low))
             /\ AsSeen(d, low) = 0 => Magnitude(Flipped(d, s, low)) >= Magnitude(AsSeen(d, low))
  <2>1. PICK a, b \in Int : /\ Flipped(d, s, low) = a + (0 - low) * b
                            /\ Flipped(d, s, high) = a + (0 - high) * b
                            /\ b <= n /\ 0 - b <= n
    BY FlippedIsLinear
  <2>2. Flipped(d, s, low) \in Int
    BY <2>1
  <2> QED
    BY <1>1, <2>1, <2>2, Excess DEF Magnitude
<1> QED
  BY <1>2, <1>3 DEF Over, Observed

\* Hypotheses nearer to the mean are accepted with those further off, and the
\* mean is.
LEMMA AcceptedTowardsTheMean ==
  ASSUME NEW n \in Nat, NEW d \in [1..n -> Int], Len(d) = n,
         NEW low \in Int, NEW high \in Int, low <= high
  PROVE  /\ AsSeen(d, high) >= 0 /\ Accepted(d, low) => Accepted(d, high)
         /\ AsSeen(d, low) <= 0 /\ Accepted(d, high) => Accepted(d, low)
         /\ AsSeen(d, low) = 0 => Accepted(d, low)
<1>1. /\ Exceedances(d, low) = Cardinality(Over(n, d, low))
      /\ Exceedances(d, high) = Cardinality(Over(n, d, high))
  BY DEF Exceedances, Over
<1>2. Over(n, d, low) \in SUBSET Signs(n) /\ Over(n, d, high) \in SUBSET Signs(n)
  BY DEF Over
<1>3. Alpha * Draws(n) \in Int
  <2>1. Alpha \in Int
    BY RandomizationAssumption
  <2>2. Draws(n) \in Nat \ {0}
    BY SignsAreFinite
  <2> QED
    BY <2>1, <2>2
<1>4. \A S, T \in SUBSET Signs(n) :
        S \subseteq T /\ ~Significant(Cardinality(S), n) => ~Significant(Cardinality(T), n)
  <2> TAKE S, T \in SUBSET Signs(n)
  <2> HAVE S \subseteq T /\ ~Significant(Cardinality(S), n)
  <2>1. Cardinality(S) \in Nat /\ Cardinality(T) \in Nat /\ Cardinality(S) <= Cardinality(T)
    BY CountsAreOrdered
  <2> QED
    BY <1>3, <2>1 DEF Significant
<1>5. ~Significant(Cardinality(Signs(n)), n)
  BY NumberOfTiesIsInsignificant DEF Draws
<1>6. /\ Accepted(d, low) <=> ~Significant(Cardinality(Over(n, d, low)), n)
      /\ Accepted(d, high) <=> ~Significant(Cardinality(Over(n, d, high)), n)
  BY <1>1 DEF Accepted
<1>7. /\ AsSeen(d, high) >= 0 => Over(n, d, low) \subseteq Over(n, d, high)
      /\ AsSeen(d, low) <= 0 => Over(n, d, high) \subseteq Over(n, d, low)
      /\ AsSeen(d, low) = 0 => Over(n, d, low) = Signs(n)
  BY MoreExceedTowardsTheMean
<1> QED
  BY <1>2, <1>4, <1>5, <1>6, <1>7

LEMMA HypothesesAreFinite ==
  /\ Hypotheses \subseteq Int
  /\ \A theta \in Hypotheses : 0 - Reach <= theta /\ theta <= Reach
  /\ Reach \in Int /\ 0 \in Hypotheses
  /\ \A S \in SUBSET Hypotheses : IsFiniteSet(S)
<1>1. Reach \in Nat
  BY RandomizationAssumption
<1>2. IsFiniteSet(Hypotheses)
  BY <1>1, FS_Interval DEF Hypotheses
<1>3. \A S \in SUBSET Hypotheses : IsFiniteSet(S)
  BY <1>2, FS_Subset
<1>4. Hypotheses \subseteq Int /\ 0 \in Hypotheses
        /\ \A theta \in Hypotheses : 0 - Reach <= theta /\ theta <= Reach
  BY <1>1 DEF Hypotheses
<1> QED
  BY <1>1, <1>3, <1>4

\* The low end parts the accepted hypotheses below the mean from the rejected
\* ones, and is above none of those beyond it.
LEMMA LowEndParts ==
  ASSUME NEW n \in Nat \ {0}, NEW d \in [1..n -> Int], Len(d) = n
  PROVE  /\ LowEnd(d) \in Int
         /\ \A theta \in Hypotheses :
              /\ AsSeen(d, theta) >= 0 => (Accepted(d, theta) <=> LowEnd(d) <= theta)
              /\ AsSeen(d, theta) <= 0 => LowEnd(d) <= theta
<1> DEFINE below == {theta \in Hypotheses : AsSeen(d, theta) >= 0}
           rejected == {theta \in below : ~Accepted(d, theta)}
<1>1. LowEnd(d) = IF rejected = {} THEN 0 - Reach ELSE Max(rejected) + 1
  BY DEF LowEnd
<1>2. rejected \in SUBSET Int /\ IsFiniteSet(rejected) /\ rejected \subseteq Hypotheses
  BY HypothesesAreFinite
<1>3. CASE rejected = {}
  BY <1>1, <1>3, HypothesesAreFinite
<1>4. CASE rejected # {}
  <2>1. PICK r \in rejected : r = Max(rejected) /\ \A x \in rejected : r >= x
    BY <1>2, <1>4, GreatestOf
  <2>2. LowEnd(d) = r + 1 /\ r \in Int /\ AsSeen(d, r) >= 0 /\ ~Accepted(d, r)
    BY <1>1, <1>2, <1>4, <2>1
  <2>3. ASSUME NEW theta \in Hypotheses
        PROVE  /\ AsSeen(d, theta) >= 0 => (Accepted(d, theta) <=> r + 1 <= theta)
               /\ AsSeen(d, theta) <= 0 => r + 1 <= theta
    <3>1. theta \in Int /\ n > 0 /\ n \in Nat
      BY HypothesesAreFinite
    <3>2. theta <= r => (AsSeen(d, r) >= 0 /\ Accepted(d, theta) => Accepted(d, r))
      BY <2>2, <3>1, AcceptedTowardsTheMean
    <3>3. theta < r => AsSeen(d, r) < AsSeen(d, theta)
      BY <2>2, <3>1, MoreExceedTowardsTheMean
    <3>4. AsSeen(d, r) = 0 => Accepted(d, r)
      BY <2>2, <3>1, AcceptedTowardsTheMean
    <3>5. AsSeen(d, r) \in Int /\ AsSeen(d, theta) \in Int
      BY <2>2, <3>1, MoreExceedTowardsTheMean
    <3>6. AsSeen(d, theta) >= 0 /\ ~Accepted(d, theta) => theta <= r
      BY <2>1
    <3>7. AsSeen(d, theta) <= 0 => theta # r
      BY <2>2, <3>4, <3>5
    <3> QED
      BY <2>2, <3>1, <3>2, <3>3, <3>5, <3>6, <3>7
  <2> QED
    BY <2>2, <2>3
<1> QED
  BY <1>3, <1>4

\* The high end, the same above the mean.
LEMMA HighEndParts ==
  ASSUME NEW n \in Nat \ {0}, NEW d \in [1..n -> Int], Len(d) = n
  PROVE  /\ HighEnd(d) \in Int
         /\ \A theta \in Hypotheses :
              /\ AsSeen(d, theta) <= 0 => (Accepted(d, theta) <=> theta <= HighEnd(d))
              /\ AsSeen(d, theta) >= 0 => theta <= HighEnd(d)
<1> DEFINE above == {theta \in Hypotheses : AsSeen(d, theta) <= 0}
           rejected == {theta \in above : ~Accepted(d, theta)}
<1>1. HighEnd(d) = IF rejected = {} THEN Reach ELSE Min(rejected) - 1
  BY DEF HighEnd
<1>2. rejected \in SUBSET Int /\ IsFiniteSet(rejected) /\ rejected \subseteq Hypotheses
  BY HypothesesAreFinite
<1>3. CASE rejected = {}
  BY <1>1, <1>3, HypothesesAreFinite
<1>4. CASE rejected # {}
  <2>1. PICK r \in rejected : r = Min(rejected) /\ \A x \in rejected : r <= x
    BY <1>2, <1>4, LeastOf
  <2>2. HighEnd(d) = r - 1 /\ r \in Int /\ AsSeen(d, r) <= 0 /\ ~Accepted(d, r)
    BY <1>1, <1>2, <1>4, <2>1
  <2>3. ASSUME NEW theta \in Hypotheses
        PROVE  /\ AsSeen(d, theta) <= 0 => (Accepted(d, theta) <=> theta <= r - 1)
               /\ AsSeen(d, theta) >= 0 => theta <= r - 1
    <3>1. theta \in Int /\ n > 0 /\ n \in Nat
      BY HypothesesAreFinite
    <3>2. r <= theta => (AsSeen(d, r) <= 0 /\ Accepted(d, theta) => Accepted(d, r))
      BY <2>2, <3>1, AcceptedTowardsTheMean
    <3>3. r < theta => AsSeen(d, theta) < AsSeen(d, r)
      BY <2>2, <3>1, MoreExceedTowardsTheMean
    <3>4. AsSeen(d, r) = 0 => Accepted(d, r)
      BY <2>2, <3>1, AcceptedTowardsTheMean
    <3>5. AsSeen(d, r) \in Int /\ AsSeen(d, theta) \in Int
      BY <2>2, <3>1, MoreExceedTowardsTheMean
    <3>6. AsSeen(d, theta) <= 0 /\ ~Accepted(d, theta) => r <= theta
      BY <2>1
    <3>7. AsSeen(d, theta) >= 0 => theta # r
      BY <2>2, <3>4, <3>5
    <3> QED
      BY <2>2, <3>1, <3>2, <3>3, <3>5, <3>6, <3>7
  <2> QED
    BY <2>2, <2>3
<1> QED
  BY <1>3, <1>4

\* The ends bound the accepted hypotheses, whichever side of the mean.
LEMMA EndsBoundTheAccepted ==
  ASSUME NEW n \in Nat \ {0}, NEW d \in [1..n -> Int], Len(d) = n, NEW theta \in Hypotheses
  PROVE  Accepted(d, theta) <=> theta \in LowEnd(d)..HighEnd(d)
<1>1. theta \in Int /\ n \in Nat
  BY HypothesesAreFinite
<1>2. AsSeen(d, theta) \in Int
  BY <1>1, MoreExceedTowardsTheMean
<1>3. AsSeen(d, theta) >= 0 \/ AsSeen(d, theta) <= 0
  BY <1>2
<1> QED
  BY <1>1, <1>3, LowEndParts, HighEndParts

\* Data and hypothesis moved by the same amount are the same to the test.
LEMMA TestMovesWithTheData ==
  ASSUME NEW n \in Nat, NEW d \in [1..n -> Int], Len(d) = n, NEW theta \in Int,
         NEW moved, moved = [k \in 1..n |-> d[k] + 1], Len(moved) = n
  PROVE  Accepted(d, theta) <=> Accepted(moved, theta + Unit)
<1>1. Unit \in Int /\ DOMAIN moved = 1..n /\ DOMAIN d = 1..n
  BY RandomizationAssumption
<1>2. \A k \in 1..n : Unit * (d[k] + 1) - (theta + Unit) = Unit * d[k] - theta
  <2> TAKE k \in 1..n
  <2>1. PICK x, y \in Int : x = Unit /\ y = d[k]
    BY <1>1
  <2>2. x * (y + 1) - (theta + x) = x * y - theta
    OBVIOUS
  <2> QED
    BY <2>1, <2>2
<1>3. \A s : [k \in 1..n |-> s[k] * (Unit * moved[k] - (theta + Unit))]
               = [k \in 1..n |-> s[k] * (Unit * d[k] - theta)]
  BY <1>2
<1>4. \A s : Flipped(moved, s, theta + Unit) = Flipped(d, s, theta)
  BY <1>1, <1>3 DEF Flipped
<1>5. Observed(moved, theta + Unit) = Observed(d, theta)
  BY <1>1, <1>4 DEF Observed, AsSeen
<1>6. Exceedances(moved, theta + Unit) = Exceedances(d, theta)
  BY <1>4, <1>5 DEF Exceedances
<1> QED
  BY <1>6 DEF Accepted

\* The property, for a sample of any size.
LEMMA AnySampleIsTestedRight ==
  ASSUME NEW n \in Nat, differences \in [1..n -> Int], Len(differences) = n
  PROVE  TestKeepsItsLevel
<1>1. PICK d \in [1..n -> Int] : d = differences
  OBVIOUS
<1>2. LevelIsKept
  <2>1. 100 * Cardinality({s \in Signs(n) : Significant(PValue([k \in 1..n |-> s[k] * d[k]]), n)})
          <= Alpha * Draws(n)
    BY AnyLevelIsKept
  <2> QED
    BY <1>1, <2>1 DEF LevelIsKept
<1>3. ASSUME d # <<>>, ~AllTies(d)
      PROVE  /\ \A theta \in Hypotheses : Accepted(d, theta) <=> theta \in LowEnd(d)..HighEnd(d)
             /\ (0 \in LowEnd(d)..HighEnd(d)) <=> ~Significant(PValue(d), Len(d))
             /\ \A theta \in Hypotheses :
                  Accepted(d, theta) <=> Accepted([k \in DOMAIN d |-> d[k] + 1], theta + Unit)
  <2>1. n \in Nat \ {0} /\ Len(d) = n
    <3>1. DOMAIN d # {}
      BY <1>3 DEF AllTies
    <3> QED
      BY <1>1, <3>1
  <2>2. \A theta \in Hypotheses : Accepted(d, theta) <=> theta \in LowEnd(d)..HighEnd(d)
    BY <2>1, EndsBoundTheAccepted
  <2>3. PValue(d) = Exceedances(d, 0)
    BY <1>3 DEF PValue
  <2>4. (0 \in LowEnd(d)..HighEnd(d)) <=> ~Significant(PValue(d), Len(d))
    BY <2>2, <2>3, HypothesesAreFinite DEF Accepted
  <2>5. PICK moved : moved = [k \in 1..n |-> d[k] + 1]
    OBVIOUS
  <2>6. moved = [k \in DOMAIN d |-> d[k] + 1] /\ Len(moved) = n
    <3>1. moved \in [1..n -> Int] /\ DOMAIN moved = 1..n /\ moved = [k \in DOMAIN d |-> d[k] + 1]
      BY <2>5
    <3>2. moved \in Seq(Int)
      BY <3>1, SeqDef
    <3> QED
      BY <3>1, <3>2, LenProperties
  <2>7. \A theta \in Hypotheses : Accepted(d, theta) <=> Accepted(moved, theta + Unit)
    BY <2>1, <2>5, <2>6, TestMovesWithTheData, HypothesesAreFinite
  <2> QED
    BY <2>2, <2>4, <2>6, <2>7
<1>4. IntervalInvertsTest
  BY <1>1, <1>3 DEF IntervalInvertsTest
<1> QED
  BY <1>2, <1>4 DEF TestKeepsItsLevel

-------------------------------------------------------------------------------

\* The test never calls more than its level of the sign patterns significant,
\* and its interval is exactly the hypotheses that it accepts: for any sample of
\* integer differences, any unit, reach and level.
THEOREM PairedTestKeepsItsLevel == PairedSpec => []TestKeepsItsLevel
<1> DEFINE Inv == differences \in Seq(Int)
<1>1. Effects \subseteq Int
  BY RandomizationAssumption
<1>2. PairedInit => Inv
  BY DEF PairedInit
<1>3. Inv /\ [Add]_pairedVars => Inv'
  BY <1>1 DEF Add, pairedVars
<1>4. Inv => TestKeepsItsLevel
  <2> SUFFICES ASSUME Inv
               PROVE  TestKeepsItsLevel
    OBVIOUS
  <2>1. Len(differences) \in Nat /\ differences \in [1..Len(differences) -> Int]
    BY LenProperties
  <2> QED
    BY <2>1, AnySampleIsTestedRight, Zenon
<1> QED
  BY <1>2, <1>3, <1>4, PTL DEF PairedSpec

-------------------------------------------------------------------------------
(* Decompositions of a composition.                                         *)

\* The share of a phase in a mixture is a natural number.
LEMMA Shares ==
  ASSUME NEW l \in Compositions, NEW r \in Compositions, NEW x \in Compositions,
         l <= x, x <= r, l < r
  PROVE  /\ (Scale \div (r - l)) * (r - x) \in Nat /\ (Scale \div (r - l)) * (x - l) \in Nat
         /\ (Scale \div (r - l)) * (r - l) = Scale
<1>1. r - l \in 1..Grid /\ r - x \in Nat /\ x - l \in Nat /\ r - l \in Nat \ {0}
  BY GeometryAssumption DEF Compositions
<1>2. PICK d \in 1..Grid : d = r - l
  BY <1>1
<1>3. d \in Nat \ {0} /\ Scale % d = 0 /\ Scale \in Nat
  BY GeometryAssumption, <1>2
<1>4. Scale \div d \in Nat /\ (Scale \div d) * d = Scale
  BY <1>3, SMTT(30)
<1>5. PICK q \in Nat : q = Scale \div d
  BY <1>4
<1>6. \A y \in Nat : q * y \in Nat
  OBVIOUS
<1>7. q * (r - x) \in Nat /\ q * (x - l) \in Nat
  BY <1>1, <1>6
<1>8. q * d = Scale
  BY <1>4, <1>5
<1> QED
  BY <1>2, <1>5, <1>7, <1>8

\* The weights of the pair <<i, j>> at x, and the decomposition they make.
Weight(xs, i, j, x, k) == (Scale \div (xs[j] - xs[i])) * (IF k = i THEN xs[j] - x ELSE x - xs[i])
Between(xs, i, j, x) ==
  [k \in {m \in {i, j} : Weight(xs, i, j, x, m) # 0} |-> Weight(xs, i, j, x, k)]
Pairs(xs, x) ==
  {q \in (DOMAIN xs) \X (DOMAIN xs) : xs[q[1]] <= x /\ x <= xs[q[2]] /\ xs[q[1]] < xs[q[2]]}

LEMMA DecompositionsAre ==
  ASSUME NEW xs, NEW x
  PROVE  Decompositions(xs, x) = {Between(xs, q[1], q[2], x) : q \in Pairs(xs, x)}
  BY DEF Decompositions, Between, Pairs, Weight

\* A mixture has natural shares of some of the phases.
Shared(n) == UNION {[D -> Nat] : D \in SUBSET (1..n)}

LEMMA DecompositionsFacts ==
  ASSUME NEW n \in Nat, NEW xs \in [1..n -> Compositions], NEW x \in Compositions
  PROVE  IsFiniteSet(Decompositions(xs, x)) /\ Decompositions(xs, x) \subseteq Shared(n)
<1>1. ASSUME NEW q \in Pairs(xs, x)
      PROVE  Between(xs, q[1], q[2], x) \in Shared(n)
  <2>1. /\ q[1] \in 1..n /\ q[2] \in 1..n /\ xs[q[1]] \in Compositions /\ xs[q[2]] \in Compositions
        /\ xs[q[1]] <= x /\ x <= xs[q[2]] /\ xs[q[1]] < xs[q[2]]
    BY DEF Pairs
  <2> DEFINE D == {m \in {q[1], q[2]} : Weight(xs, q[1], q[2], x, m) # 0}
  <2>2. \A m \in D : Weight(xs, q[1], q[2], x, m) \in Nat
    BY <2>1, Shares DEF Weight
  <2>3. D \in SUBSET (1..n)
    BY <2>1
  <2>4. Between(xs, q[1], q[2], x) \in [D -> Nat]
    BY <2>2 DEF Between
  <2> HIDE DEF D
  <2> QED
    BY <2>3, <2>4 DEF Shared
<1>2. IsFiniteSet((1..n) \X (1..n))
  <2>1. IsFiniteSet(1..n)
    BY FS_Interval
  <2> QED
    BY <2>1, FS_Product
<1>3. IsFiniteSet(Pairs(xs, x))
  <2>1. Pairs(xs, x) \subseteq (1..n) \X (1..n)
    BY DEF Pairs
  <2> QED
    BY <1>2, <2>1, FS_Subset
<1>4. IsFiniteSet({Between(xs, q[1], q[2], x) : q \in Pairs(xs, x)})
  <2> DEFINE f == [q \in Pairs(xs, x) |-> Between(xs, q[1], q[2], x)]
  <2>1. f \in Surjection(Pairs(xs, x), {Between(xs, q[1], q[2], x) : q \in Pairs(xs, x)})
    BY DEF Surjection
  <2> QED
    BY <1>3, <2>1, FS_Surjection
<1> QED
  BY <1>1, <1>4, DecompositionsAre

\* A phase of the composition itself is a mixture of its own.
LEMMA SingleIsDecomposition ==
  ASSUME NEW n \in Nat, NEW xs \in [1..n -> Compositions], NEW j \in 1..n,
         NEW a \in 1..n, xs[a] = 0, NEW b \in 1..n, xs[b] = Grid
  PROVE  [i \in {j} |-> Scale] \in Decompositions(xs, xs[j])
<1> DEFINE x == xs[j]
<1>1. Grid \in Nat \ {0} /\ Scale \in Nat \ {0} /\ x \in 0..Grid /\ Compositions = 0..Grid
      /\ Grid \in Compositions /\ 0 \in Compositions
  BY GeometryAssumption DEF Compositions
<1>2. CASE x < Grid
  <2>1. <<j, b>> \in Pairs(xs, x) /\ xs[j] = x /\ xs[b] = Grid
    BY <1>1, <1>2 DEF Pairs
  <2>2. /\ (Scale \div (Grid - x)) * (Grid - x) = Scale
        /\ (Scale \div (Grid - x)) * (x - x) = 0
    <3>1. (Scale \div (Grid - x)) * (Grid - x) = Scale /\ (Scale \div (Grid - x)) * (x - x) \in Nat
      <4>1. x <= x /\ x <= Grid /\ x \in Compositions
        BY <1>1
      <4> QED
        BY <1>1, <1>2, <4>1, Shares
    <3>2. PICK g \in 1..Grid : g = Grid - x
      BY <1>1, <1>2
    <3>3. Scale \div g \in Nat
      <4>1. g \in Nat \ {0} /\ Scale \in Nat
        BY <1>1, <3>2
      <4> QED
        BY <4>1
    <3>4. x - x = 0 /\ \A q \in Nat : q * 0 = 0
      BY <1>1
    <3> QED
      BY <3>1, <3>2, <3>3, <3>4
  <2>3. j # b
    BY <1>1, <1>2, <2>1
  <2>4. Weight(xs, j, b, x, j) = Scale /\ Weight(xs, j, b, x, b) = 0
    BY <2>1, <2>2, <2>3 DEF Weight
  <2>5. {m \in {j, b} : Weight(xs, j, b, x, m) # 0} = {j}
    BY <1>1, <2>4
  <2>6. Between(xs, j, b, x) = [i \in {j} |-> Scale]
    BY <2>4, <2>5 DEF Between
  <2> QED
    BY <2>1, <2>6, DecompositionsAre
<1>3. CASE x = Grid
  <2>1. <<a, j>> \in Pairs(xs, x) /\ xs[a] = 0 /\ xs[j] = Grid
    BY <1>1, <1>3 DEF Pairs
  <2>2. /\ (Scale \div (Grid - 0)) * (x - 0) = Scale
        /\ (Scale \div (Grid - 0)) * (Grid - x) = 0
    <3>1. 0 <= Grid /\ 0 < Grid /\ Grid <= Grid
      BY <1>1
    <3>2. (Scale \div (Grid - 0)) * (Grid - 0) = Scale
      BY <1>1, <3>1, Shares
    <3>3. Grid - 0 = Grid /\ Grid - x = 0 /\ x - 0 = Grid
      BY <1>1, <1>3
    <3>4. Scale \div Grid \in Nat /\ \A q \in Nat : q * 0 = 0
      BY <1>1
    <3> QED
      BY <3>2, <3>3, <3>4
  <2>3. j # a
    BY <1>1, <2>1
  <2>4. Weight(xs, a, j, x, j) = Scale /\ Weight(xs, a, j, x, a) = 0
    BY <2>1, <2>2, <2>3 DEF Weight
  <2>5. {m \in {a, j} : Weight(xs, a, j, x, m) # 0} = {j}
    BY <1>1, <2>4
  <2>6. Between(xs, a, j, x) = [i \in {j} |-> Scale]
    BY <2>4, <2>5 DEF Between
  <2> QED
    BY <2>1, <2>6, DecompositionsAre
<1> QED
  BY <1>1, <1>2, <1>3

\* The energy of a mixture, and that it grows with the energies of its phases.
LEMMA MixtureEnergy ==
  ASSUME NEW n \in Nat, NEW d \in Shared(n), NEW e \in [1..n -> Int], NEW f \in [1..n -> Int],
         \A i \in 1..n : e[i] <= f[i]
  PROVE  /\ DecompositionEnergy(d, e) \in Int /\ DecompositionEnergy(d, f) \in Int
         /\ DecompositionEnergy(d, e) <= DecompositionEnergy(d, f)
<1> DEFINE D == DOMAIN d
           F == [i \in D |-> d[i] * e[i]]
           G == [i \in D |-> d[i] * f[i]]
           H == [i \in D |-> 0]
<1>1. D \subseteq 1..n /\ d \in [D -> Nat]
  BY DEF Shared
<1>2. IsFiniteSet(D)
  <2>1. IsFiniteSet(1..n)
    BY FS_Interval
  <2> QED
    BY <1>1, <2>1, FS_Subset
<1>3. ASSUME NEW i \in D
      PROVE  F[i] \in Int /\ G[i] \in Int /\ F[i] <= G[i]
  <2>1. d[i] \in Nat /\ e[i] \in Int /\ f[i] \in Int /\ e[i] <= f[i]
    BY <1>1
  <2>2. \A w \in Nat, y \in Int, z \in Int : y <= z => w * y \in Int /\ w * z \in Int /\ w * y <= w * z
    OBVIOUS
  <2> QED
    BY <2>1, <2>2
<1>4. F \in [D -> Int] /\ G \in [D -> Int] /\ H \in [D -> Int] /\ D \in SUBSET D
  BY <1>3
<1> HIDE DEF F, G, H, D
<1>5. SumFunctionOnSet(F, D) \in Int /\ SumFunctionOnSet(G, D) \in Int /\ SumFunctionOnSet(H, D) \in Int
  BY <1>2, <1>4, SumAdds
<1>6. \A i \in D : 1 * F[i] <= G[i] + 0 * H[i]
  <2>1. \A i \in D : F[i] \in Int /\ G[i] \in Int /\ H[i] \in Int /\ F[i] <= G[i]
    BY <1>3, <1>4
  <2>2. \A y, z \in Int : 1 * y = y /\ 0 * z = 0 /\ y + 0 = y
    OBVIOUS
  <2> QED
    BY <2>1, <2>2
<1>7. 1 * SumFunctionOnSet(F, D) <= SumFunctionOnSet(G, D) + 0 * SumFunctionOnSet(H, D)
  <2>1. 0 \in Int /\ 1 \in Int
    OBVIOUS
  <2> QED
    BY <1>2, <1>4, <1>6, <2>1, SumCompares, Zenon
<1>8. SumFunctionOnSet(F, D) <= SumFunctionOnSet(G, D)
  BY <1>5, <1>7
<1> QED
  BY <1>5, <1>8 DEF DecompositionEnergy, F, G, D

\* The lowest energy of a set of mixtures.
Lowest(M, e) == Min({DecompositionEnergy(d, e) : d \in M})

LEMMA LowestGrows ==
  ASSUME NEW n \in Nat, NEW M \in SUBSET Shared(n), IsFiniteSet(M), M # {},
         NEW e \in [1..n -> Int], NEW f \in [1..n -> Int], \A i \in 1..n : e[i] <= f[i]
  PROVE  Lowest(M, e) \in Int /\ Lowest(M, f) \in Int /\ Lowest(M, e) <= Lowest(M, f)
<1> DEFINE V(g) == {DecompositionEnergy(d, g) : d \in M}
<1>1. ASSUME NEW g \in [1..n -> Int]
      PROVE  Min(V(g)) \in V(g) /\ V(g) \in SUBSET Int /\ \A v \in V(g) : Min(V(g)) <= v
  <2>1. \A i \in 1..n : g[i] <= g[i]
    OBVIOUS
  <2>2. \A d \in M : DecompositionEnergy(d, g) \in Int
    BY <2>1, MixtureEnergy
  <2>3. [d \in M |-> DecompositionEnergy(d, g)] \in Surjection(M, V(g))
    BY DEF Surjection
  <2>4. IsFiniteSet(V(g))
    BY <2>3, FS_Surjection
  <2>5. V(g) \in SUBSET Int /\ V(g) # {}
    BY <2>2
  <2> HIDE DEF V
  <2> QED
    BY <2>4, <2>5, LeastOf
<1>2. PICK d \in M : Lowest(M, f) = DecompositionEnergy(d, f)
  BY <1>1 DEF Lowest
<1>3. Lowest(M, e) <= DecompositionEnergy(d, e)
  BY <1>1 DEF Lowest
<1>4. DecompositionEnergy(d, e) \in Int /\ DecompositionEnergy(d, e) <= DecompositionEnergy(d, f)
  BY MixtureEnergy
<1>5. Lowest(M, e) \in Int /\ Lowest(M, f) \in Int
  BY <1>1 DEF Lowest
<1> QED
  BY <1>2, <1>3, <1>4, <1>5, MixtureEnergy

-------------------------------------------------------------------------------
(* The phases of a system: references, then queries, with their energies and *)
(* with intervals once the queries S are revealed.                           *)

Extent(s) == Len(s.references) + Len(s.xs)
At(s, k) == Len(s.references) + k

PhaseXs(s) == [i \in DOMAIN s.references |-> s.references[i].x] \o s.xs
TrueEnergies(s) == [i \in DOMAIN s.references |-> s.references[i].e] \o s.truth

Lower(s, S) ==
  [i \in DOMAIN s.references |-> s.references[i].e]
    \o [k \in Pool(s) |-> IF k \in S THEN s.truth[k] ELSE s.source[k] - s.radius]
Upper(s, S) ==
  [i \in DOMAIN s.references |-> s.references[i].e]
    \o [k \in Pool(s) |-> IF k \in S THEN s.truth[k] ELSE s.source[k] + s.radius]

IntervalOf(s, S, k) ==
  IF k \in S THEN [x |-> s.xs[k], lo |-> s.truth[k], hi |-> s.truth[k]]
  ELSE [x |-> s.xs[k], lo |-> s.source[k] - s.radius, hi |-> s.source[k] + s.radius]

IntervalsOf(s, S) ==
  [i \in DOMAIN s.references |->
     [x |-> s.references[i].x, lo |-> s.references[i].e, hi |-> s.references[i].e]]
  \o [k \in Pool(s) |-> IntervalOf(s, S, k)]

LEMMA SystemFacts ==
  ASSUME NEW s \in Evaluated
  PROVE  /\ Len(s.references) \in Nat /\ Len(s.xs) \in Nat /\ Extent(s) \in Nat
         /\ DOMAIN s.references = 1..Len(s.references) /\ Pool(s) = 1..Len(s.xs)
         /\ s.xs \in [Pool(s) -> Compositions] /\ s.truth \in [Pool(s) -> Int]
         /\ s.source \in [Pool(s) -> Int] /\ s.radius \in Nat
         /\ \A k \in Pool(s) : At(s, k) \in 1..Extent(s)
<1>1. s.xs \in Seq(Compositions) /\ s.references \in Seq([x : Compositions, e : Int])
  BY EvaluationAssumption
<1>2. /\ Len(s.xs) \in Nat /\ s.xs \in [1..Len(s.xs) -> Compositions]
      /\ Len(s.references) \in Nat /\ s.references \in [1..Len(s.references) -> [x : Compositions, e : Int]]
  BY <1>1, LenProperties, ElementOfSeq
<1>3. /\ s.truth \in [1..Len(s.xs) -> Int] /\ s.source \in [1..Len(s.xs) -> Int] /\ s.radius \in Nat
  BY EvaluationAssumption
<1>4. DOMAIN s.references = 1..Len(s.references) /\ Pool(s) = 1..Len(s.xs)
  BY <1>2 DEF Pool
<1>5. PICK r \in Nat, m \in Nat : r = Len(s.references) /\ m = Len(s.xs)
  BY <1>2
<1>6. \A k \in 1..m : r + k \in 1..(r + m)
  OBVIOUS
<1>7. Extent(s) \in Nat /\ \A k \in 1..Len(s.xs) : At(s, k) \in 1..Extent(s)
  <2>1. Extent(s) = r + m /\ \A k \in 1..m : At(s, k) = r + k
    BY <1>5 DEF At, Extent
  <2>2. Extent(s) \in Nat
    BY <2>1
  <2>3. \A k \in 1..m : At(s, k) \in 1..Extent(s)
    BY <1>6, <2>1
  <2>4. 1..Len(s.xs) = 1..m
    BY <1>5
  <2> QED
    BY <2>2, <2>3, <2>4, Zenon
<1> QED
  BY <1>2, <1>3, <1>4, <1>7, Zenon

\* A phase is a reference or a query.
LEMMA PhaseIsOneOf ==
  ASSUME NEW s \in Evaluated, NEW i \in 1..Extent(s)
  PROVE  i \in 1..Len(s.references) \/ \E k \in Pool(s) : i = At(s, k)
<1>1. PICK r \in Nat, m \in Nat : r = Len(s.references) /\ m = Len(s.xs)
  BY SystemFacts
<1>2. i \in 1..(r + m)
  BY <1>1 DEF Extent
<1>3. i \in 1..r \/ \E k \in 1..m : i = r + k
  <2>1. i \notin 1..r => i - r \in 1..m /\ i = r + (i - r)
    BY <1>2
  <2> QED
    BY <2>1
<1>4. 1..m = Pool(s) /\ \A k \in 1..m : At(s, k) = r + k
  BY <1>1, SystemFacts DEF At
<1> QED
  BY <1>1, <1>3, <1>4

\* The joined energies of a system, and the intervals around them.
LEMMA EnergiesFacts ==
  ASSUME NEW s \in Evaluated, NEW S
  PROVE  /\ PhaseXs(s) \in [1..Extent(s) -> Compositions]
         /\ TrueEnergies(s) \in [1..Extent(s) -> Int]
         /\ Lower(s, S) \in [1..Extent(s) -> Int] /\ Upper(s, S) \in [1..Extent(s) -> Int]
         /\ \A i \in 1..Len(s.references) :
              /\ PhaseXs(s)[i] = s.references[i].x /\ TrueEnergies(s)[i] = s.references[i].e
              /\ Lower(s, S)[i] = s.references[i].e /\ Upper(s, S)[i] = s.references[i].e
         /\ \A k \in Pool(s) :
              /\ PhaseXs(s)[At(s, k)] = s.xs[k] /\ TrueEnergies(s)[At(s, k)] = s.truth[k]
              /\ Lower(s, S)[At(s, k)] = IntervalOf(s, S, k).lo
              /\ Upper(s, S)[At(s, k)] = IntervalOf(s, S, k).hi
<1> DEFINE r == Len(s.references)
           m == Len(s.xs)
           rx == [i \in DOMAIN s.references |-> s.references[i].x]
           re == [i \in DOMAIN s.references |-> s.references[i].e]
           lo == [k \in Pool(s) |-> IF k \in S THEN s.truth[k] ELSE s.source[k] - s.radius]
           hi == [k \in Pool(s) |-> IF k \in S THEN s.truth[k] ELSE s.source[k] + s.radius]
<1>1. r \in Nat /\ m \in Nat /\ DOMAIN s.references = 1..r /\ Pool(s) = 1..m
  BY SystemFacts
<1>2. s.xs \in [1..m -> Compositions] /\ s.truth \in [1..m -> Int]
  BY SystemFacts
<1>3. s.references \in [1..r -> [x : Compositions, e : Int]]
  <2>1. s.references \in Seq([x : Compositions, e : Int])
    BY EvaluationAssumption
  <2> QED
    BY <2>1, LenProperties, ElementOfSeq
<1>4. rx \in [1..r -> Compositions] /\ re \in [1..r -> Int]
  BY <1>1, <1>3
<1>5. lo \in [1..m -> Int] /\ hi \in [1..m -> Int]
  BY <1>1, SystemFacts
<1>6. \A k \in Pool(s) : lo[k] = IntervalOf(s, S, k).lo /\ hi[k] = IntervalOf(s, S, k).hi
  BY DEF IntervalOf
<1>7. \A i \in 1..r : rx[i] = s.references[i].x /\ re[i] = s.references[i].e
  BY <1>1
<1>8. /\ PhaseXs(s) = rx \o s.xs /\ TrueEnergies(s) = re \o s.truth
      /\ Lower(s, S) = re \o lo /\ Upper(s, S) = re \o hi
  BY DEF PhaseXs, TrueEnergies, Lower, Upper
<1>9. Extent(s) = r + m /\ \A k \in Pool(s) : At(s, k) = r + k
  BY DEF Extent, At
<1> HIDE DEF rx, re, lo, hi, r, m
<1>a. r \in Nat /\ m \in Nat
  BY <1>1
<1>b. rx \in [1..r -> Compositions]
  BY <1>4
<1>c. re \in [1..r -> Int]
  BY <1>4
<1>d. s.xs \in [1..m -> Compositions]
  BY <1>2
<1>e. s.truth \in [1..m -> Int]
  BY <1>2
<1>f. lo \in [1..m -> Int]
  BY <1>5
<1>g. hi \in [1..m -> Int]
  BY <1>5
<1>10. /\ PhaseXs(s) \in [1..(r + m) -> Compositions]
       /\ \A i \in 1..r : PhaseXs(s)[i] = rx[i]
       /\ \A k \in 1..m : PhaseXs(s)[r + k] = s.xs[k]
  <2>1. rx \o s.xs \in [1..(r + m) -> Compositions]
    BY <1>a, <1>b, <1>d, JoinedSequence
  <2>2. \A i \in 1..r : (rx \o s.xs)[i] = rx[i]
    BY <1>a, <1>b, <1>d, JoinedSequence
  <2>3. \A k \in 1..m : (rx \o s.xs)[r + k] = s.xs[k]
    BY <1>a, <1>b, <1>d, JoinedSequence
  <2> QED
    BY <1>8, <2>1, <2>2, <2>3
<1>11. /\ TrueEnergies(s) \in [1..(r + m) -> Int]
       /\ \A i \in 1..r : TrueEnergies(s)[i] = re[i]
       /\ \A k \in 1..m : TrueEnergies(s)[r + k] = s.truth[k]
  <2>1. re \o s.truth \in [1..(r + m) -> Int]
    BY <1>a, <1>c, <1>e, JoinedSequence
  <2>2. \A i \in 1..r : (re \o s.truth)[i] = re[i]
    BY <1>a, <1>c, <1>e, JoinedSequence
  <2>3. \A k \in 1..m : (re \o s.truth)[r + k] = s.truth[k]
    BY <1>a, <1>c, <1>e, JoinedSequence
  <2> QED
    BY <1>8, <2>1, <2>2, <2>3
<1>12. /\ Lower(s, S) \in [1..(r + m) -> Int]
       /\ \A i \in 1..r : Lower(s, S)[i] = re[i]
       /\ \A k \in 1..m : Lower(s, S)[r + k] = lo[k]
  <2>1. re \o lo \in [1..(r + m) -> Int]
    BY <1>a, <1>c, <1>f, JoinedSequence
  <2>2. \A i \in 1..r : (re \o lo)[i] = re[i]
    BY <1>a, <1>c, <1>f, JoinedSequence
  <2>3. \A k \in 1..m : (re \o lo)[r + k] = lo[k]
    BY <1>a, <1>c, <1>f, JoinedSequence
  <2> QED
    BY <1>8, <2>1, <2>2, <2>3
<1>13. /\ Upper(s, S) \in [1..(r + m) -> Int]
       /\ \A i \in 1..r : Upper(s, S)[i] = re[i]
       /\ \A k \in 1..m : Upper(s, S)[r + k] = hi[k]
  <2>1. re \o hi \in [1..(r + m) -> Int]
    BY <1>a, <1>c, <1>g, JoinedSequence
  <2>2. \A i \in 1..r : (re \o hi)[i] = re[i]
    BY <1>a, <1>c, <1>g, JoinedSequence
  <2>3. \A k \in 1..m : (re \o hi)[r + k] = hi[k]
    BY <1>a, <1>c, <1>g, JoinedSequence
  <2> QED
    BY <1>8, <2>1, <2>2, <2>3
<1>14. \A i \in 1..r :
         /\ PhaseXs(s)[i] = s.references[i].x /\ TrueEnergies(s)[i] = s.references[i].e
         /\ Lower(s, S)[i] = s.references[i].e /\ Upper(s, S)[i] = s.references[i].e
  BY <1>7, <1>10, <1>11, <1>12, <1>13
<1>15. \A k \in Pool(s) :
         /\ PhaseXs(s)[At(s, k)] = s.xs[k] /\ TrueEnergies(s)[At(s, k)] = s.truth[k]
         /\ Lower(s, S)[At(s, k)] = IntervalOf(s, S, k).lo
         /\ Upper(s, S)[At(s, k)] = IntervalOf(s, S, k).hi
  <2>1. ASSUME NEW k \in Pool(s)
        PROVE  k \in 1..m /\ At(s, k) = r + k
    BY <1>1, <1>9
  <2>2. \A k \in Pool(s) :
          PhaseXs(s)[At(s, k)] = s.xs[k] /\ TrueEnergies(s)[At(s, k)] = s.truth[k]
    BY <1>10, <1>11, <2>1, Zenon
  <2>3. \A k \in Pool(s) :
          /\ Lower(s, S)[At(s, k)] = IntervalOf(s, S, k).lo
          /\ Upper(s, S)[At(s, k)] = IntervalOf(s, S, k).hi
    BY <1>6, <1>12, <1>13, <2>1, Zenon
  <2> QED
    BY <2>2, <2>3
<1>16. /\ PhaseXs(s) \in [1..Extent(s) -> Compositions]
       /\ TrueEnergies(s) \in [1..Extent(s) -> Int]
       /\ Lower(s, S) \in [1..Extent(s) -> Int] /\ Upper(s, S) \in [1..Extent(s) -> Int]
  BY <1>9, <1>10, <1>11, <1>12, <1>13
<1> QED
  BY <1>14, <1>15, <1>16 DEF r

\* The phases with intervals, taken apart.
LEMMA IntervalsFacts ==
  ASSUME NEW s \in Evaluated, NEW S
  PROVE  LET P == IntervalsOf(s, S) IN
         /\ DOMAIN P = 1..Extent(s)
         /\ [i \in DOMAIN P |-> P[i].x] = PhaseXs(s)
         /\ [i \in DOMAIN P |-> P[i].lo] = Lower(s, S)
         /\ [i \in DOMAIN P |-> P[i].hi] = Upper(s, S)
         /\ \A k \in Pool(s) : P[At(s, k)] = IntervalOf(s, S, k)
<1> DEFINE r == Len(s.references)
           m == Len(s.xs)
           front == [i \in DOMAIN s.references |->
                       [x |-> s.references[i].x, lo |-> s.references[i].e, hi |-> s.references[i].e]]
           back == [k \in Pool(s) |-> IntervalOf(s, S, k)]
           Records == {front[i] : i \in 1..r} \union {back[k] : k \in 1..m}
           P == IntervalsOf(s, S)
<1>1. r \in Nat /\ m \in Nat /\ DOMAIN s.references = 1..r /\ Pool(s) = 1..m
  BY SystemFacts
<1>2. front \in [1..r -> Records] /\ back \in [1..m -> Records]
  BY <1>1
<1>3. P = front \o back
  BY DEF IntervalsOf
<1>4. \A i \in 1..r : front[i].x = s.references[i].x /\ front[i].lo = s.references[i].e /\ front[i].hi = s.references[i].e
  BY <1>1
<1>5. \A k \in 1..m : back[k] = IntervalOf(s, S, k) /\ back[k].x = s.xs[k]
  BY <1>1 DEF IntervalOf
<1>6. Extent(s) = r + m /\ \A k \in Pool(s) : At(s, k) = r + k
  BY DEF Extent, At
<1> HIDE DEF front, back, Records, P, r, m
<1>7. /\ P \in [1..(r + m) -> Records]
      /\ \A i \in 1..r : P[i] = front[i]
      /\ \A k \in 1..m : P[r + k] = back[k]
  <2>1. front \o back \in [1..(r + m) -> Records]
    BY <1>1, <1>2, JoinedSequence
  <2>2. \A i \in 1..r : (front \o back)[i] = front[i]
    BY <1>1, <1>2, JoinedSequence
  <2>3. \A k \in 1..m : (front \o back)[r + k] = back[k]
    BY <1>1, <1>2, JoinedSequence
  <2> QED
    BY <1>3, <2>1, <2>2, <2>3
<1>8. DOMAIN P = 1..(r + m)
  BY <1>7
<1>9. ASSUME NEW i \in 1..(r + m)
      PROVE  P[i].x = PhaseXs(s)[i] /\ P[i].lo = Lower(s, S)[i] /\ P[i].hi = Upper(s, S)[i]
  <2>1. CASE i \in 1..r
    BY <1>4, <1>7, <2>1, EnergiesFacts DEF r
  <2>2. CASE i \notin 1..r
    <3>1. PICK k \in 1..m : i = r + k
      <4>1. i - r \in 1..m /\ i = r + (i - r)
        BY <1>1, <2>2
      <4> QED
        BY <4>1
    <3>2. k \in Pool(s) /\ At(s, k) = r + k
      BY <1>1, <1>6
    <3>3. P[i] = IntervalOf(s, S, k) /\ P[i].x = s.xs[k]
      BY <1>5, <1>7, <3>1
    <3> QED
      BY <3>1, <3>2, <3>3, EnergiesFacts
  <2> QED
    BY <2>1, <2>2
<1>10. /\ PhaseXs(s) \in [1..(r + m) -> Compositions]
       /\ Lower(s, S) \in [1..(r + m) -> Int] /\ Upper(s, S) \in [1..(r + m) -> Int]
  BY <1>6, EnergiesFacts
<1>11. [i \in DOMAIN P |-> P[i].x] = PhaseXs(s)
  BY <1>8, <1>9, <1>10
<1>12. [i \in DOMAIN P |-> P[i].lo] = Lower(s, S)
  BY <1>8, <1>9, <1>10
<1>13. [i \in DOMAIN P |-> P[i].hi] = Upper(s, S)
  BY <1>8, <1>9, <1>10
<1>14. \A k \in Pool(s) : P[At(s, k)] = IntervalOf(s, S, k)
  BY <1>1, <1>5, <1>6, <1>7
<1> QED
  BY <1>6, <1>8, <1>11, <1>12, <1>13, <1>14 DEF P

-------------------------------------------------------------------------------
(* The competing mixtures of a query, and what a certificate compares.      *)

Competing(s, k) == {d \in Decompositions(PhaseXs(s), s.xs[k]) : At(s, k) \notin DOMAIN d}

LEMMA CompetingFacts ==
  ASSUME NEW s \in Evaluated, NEW k \in Pool(s)
  PROVE  /\ Competing(s, k) \in SUBSET Shared(Extent(s))
         /\ IsFiniteSet(Competing(s, k)) /\ Competing(s, k) # {}
         /\ \A d \in Competing(s, k) : DOMAIN d \subseteq (1..Extent(s)) \ {At(s, k)}
         /\ \A j \in (1..Extent(s)) \ {At(s, k)} :
              PhaseXs(s)[j] = s.xs[k] => [i \in {j} |-> Scale] \in Competing(s, k)
<1> DEFINE n == Extent(s)
           xs == PhaseXs(s)
           x == s.xs[k]
           r == Len(s.references)
<1>1. n \in Nat /\ xs \in [1..n -> Compositions] /\ x \in Compositions
  BY SystemFacts, EnergiesFacts
<1>2. PICK a \in 1..r, b \in 1..r : s.references[a].x = 0 /\ s.references[b].x = Grid
  <2>1. {0, Grid} \subseteq {s.references[i].x : i \in 1..r}
    BY EvaluationAssumption DEF Elements
  <2> QED
    BY <2>1
<1>3. r \in Nat /\ Len(s.xs) \in Nat /\ k \in 1..Len(s.xs) /\ n = r + Len(s.xs) /\ At(s, k) = r + k
  BY SystemFacts DEF Extent, At
<1>4. \A i \in 1..r : i \in 1..n /\ i # At(s, k) /\ xs[i] = s.references[i].x
  <2>1. \A i \in 1..r : xs[i] = s.references[i].x
    BY EnergiesFacts
  <2>2. \A i \in 1..r : i \in 1..n /\ i # At(s, k)
    <3>1. PICK p \in Nat, m \in Nat : p = r /\ m = Len(s.xs)
      BY <1>3
    <3>2. k \in 1..m /\ n = p + m /\ At(s, k) = p + k
      BY <1>3, <3>1
    <3>3. \A i \in 1..p : i \in 1..(p + m) /\ i # p + k
      BY <3>2
    <3> QED
      BY <3>1, <3>2, <3>3
  <2> QED
    BY <2>1, <2>2
<1>5. a \in 1..n /\ b \in 1..n /\ xs[a] = 0 /\ xs[b] = Grid
  BY <1>2, <1>4
<1> HIDE DEF n, xs, x, r
<1>6. IsFiniteSet(Decompositions(xs, x)) /\ Decompositions(xs, x) \subseteq Shared(n)
  BY <1>1, DecompositionsFacts
<1>7. Competing(s, k) \subseteq Decompositions(xs, x)
  BY DEF Competing, xs, x
<1>8. IsFiniteSet(Competing(s, k)) /\ Competing(s, k) \in SUBSET Shared(n)
  BY <1>6, <1>7, FS_Subset
<1>9. Competing(s, k) # {}
  <2>a. <<a, b>> \in Pairs(xs, x)
    BY <1>1, <1>5, GeometryAssumption DEF Pairs, Compositions
  <2>b. DOMAIN Between(xs, a, b, x) \subseteq {a, b}
    BY DEF Between
  <2>1. PICK d \in Decompositions(xs, x) : DOMAIN d \subseteq {a, b}
    BY <2>a, <2>b, DecompositionsAre
  <2>2. At(s, k) \notin DOMAIN d
    BY <1>2, <1>4, <2>1
  <2> QED
    BY <2>1, <2>2 DEF Competing, xs, x
<1>10. \A d \in Competing(s, k) : DOMAIN d \subseteq (1..n) \ {At(s, k)}
  <2>1. \A d \in Competing(s, k) : At(s, k) \notin DOMAIN d
    BY DEF Competing
  <2>2. \A d \in Shared(n) : DOMAIN d \subseteq 1..n
    BY DEF Shared
  <2> QED
    BY <1>8, <2>1, <2>2
<1>11. ASSUME NEW j \in (1..n) \ {At(s, k)}, xs[j] = x
       PROVE  [i \in {j} |-> Scale] \in Competing(s, k)
  <2>1. [i \in {j} |-> Scale] \in Decompositions(xs, xs[j])
    BY <1>1, <1>5, SingleIsDecomposition
  <2>2. At(s, k) \notin DOMAIN [i \in {j} |-> Scale]
    OBVIOUS
  <2> QED
    BY <1>11, <2>1, <2>2 DEF Competing, xs, x
<1> QED
  BY <1>8, <1>9, <1>10, <1>11 DEF n, xs, x

\* The margin of a query, and its certificate when the queries S are revealed.
Margin(s, k) == Scale * s.truth[k] - Lowest(Competing(s, k), TrueEnergies(s))

Verdict(s, S, k) ==
  IF Scale * IntervalOf(s, S, k).hi - Lowest(Competing(s, k), Lower(s, S)) <= Tolerance THEN "stable"
  ELSE IF Scale * IntervalOf(s, S, k).lo - Lowest(Competing(s, k), Upper(s, S)) > Tolerance THEN "unstable"
  ELSE "abstain"

LEMMA MarginIs ==
  ASSUME NEW s \in Evaluated, NEW k \in Pool(s)
  PROVE  LeaveOneOutMargin(s.xs, s.truth, s.references, k) = Margin(s, k)
<1> DEFINE phases == s.references \o ComputedEntries(s.xs, s.truth)
           xs == [i \in DOMAIN phases |-> phases[i].x]
           energy == [i \in DOMAIN phases |-> phases[i].e]
           r == Len(s.references)
           m == Len(s.xs)
           front == s.references
           back == ComputedEntries(s.xs, s.truth)
           Records == {s.references[i] : i \in 1..r} \union {back[i] : i \in 1..m}
<1>1. r \in Nat /\ m \in Nat
  BY SystemFacts
<1>2. front \in [1..r -> Records]
  <2>1. s.references \in Seq([x : Compositions, e : Int])
    BY EvaluationAssumption
  <2>2. s.references \in [1..r -> [x : Compositions, e : Int]]
    BY <2>1, LenProperties, ElementOfSeq
  <2> QED
    BY <2>2
<1>3. back \in [1..m -> Records]
  BY SystemFacts DEF ComputedEntries, Pool
<1>a. \A i \in 1..m : back[i].x = s.xs[i] /\ back[i].e = s.truth[i]
  BY SystemFacts DEF ComputedEntries, Pool
<1>b. \A i \in 1..r : front[i] = s.references[i]
  OBVIOUS
<1>7. phases = front \o back
  OBVIOUS
<1> HIDE DEF Records, front, back, phases, r, m
<1>4. front \o back \in [1..(r + m) -> Records]
  BY <1>1, <1>2, <1>3, JoinedSequence
<1>5. \A i \in 1..r : (front \o back)[i] = front[i]
  BY <1>1, <1>2, <1>3, JoinedSequence
<1>6. \A i \in 1..m : (front \o back)[r + i] = back[i]
  BY <1>1, <1>2, <1>3, JoinedSequence
<1>8. DOMAIN phases = 1..(r + m)
  BY <1>4, <1>7
<1>9. ASSUME NEW i \in 1..(r + m)
      PROVE  phases[i].x = PhaseXs(s)[i] /\ phases[i].e = TrueEnergies(s)[i]
  <2>1. CASE i \in 1..r
    <3>1. phases[i] = s.references[i]
      BY <1>5, <1>7, <1>b, <2>1
    <3>2. PhaseXs(s)[i] = s.references[i].x /\ TrueEnergies(s)[i] = s.references[i].e
      BY <2>1, EnergiesFacts DEF r
    <3> QED
      BY <3>1, <3>2
  <2>2. CASE i \notin 1..r
    <3>1. PICK j \in 1..m : i = r + j
      <4>1. i - r \in 1..m /\ i = r + (i - r)
        BY <1>1, <2>2
      <4> QED
        BY <4>1
    <3>2. j \in Pool(s) /\ At(s, j) = r + j
      BY SystemFacts DEF At, r, m
    <3>3. phases[i].x = s.xs[j] /\ phases[i].e = s.truth[j]
      BY <1>6, <1>7, <1>a, <3>1
    <3> QED
      BY <3>1, <3>2, <3>3, EnergiesFacts
  <2> QED
    BY <2>1, <2>2
<1>10. Extent(s) = r + m
  BY DEF Extent, r, m
<1>11. xs = PhaseXs(s)
  BY <1>8, <1>9, <1>10, EnergiesFacts
<1>12. energy = TrueEnergies(s)
  BY <1>8, <1>9, <1>10, EnergiesFacts
<1>13. LeaveOneOutMargin(s.xs, s.truth, s.references, k)
         = Scale * s.truth[k]
             - Min({DecompositionEnergy(d, energy) :
                      d \in {d \in Decompositions(xs, s.xs[k]) : At(s, k) \notin DOMAIN d}})
  BY DEF LeaveOneOutMargin, phases, At
<1> QED
  BY <1>11, <1>12, <1>13 DEF Margin, Lowest, Competing

LEMMA VerdictIs ==
  ASSUME NEW s \in Evaluated, NEW S, NEW k \in Pool(s)
  PROVE  Certify(IntervalsOf(s, S), At(s, k), Tolerance) = Verdict(s, S, k)
<1> DEFINE P == IntervalsOf(s, S)
           xs == [i \in DOMAIN P |-> P[i].x]
           others == (DOMAIN P) \ {At(s, k)}
           same == {i \in others : xs[i] = xs[At(s, k)]}
<1>1. /\ DOMAIN P = 1..Extent(s) /\ xs = PhaseXs(s)
      /\ [i \in DOMAIN P |-> P[i].lo] = Lower(s, S) /\ [i \in DOMAIN P |-> P[i].hi] = Upper(s, S)
      /\ P[At(s, k)] = IntervalOf(s, S, k)
  BY IntervalsFacts
<1>2. xs[At(s, k)] = s.xs[k]
  <2>1. PhaseXs(s)[At(s, k)] = s.xs[k]
    BY EnergiesFacts
  <2> HIDE DEF xs
  <2> QED
    BY <1>1, <2>1, Zenon
<1>3. Mixtures(P, At(s, k)) = {d \in Decompositions(xs, xs[At(s, k)]) : DOMAIN d \subseteq others}
                                \union {[i \in {j} |-> Scale] : j \in same}
  BY DEF Mixtures
<1> HIDE DEF P, xs, others, same
<1>4. {d \in Decompositions(xs, xs[At(s, k)]) : DOMAIN d \subseteq others} = Competing(s, k)
  <2>1. \A d \in Competing(s, k) : DOMAIN d \subseteq others
    BY <1>1, CompetingFacts DEF others
  <2>2. \A d : d \in Competing(s, k) <=> d \in Decompositions(xs, xs[At(s, k)]) /\ At(s, k) \notin DOMAIN d
    BY <1>1, <1>2 DEF Competing
  <2>3. At(s, k) \notin others
    BY DEF others
  <2> QED
    BY <2>1, <2>2, <2>3
<1>5. {[i \in {j} |-> Scale] : j \in same} \subseteq Competing(s, k)
  <2>1. ASSUME NEW j \in same
        PROVE  [i \in {j} |-> Scale] \in Competing(s, k)
    <3>1. j \in (1..Extent(s)) \ {At(s, k)} /\ PhaseXs(s)[j] = s.xs[k]
      BY <1>1, <1>2 DEF same, others
    <3> QED
      BY <3>1, CompetingFacts
  <2> QED
    BY <2>1
<1>6. Mixtures(P, At(s, k)) = Competing(s, k) /\ Competing(s, k) # {}
  BY <1>3, <1>4, <1>5, CompetingFacts
<1>7. /\ EndpointHull(P, At(s, k), [i \in DOMAIN P |-> P[i].lo]) = Lowest(Competing(s, k), Lower(s, S))
      /\ EndpointHull(P, At(s, k), [i \in DOMAIN P |-> P[i].hi]) = Lowest(Competing(s, k), Upper(s, S))
  BY <1>1, <1>6 DEF EndpointHull, Lowest
<1>8. Certify(P, At(s, k), Tolerance) = Verdict(s, S, k)
  BY <1>1, <1>6, <1>7, Zenon DEF Certify, Verdict
<1> QED
  BY <1>8 DEF P

\* The intervals hold the energies of the system.
CoveredIn(s, S) ==
  \A k \in Pool(s) : IntervalOf(s, S, k).lo <= s.truth[k] /\ s.truth[k] <= IntervalOf(s, S, k).hi

LEMMA EndpointsFacts ==
  ASSUME NEW s \in Evaluated, NEW S, CoveredIn(s, S)
  PROVE  \A i \in 1..Extent(s) : Lower(s, S)[i] <= TrueEnergies(s)[i] /\ TrueEnergies(s)[i] <= Upper(s, S)[i]
<1>1. ASSUME NEW i \in 1..Extent(s)
      PROVE  Lower(s, S)[i] <= TrueEnergies(s)[i] /\ TrueEnergies(s)[i] <= Upper(s, S)[i]
  <2>1. /\ TrueEnergies(s)[i] \in Int
        /\ i \in 1..Len(s.references) \/ \E k \in Pool(s) : i = At(s, k)
    BY EnergiesFacts, PhaseIsOneOf
  <2>2. CASE i \in 1..Len(s.references)
    <3>1. TrueEnergies(s)[i] = Lower(s, S)[i] /\ TrueEnergies(s)[i] = Upper(s, S)[i]
      BY <2>2, EnergiesFacts
    <3> QED
      BY <2>1, <3>1
  <2>3. CASE \E k \in Pool(s) : i = At(s, k)
    <3>1. PICK k \in Pool(s) : i = At(s, k)
      BY <2>3
    <3>2. /\ TrueEnergies(s)[i] = s.truth[k] /\ Lower(s, S)[i] = IntervalOf(s, S, k).lo
          /\ Upper(s, S)[i] = IntervalOf(s, S, k).hi
      BY <3>1, EnergiesFacts
    <3> QED
      BY <3>2 DEF CoveredIn
  <2> QED
    BY <2>1, <2>2, <2>3
<1> QED
  BY <1>1

\* The interval of a query holds numbers in order, and narrows when more is
\* revealed.
LEMMA IntervalFacts ==
  ASSUME NEW s \in Evaluated, NEW S, NEW T, S \subseteq T, CoveredIn(s, S), NEW k \in Pool(s)
  PROVE  /\ IntervalOf(s, S, k).lo \in Int /\ IntervalOf(s, S, k).hi \in Int
         /\ IntervalOf(s, S, k).lo <= IntervalOf(s, T, k).lo
         /\ IntervalOf(s, T, k).hi <= IntervalOf(s, S, k).hi
         /\ IntervalOf(s, T, k).lo <= s.truth[k] /\ s.truth[k] <= IntervalOf(s, T, k).hi
<1>1. s.truth[k] \in Int /\ s.source[k] \in Int /\ s.radius \in Nat
  BY SystemFacts
<1>2. IntervalOf(s, S, k).lo <= s.truth[k] /\ s.truth[k] <= IntervalOf(s, S, k).hi
  BY DEF CoveredIn
<1>3. CASE k \in S
  <2>1. /\ IntervalOf(s, S, k).lo = s.truth[k] /\ IntervalOf(s, S, k).hi = s.truth[k]
        /\ IntervalOf(s, T, k).lo = s.truth[k] /\ IntervalOf(s, T, k).hi = s.truth[k]
    BY <1>3 DEF IntervalOf
  <2> QED
    BY <1>1, <2>1
<1>4. CASE k \notin S /\ k \in T
  <2>1. /\ IntervalOf(s, S, k).lo = s.source[k] - s.radius /\ IntervalOf(s, S, k).hi = s.source[k] + s.radius
        /\ IntervalOf(s, T, k).lo = s.truth[k] /\ IntervalOf(s, T, k).hi = s.truth[k]
    BY <1>4 DEF IntervalOf
  <2> QED
    BY <1>1, <1>2, <2>1
<1>5. CASE k \notin T
  <2>1. /\ IntervalOf(s, S, k).lo = s.source[k] - s.radius /\ IntervalOf(s, S, k).hi = s.source[k] + s.radius
        /\ IntervalOf(s, T, k) = IntervalOf(s, S, k)
    BY <1>5 DEF IntervalOf
  <2> QED
    BY <1>1, <1>2, <2>1
<1> QED
  BY <1>3, <1>4, <1>5

LEMMA CoverageLasts ==
  ASSUME NEW s \in Evaluated, NEW S, NEW T, S \subseteq T, CoveredIn(s, S)
  PROVE  CoveredIn(s, T)
<1>1. ASSUME NEW k \in Pool(s)
      PROVE  IntervalOf(s, T, k).lo <= s.truth[k] /\ s.truth[k] <= IntervalOf(s, T, k).hi
  BY IntervalFacts
<1> QED
  BY <1>1 DEF CoveredIn

LEMMA EndpointsNarrow ==
  ASSUME NEW s \in Evaluated, NEW S, NEW T, S \subseteq T, CoveredIn(s, S)
  PROVE  \A i \in 1..Extent(s) : Lower(s, S)[i] <= Lower(s, T)[i] /\ Upper(s, T)[i] <= Upper(s, S)[i]
<1>1. ASSUME NEW i \in 1..Extent(s)
      PROVE  Lower(s, S)[i] <= Lower(s, T)[i] /\ Upper(s, T)[i] <= Upper(s, S)[i]
  <2>1. /\ Lower(s, S)[i] \in Int /\ Upper(s, S)[i] \in Int
        /\ i \in 1..Len(s.references) \/ \E k \in Pool(s) : i = At(s, k)
    BY EnergiesFacts, PhaseIsOneOf
  <2>2. CASE i \in 1..Len(s.references)
    <3>1. Lower(s, S)[i] = Lower(s, T)[i] /\ Upper(s, S)[i] = Upper(s, T)[i]
      BY <2>2, EnergiesFacts
    <3> QED
      BY <2>1, <3>1
  <2>3. CASE \E k \in Pool(s) : i = At(s, k)
    <3>1. PICK k \in Pool(s) : i = At(s, k)
      BY <2>3
    <3>2. /\ Lower(s, S)[i] = IntervalOf(s, S, k).lo /\ Lower(s, T)[i] = IntervalOf(s, T, k).lo
      BY <3>1, EnergiesFacts
    <3>3. /\ Upper(s, S)[i] = IntervalOf(s, S, k).hi /\ Upper(s, T)[i] = IntervalOf(s, T, k).hi
      BY <3>1, EnergiesFacts
    <3>4. /\ IntervalOf(s, S, k).lo <= IntervalOf(s, T, k).lo
          /\ IntervalOf(s, T, k).hi <= IntervalOf(s, S, k).hi
      BY IntervalFacts
    <3> QED
      BY <3>2, <3>3, <3>4
  <2> QED
    BY <2>1, <2>2, <2>3
<1> QED
  BY <1>1

\* The lowest competing energies, at the lower ends, in truth and at the upper.
LEMMA BoundsFacts ==
  ASSUME NEW s \in Evaluated, NEW S, NEW T, S \subseteq T, CoveredIn(s, S), NEW k \in Pool(s)
  PROVE  LET C == Competing(s, k) IN
         /\ Lowest(C, Lower(s, S)) \in Int /\ Lowest(C, Upper(s, S)) \in Int
         /\ Lowest(C, TrueEnergies(s)) \in Int
         /\ Lowest(C, Lower(s, T)) \in Int /\ Lowest(C, Upper(s, T)) \in Int
         /\ Lowest(C, Lower(s, S)) <= Lowest(C, Lower(s, T))
         /\ Lowest(C, Lower(s, T)) <= Lowest(C, TrueEnergies(s))
         /\ Lowest(C, TrueEnergies(s)) <= Lowest(C, Upper(s, T))
         /\ Lowest(C, Upper(s, T)) <= Lowest(C, Upper(s, S))
<1> DEFINE C == Competing(s, k)
           n == Extent(s)
<1>1. n \in Nat /\ C \in SUBSET Shared(n) /\ IsFiniteSet(C) /\ C # {}
  BY SystemFacts, CompetingFacts
<1>2. ASSUME NEW U
      PROVE  Lower(s, U) \in [1..n -> Int] /\ Upper(s, U) \in [1..n -> Int]
  BY EnergiesFacts
<1>3. TrueEnergies(s) \in [1..n -> Int]
  BY EnergiesFacts
<1>4. \A i \in 1..n : Lower(s, S)[i] <= Lower(s, T)[i]
  BY EndpointsNarrow
<1>5. \A i \in 1..n : Upper(s, T)[i] <= Upper(s, S)[i]
  BY EndpointsNarrow
<1>6. CoveredIn(s, T)
  BY CoverageLasts
<1>7. \A i \in 1..n : Lower(s, T)[i] <= TrueEnergies(s)[i]
  BY <1>6, EndpointsFacts
<1>8. \A i \in 1..n : TrueEnergies(s)[i] <= Upper(s, T)[i]
  BY <1>6, EndpointsFacts
<1> HIDE DEF C, n
<1>9. \A e \in [1..n -> Int], f \in [1..n -> Int] :
        (\A i \in 1..n : e[i] <= f[i])
          => Lowest(C, e) \in Int /\ Lowest(C, f) \in Int /\ Lowest(C, e) <= Lowest(C, f)
  BY <1>1, LowestGrows
<1>10. Lowest(C, Lower(s, S)) \in Int /\ Lowest(C, Lower(s, T)) \in Int
         /\ Lowest(C, Lower(s, S)) <= Lowest(C, Lower(s, T))
  BY <1>2, <1>4, <1>9
<1>11. Lowest(C, Lower(s, T)) <= Lowest(C, TrueEnergies(s)) /\ Lowest(C, TrueEnergies(s)) \in Int
  BY <1>2, <1>3, <1>7, <1>9
<1>12. Lowest(C, TrueEnergies(s)) <= Lowest(C, Upper(s, T))
  BY <1>2, <1>3, <1>8, <1>9
<1>13. Lowest(C, Upper(s, T)) \in Int /\ Lowest(C, Upper(s, S)) \in Int
         /\ Lowest(C, Upper(s, T)) <= Lowest(C, Upper(s, S))
  BY <1>2, <1>5, <1>9
<1> QED
  BY <1>10, <1>11, <1>12, <1>13 DEF C

\* A verdict says what the complete pool will say.
LEMMA VerdictIsTrue ==
  ASSUME NEW s \in Evaluated, NEW S, CoveredIn(s, S), NEW k \in Pool(s)
  PROVE  /\ Verdict(s, S, k) = "stable" => Margin(s, k) <= Tolerance
         /\ Verdict(s, S, k) = "unstable" => Margin(s, k) > Tolerance
         /\ Pool(s) \subseteq S => Verdict(s, S, k) # "abstain"
<1>1. PICK lo \in Int, hi \in Int, y \in Int, lower \in Int, upper \in Int, lowest \in Int :
        /\ lo = IntervalOf(s, S, k).lo /\ hi = IntervalOf(s, S, k).hi /\ y = s.truth[k]
        /\ lower = Lowest(Competing(s, k), Lower(s, S)) /\ upper = Lowest(Competing(s, k), Upper(s, S))
        /\ lowest = Lowest(Competing(s, k), TrueEnergies(s))
  BY SystemFacts, IntervalFacts, BoundsFacts
<1>2. lo <= y /\ y <= hi /\ lower <= lowest /\ lowest <= upper
  BY <1>1, IntervalFacts, BoundsFacts
<1>3. PICK a \in Int, b \in Int, c \in Int : a = Scale * lo /\ b = Scale * y /\ c = Scale * hi
  BY GeometryAssumption
<1>4. a <= b /\ b <= c
  <2>1. \A w \in Nat, u \in Int, v \in Int : u <= v => w * u <= w * v
    OBVIOUS
  <2> QED
    BY <1>2, <1>3, <2>1, GeometryAssumption
<1>5. Tolerance \in Int
  BY EvaluationAssumption
<1>6. /\ Margin(s, k) = b - lowest
      /\ Verdict(s, S, k) = IF c - lower <= Tolerance THEN "stable"
                            ELSE IF a - upper > Tolerance THEN "unstable" ELSE "abstain"
  BY <1>1, <1>3 DEF Margin, Verdict
<1>7. ASSUME Pool(s) \subseteq S
      PROVE  Verdict(s, S, k) # "abstain"
  <2>1. lo = y /\ hi = y
    BY <1>1, <1>7 DEF IntervalOf
  <2>2. Lower(s, S) = Upper(s, S)
    <3>1. Pool(s) = Pool(s) \intersect S
      BY <1>7
    <3>2. [j \in Pool(s) |-> IF j \in S THEN s.truth[j] ELSE s.source[j] - s.radius]
            = [j \in Pool(s) |-> IF j \in S THEN s.truth[j] ELSE s.source[j] + s.radius]
      BY <3>1
    <3> QED
      BY <3>2, Zenon DEF Lower, Upper
  <2>3. a = c /\ lower = upper
    BY <1>1, <1>3, <2>1, <2>2
  <2> QED
    BY <1>5, <1>6, <2>3
<1> QED
  BY <1>2, <1>4, <1>5, <1>6, <1>7

\* A verdict stands when more is revealed.
LEMMA VerdictLasts ==
  ASSUME NEW s \in Evaluated, NEW S, NEW T, S \subseteq T, CoveredIn(s, S), NEW k \in Pool(s),
         Verdict(s, S, k) # "abstain"
  PROVE  Verdict(s, T, k) = Verdict(s, S, k)
<1>1. PICK lo \in Int, hi \in Int, lower \in Int, upper \in Int :
        /\ lo = IntervalOf(s, S, k).lo /\ hi = IntervalOf(s, S, k).hi
        /\ lower = Lowest(Competing(s, k), Lower(s, S)) /\ upper = Lowest(Competing(s, k), Upper(s, S))
  BY IntervalFacts, BoundsFacts
<1>2. CoveredIn(s, T)
  BY CoverageLasts
<1>3. PICK lo2 \in Int, hi2 \in Int, lower2 \in Int, upper2 \in Int, lowest \in Int :
        /\ lo2 = IntervalOf(s, T, k).lo /\ hi2 = IntervalOf(s, T, k).hi
        /\ lower2 = Lowest(Competing(s, k), Lower(s, T)) /\ upper2 = Lowest(Competing(s, k), Upper(s, T))
        /\ lowest = Lowest(Competing(s, k), TrueEnergies(s))
  <2>1. IntervalOf(s, T, k).lo \in Int /\ IntervalOf(s, T, k).hi \in Int
    BY <1>2, IntervalFacts
  <2> QED
    BY <2>1, BoundsFacts
<1>4. lower <= lower2 /\ lower2 <= lowest /\ lowest <= upper2 /\ upper2 <= upper
  BY <1>1, <1>3, BoundsFacts
<1>5. lo <= lo2 /\ hi2 <= hi /\ lo2 <= s.truth[k] /\ s.truth[k] <= hi2 /\ s.truth[k] \in Int
  BY <1>1, <1>3, IntervalFacts, SystemFacts
<1>6. PICK a \in Int, b \in Int, c \in Int, d \in Int :
        a = Scale * lo /\ b = Scale * lo2 /\ c = Scale * hi2 /\ d = Scale * hi
  BY GeometryAssumption
<1>7. a <= b /\ b <= c /\ c <= d
  <2>1. \A w \in Nat, u \in Int, v \in Int : u <= v => w * u <= w * v
    OBVIOUS
  <2>2. lo2 <= hi2
    BY <1>5
  <2> QED
    BY <1>5, <1>6, <2>1, <2>2, GeometryAssumption
<1>8. Tolerance \in Int
  BY EvaluationAssumption
<1>9. /\ Verdict(s, S, k) = IF d - lower <= Tolerance THEN "stable"
                            ELSE IF a - upper > Tolerance THEN "unstable" ELSE "abstain"
      /\ Verdict(s, T, k) = IF c - lower2 <= Tolerance THEN "stable"
                            ELSE IF b - upper2 > Tolerance THEN "unstable" ELSE "abstain"
  BY <1>1, <1>3, <1>6 DEF Verdict
<1>10. CASE d - lower <= Tolerance
  <2>1. c - lower2 <= Tolerance
    BY <1>4, <1>7, <1>8, <1>10
  <2> QED
    BY <1>9, <1>10, <2>1
<1>11. CASE ~(d - lower <= Tolerance) /\ a - upper > Tolerance
  <2>1. ~(c - lower2 <= Tolerance) /\ b - upper2 > Tolerance
    BY <1>4, <1>7, <1>8, <1>11
  <2> QED
    BY <1>9, <1>11, <2>1
<1> QED
  BY <1>9, <1>10, <1>11

-------------------------------------------------------------------------------
(* Actions near the best, between the two certified sets.                   *)

\* Certified values of the queries, when the queries S are revealed.
ValuesOf(s, S) ==
  [k \in Pool(s) |-> [lo |-> 0 - IntervalOf(s, S, k).hi, hi |-> 0 - IntervalOf(s, S, k).lo]]

NearBest(s) == {k \in Pool(s) : s.truth[k] <= Min(ToSet(s.truth)) + Epsilon}

LEMMA ActionsAreBetween ==
  ASSUME NEW s \in Evaluated, NEW S, CoveredIn(s, S)
  PROVE  /\ Guaranteed(ValuesOf(s, S), Epsilon) \subseteq NearBest(s)
         /\ NearBest(s) \subseteq Possible(ValuesOf(s, S), Epsilon)
<1> DEFINE D == Pool(s)
           values == ValuesOf(s, S)
           lo == [k \in D |-> 0 - IntervalOf(s, S, k).hi]
           hi == [k \in D |-> 0 - IntervalOf(s, S, k).lo]
<1>1. DOMAIN values = D /\ \A k \in D : values[k].lo = lo[k] /\ values[k].hi = hi[k]
  BY DEF ValuesOf
<1>2. ASSUME NEW k \in D
      PROVE  /\ lo[k] \in Int /\ hi[k] \in Int /\ s.truth[k] \in Int
             /\ lo[k] <= 0 - s.truth[k] /\ 0 - s.truth[k] <= hi[k]
  <2>1. /\ IntervalOf(s, S, k).lo \in Int /\ IntervalOf(s, S, k).hi \in Int /\ s.truth[k] \in Int
        /\ IntervalOf(s, S, k).lo <= s.truth[k] /\ s.truth[k] <= IntervalOf(s, S, k).hi
    BY SystemFacts, IntervalFacts
  <2> QED
    BY <2>1
<1>3. lo \in [D -> Int] /\ hi \in [D -> Int]
  BY <1>2
<1>4. s.truth \in [D -> Int] /\ ToSet(s.truth) = {s.truth[k] : k \in D}
  BY SystemFacts DEF ToSet
<1>5. IsFiniteSet(D)
  <2>1. D = 1..Len(s.xs) /\ Len(s.xs) \in Nat
    BY SystemFacts
  <2>2. IsFiniteSet(1..Len(s.xs))
    BY <2>1, FS_Interval
  <2> QED
    BY <2>1, <2>2
<1>6. /\ Guaranteed(values, Epsilon) = {k \in D : lo[k] >= Max({hi[a] : a \in D}) - Epsilon}
      /\ Possible(values, Epsilon) = {k \in D : hi[k] >= Max({lo[a] : a \in D}) - Epsilon}
  <2>1. {values[a].hi : a \in DOMAIN values} = {hi[a] : a \in D}
    BY <1>1
  <2>2. {values[a].lo : a \in DOMAIN values} = {lo[a] : a \in D}
    BY <1>1
  <2> HIDE DEF values, lo, hi
  <2> QED
    BY <1>1, <2>1, <2>2 DEF Guaranteed, Possible
<1>7. NearBest(s) = {k \in D : s.truth[k] <= Min({s.truth[a] : a \in D}) + Epsilon}
  BY <1>4 DEF NearBest
<1>8. Epsilon \in Nat
  BY EvaluationAssumption
<1> HIDE DEF values, lo, hi, D
<1>9. ASSUME NEW k \in D
      PROVE  /\ k \in Guaranteed(values, Epsilon) => k \in NearBest(s)
             /\ k \in NearBest(s) => k \in Possible(values, Epsilon)
  <2>1. PICK j \in D : Min({s.truth[a] : a \in D}) = s.truth[j]
    BY <1>4, <1>5, ExtremesOfFamily
  <2>2. PICK h \in D : Max({hi[a] : a \in D}) = hi[h] /\ \A a \in D : hi[h] >= hi[a]
    BY <1>3, <1>5, ExtremesOfFamily
  <2>3. PICK l \in D : Max({lo[a] : a \in D}) = lo[l] /\ \A a \in D : lo[l] >= lo[a]
    BY <1>3, <1>5, ExtremesOfFamily
  <2>4. \A a \in D : Min({s.truth[b] : b \in D}) <= s.truth[a]
    BY <1>4, <1>5, ExtremesOfFamily
  <2>5. k \in Guaranteed(values, Epsilon) => k \in NearBest(s)
    <3> SUFFICES ASSUME lo[k] >= hi[h] - Epsilon
                 PROVE  s.truth[k] <= s.truth[j] + Epsilon
      BY <1>6, <1>7, <2>1, <2>2
    <3>1. hi[h] >= hi[j]
      BY <2>2
    <3> QED
      BY <1>2, <1>8, <3>1
  <2>6. k \in NearBest(s) => k \in Possible(values, Epsilon)
    <3> SUFFICES ASSUME s.truth[k] <= s.truth[j] + Epsilon
                 PROVE  hi[k] >= lo[l] - Epsilon
      BY <1>6, <1>7, <2>1, <2>3
    <3>1. s.truth[j] <= s.truth[l]
      BY <2>1, <2>4
    <3> QED
      BY <1>2, <1>8, <3>1
  <2> QED
    BY <2>5, <2>6
<1>10. Guaranteed(values, Epsilon) \subseteq D /\ NearBest(s) \subseteq D
  BY <1>6, <1>7
<1> QED
  BY <1>9, <1>10 DEF values

-------------------------------------------------------------------------------
(* The order statistic.                                                     *)

\* Enough clusters are below the calibrated radius, so that of the missed
\* clusters the least one has enough covered ones below it.
LEMMA OrderStatistic ==
  ASSUME NEW n \in Nat, NEW err \in [1..n -> Int], NEW level \in 1..99,
         n * level <= 100 * (n - 1)
  PROVE  100 * Cardinality({k \in 1..n :
                 err[k] <= ConformalQuantile([j \in (1..n) \ {k} |-> err[j]], level)})
           >= level * n
<1> DEFINE others(k) == (1..n) \ {k}
           scores(k) == [j \in others(k) |-> err[j]]
           radius(k) == ConformalQuantile(scores(k), level)
           below(k, v) == {j \in others(k) : err[j] <= v}
           covered == {k \in 1..n : err[k] <= radius(k)}
           order == (((n - 1) + 1) * level + 99) \div 100
<1>1. PICK p \in Nat : p = n * level
  OBVIOUS
<1>2. order \in Nat /\ 100 * order >= p /\ p = level * n
  <2>1. (n - 1) + 1 = n /\ n * level = level * n
    OBVIOUS
  <2>2. order = (p + 99) \div 100
    BY <1>1, <2>1
  <2>3. (p + 99) \div 100 \in Nat /\ 100 * ((p + 99) \div 100) >= p
    OBVIOUS
  <2> QED
    BY <1>1, <2>1, <2>2, <2>3
<1>3. IsFiniteSet(1..n) /\ Cardinality(1..n) = n
  BY FS_Interval
<1>4. \A X \in SUBSET (1..n) : IsFiniteSet(X) /\ Cardinality(X) \in Nat
  BY <1>3, FS_Subset, FS_CardinalityType
<1>5. ASSUME NEW k \in 1..n
      PROVE  /\ radius(k) \in Int
             /\ Cardinality(below(k, radius(k))) >= order
  <2> DEFINE D == others(k)
             f == scores(k)
             V == {v \in {f[j] : j \in D} : Cardinality({j \in D : f[j] <= v}) >= order}
  <2>1. IsFiniteSet(D) /\ Cardinality(D) = n - 1
    BY <1>3, FS_RemoveElement
  <2>2. f \in [D -> Int] /\ DOMAIN f = D
    OBVIOUS
  <2>3. order <= n - 1
    <3>1. p <= 100 * (n - 1)
      BY <1>1
    <3>2. order = (p + 99) \div 100
      <4>1. (n - 1) + 1 = n
        OBVIOUS
      <4> QED
        BY <1>1, <4>1
    <3>3. (p + 99) \div 100 <= n - 1
      BY <3>1
    <3> QED
      BY <3>2, <3>3
  <2>4. D # {}
    <3>1. order # 0
      <4>1. n >= 1 /\ level >= 1
        OBVIOUS
      <4>2. p >= 1
        BY <1>1, <4>1
      <4> QED
        BY <1>2, <4>2
    <3>2. n - 1 # 0
      BY <1>2, <2>3, <3>1
    <3> QED
      BY <2>1, <3>2, FS_EmptySet
  <2> HIDE DEF D, f, order
  <2>5. PICK h \in D : \A j \in D : f[h] >= f[j]
    BY <2>1, <2>2, <2>4, ExtremesOfFamily
  <2>6. f[h] \in V
    <3>1. {j \in D : f[j] <= f[h]} = D
      BY <2>2, <2>5
    <3> QED
      BY <2>1, <2>3, <3>1
  <2>7. IsFiniteSet({f[j] : j \in D})
    <3>1. f \in Surjection(D, {f[j] : j \in D})
      BY <2>2 DEF Surjection
    <3> QED
      BY <2>1, <3>1, FS_Surjection
  <2>8. IsFiniteSet(V) /\ V \in SUBSET Int
    <3>1. V \in SUBSET {f[j] : j \in D}
      OBVIOUS
    <3>2. {f[j] : j \in D} \in SUBSET Int
      BY <2>2
    <3> HIDE DEF V
    <3> QED
      BY <2>7, <3>1, <3>2, FS_Subset
  <2>9. Min(V) \in V
    BY <2>6, <2>8, LeastOf
  <2>10. radius(k) = Min(V)
    <3>1. ~((((Cardinality(D) + 1) * level + 99) \div 100) > Cardinality(D))
      BY <1>2, <2>1, <2>3 DEF order
    <3>2. Cardinality(D) = n - 1
      BY <2>1
    <3> QED
      BY <2>2, <3>1, <3>2 DEF ConformalQuantile, f, D, order
  <2>11. Cardinality({j \in D : f[j] <= Min(V)}) >= order
    BY <2>9
  <2>12. {j \in D : f[j] <= Min(V)} = below(k, radius(k))
    BY <2>10 DEF f, D
  <2> QED
    BY <2>8, <2>9, <2>10, <2>11, <2>12
<1> HIDE DEF order
<1>6. CASE covered = 1..n
  <2>1. 100 * n >= level * n
    <3>1. \A w \in 1..99, y \in Nat : w * y <= 100 * y
      OBVIOUS
    <3> QED
      BY <3>1
  <2> HIDE DEF covered
  <2>2. 100 * Cardinality(covered) >= level * n
    BY <1>3, <1>6, <2>1
  <2> QED
    BY <2>2 DEF covered
<1>7. CASE covered # 1..n
  <2> DEFINE missed == (1..n) \ covered
  <2>1. missed # {} /\ missed \in SUBSET (1..n) /\ IsFiniteSet(missed)
    BY <1>4, <1>7
  <2>2. PICK k \in missed : \A j \in missed : err[k] <= err[j]
    <3> HIDE DEF missed
    <3>1. [j \in missed |-> err[j]] \in [missed -> Int]
      BY <2>1
    <3>2. \E k \in missed : \A j \in missed : [i \in missed |-> err[i]][k] <= [i \in missed |-> err[i]][j]
      BY <2>1, <3>1, ExtremesOfFamily
    <3> QED
      BY <3>2
  <2>3. k \in 1..n /\ ~(err[k] <= radius(k))
    OBVIOUS
  <2>4. radius(k) \in Int /\ Cardinality(below(k, radius(k))) >= order
    BY <1>5, <2>3
  <2>5. ASSUME NEW j \in below(k, radius(k))
        PROVE  j \in covered
    <3> HIDE DEF covered, radius
    <3>1. j \in 1..n /\ err[j] \in Int /\ err[k] \in Int /\ err[j] <= radius(k)
      BY <2>3
    <3>2. ~(err[k] <= err[j])
      BY <2>3, <2>4, <3>1
    <3> QED
      BY <2>2, <3>1, <3>2
  <2> HIDE DEF radius, missed
  <2>6. below(k, radius(k)) \subseteq covered /\ covered \in SUBSET (1..n)
    BY <2>5
  <2> HIDE DEF below, covered
  <2>7. Cardinality(below(k, radius(k))) <= Cardinality(covered)
    BY <1>4, <2>6, FS_Subset
  <2>8. below(k, radius(k)) \in SUBSET (1..n)
    BY <2>6
  <2>9. 100 * Cardinality(covered) >= level * n
    BY <1>2, <1>4, <2>4, <2>6, <2>7, <2>8
  <2> QED
    BY <2>9 DEF covered, radius
<1> QED
  BY <1>6, <1>7

-------------------------------------------------------------------------------
(* The evaluation of a campaign.                                            *)

\* The system of a campaign is one of the evaluated ones, and its trace lists
\* queries.
EvaluationInvariant == pool \in Evaluated /\ selected \in Seq(Nat)

LEMMA EvaluationInvariantHolds == EvaluationSpec => []EvaluationInvariant
<1>1. EvaluationInit => EvaluationInvariant
  BY DEF EvaluationInit, EvaluationInvariant
<1>2. ASSUME EvaluationInvariant, EvaluationNext
      PROVE  EvaluationInvariant'
  <2>1. PICK k \in DOMAIN pool.xs : Replay(k)
    BY <1>2 DEF EvaluationNext
  <2>2. k \in Nat
    <3>1. k \in Pool(pool) /\ pool \in Evaluated
      BY <1>2 DEF EvaluationInvariant, Pool
    <3>2. Pool(pool) = 1..Len(pool.xs) /\ Len(pool.xs) \in Nat
      BY <3>1, SystemFacts
    <3> QED
      BY <3>1, <3>2
  <2>3. selected' = Append(selected, k) /\ pool' = pool
    BY <2>1 DEF Replay
  <2>4. selected \in Seq(Nat)
    BY <1>2 DEF EvaluationInvariant
  <2>5. Append(selected, k) \in Seq(Nat)
    BY <2>2, <2>4, AppendProperties
  <2> QED
    BY <1>2, <2>3, <2>5 DEF EvaluationInvariant
<1>3. EvaluationInvariant /\ UNCHANGED evaluationVars => EvaluationInvariant'
  BY DEF EvaluationInvariant, evaluationVars
<1> QED
  BY <1>1, <1>2, <1>3, PTL DEF EvaluationSpec

\* The model's expressions are those of the lemmas, for the selected queries.
LEMMA StateFacts ==
  ASSUME EvaluationInvariant
  PROVE  LET S == ToSet(selected) IN
         /\ Covered <=> CoveredIn(pool, S)
         /\ \A k \in Pool(pool) : Certificates[k] = Verdict(pool, S, k)
         /\ ActionValues = ValuesOf(pool, S)
<1> DEFINE S == ToSet(selected)
<1>1. \A k : Interval(k) = IntervalOf(pool, S, k)
  BY DEF Interval, IntervalOf
<1>2. IntervalPhases = IntervalsOf(pool, S)
  BY <1>1 DEF IntervalPhases, IntervalsOf
<1>3. \A k \in Pool(pool) :
        Certificates[k] = Certify(IntervalsOf(pool, S), At(pool, k), Tolerance)
  BY <1>2 DEF Certificates, At
<1>4. \A k \in Pool(pool) : Certificates[k] = Verdict(pool, S, k)
  BY <1>3, VerdictIs DEF EvaluationInvariant
<1>5. Covered <=> CoveredIn(pool, S)
  BY <1>1 DEF Covered, CoveredIn
<1>6. ActionValues = ValuesOf(pool, S)
  BY <1>1 DEF ActionValues, ValuesOf
<1> QED
  BY <1>4, <1>5, <1>6

LEMMA CertificatesAreTrue ==
  ASSUME EvaluationInvariant
  PROVE  CertificatesHold
<1> DEFINE S == ToSet(selected)
<1> SUFFICES ASSUME Covered
             PROVE  /\ \A k \in Pool(pool) :
                         LET margin == LeaveOneOutMargin(pool.xs, pool.truth, pool.references, k) IN
                         /\ Certificates[k] = "stable" => margin <= Tolerance
                         /\ Certificates[k] = "unstable" => margin > Tolerance
                         /\ Unselected = {} => Certificates[k] # "abstain"
                    /\ Guaranteed(ActionValues, Epsilon) \subseteq NearBest(pool)
                    /\ NearBest(pool) \subseteq Possible(ActionValues, Epsilon)
  BY DEF CertificatesHold, NearBest
<1>1. pool \in Evaluated /\ CoveredIn(pool, S)
  BY StateFacts DEF EvaluationInvariant
<1>2. ASSUME NEW k \in Pool(pool)
      PROVE  LET margin == LeaveOneOutMargin(pool.xs, pool.truth, pool.references, k) IN
             /\ Certificates[k] = "stable" => margin <= Tolerance
             /\ Certificates[k] = "unstable" => margin > Tolerance
             /\ Unselected = {} => Certificates[k] # "abstain"
  <2>1. Certificates[k] = Verdict(pool, S, k)
    BY StateFacts
  <2>2. LeaveOneOutMargin(pool.xs, pool.truth, pool.references, k) = Margin(pool, k)
    BY <1>1, MarginIs
  <2>3. Unselected = {} => Pool(pool) \subseteq S
    BY DEF Unselected
  <2> QED
    BY <1>1, <2>1, <2>2, <2>3, VerdictIsTrue
<1>3. /\ Guaranteed(ActionValues, Epsilon) \subseteq NearBest(pool)
      /\ NearBest(pool) \subseteq Possible(ActionValues, Epsilon)
  BY <1>1, StateFacts, ActionsAreBetween
<1> QED
  BY <1>2, <1>3

LEMMA RadiusCovers ==
  ASSUME EvaluationInvariant
  PROVE  ConformalCovers
<1> DEFINE err == [k \in Pool(pool) |-> SourceError(k)]
           n == Len(pool.xs)
<1>1. n \in Nat /\ Pool(pool) = 1..n
  BY SystemFacts DEF EvaluationInvariant
<1>2. ASSUME NEW k \in Pool(pool)
      PROVE  SourceError(k) \in Int
  <2>1. pool.truth[k] \in Int /\ pool.source[k] \in Int
    BY SystemFacts DEF EvaluationInvariant
  <2> DEFINE a == pool.truth[k] - pool.source[k]
             b == pool.source[k] - pool.truth[k]
  <2>2. a \in Int /\ b \in Int
    BY <2>1
  <2> HIDE DEF a, b
  <2>3. IsFiniteSet({a, b})
    <3>1. IsFiniteSet({a})
      BY FS_Singleton
    <3>2. IsFiniteSet({a} \union {b})
      BY <3>1, FS_AddElement
    <3>3. {a} \union {b} = {a, b}
      OBVIOUS
    <3> QED
      BY <3>2, <3>3
  <2>4. Max({a, b}) \in {a, b}
    BY <2>2, <2>3, GreatestOf
  <2> QED
    BY <2>2, <2>4 DEF SourceError, a, b
<1>3. err \in [1..n -> Int]
  BY <1>1, <1>2
<1>4. \A k \in Pool(pool) : err[k] = SourceError(k)
        /\ [j \in Pool(pool) \ {k} |-> SourceError(j)] = [j \in (1..n) \ {k} |-> err[j]]
  BY <1>1
<1>5. {k \in Pool(pool) : SourceError(k) <= ConformalQuantile([j \in Pool(pool) \ {k} |-> SourceError(j)], Level)}
        = {k \in 1..n : err[k] <= ConformalQuantile([j \in (1..n) \ {k} |-> err[j]], Level)}
  BY <1>1, <1>4
<1> HIDE DEF err, n
<1>6. Level \in 1..99
  BY EvaluationAssumption
<1>7. n * Level <= 100 * (n - 1) =>
        100 * Cardinality({k \in 1..n : err[k] <= ConformalQuantile([j \in (1..n) \ {k} |-> err[j]], Level)})
          >= Level * n
  BY <1>1, <1>3, <1>6, OrderStatistic
<1> QED
  BY <1>5, <1>7 DEF ConformalCovers, n

LEMMA CertificatesStand ==
  ASSUME EvaluationInvariant, [EvaluationNext]_evaluationVars, Covered,
         NEW k \in Pool(pool), Certificates[k] # "abstain"
  PROVE  Certificates'[k] = Certificates[k]
<1> DEFINE S == ToSet(selected)
<1>1. pool \in Evaluated /\ CoveredIn(pool, S) /\ pool' = pool
  BY StateFacts DEF EvaluationInvariant, EvaluationNext, Replay, evaluationVars
<1>2. S \subseteq S'
  <2>1. CASE UNCHANGED evaluationVars
    BY <2>1 DEF evaluationVars
  <2>2. CASE EvaluationNext
    <3>1. PICK j : selected' = Append(selected, j)
      BY <2>2 DEF EvaluationNext, Replay
    <3>2. \A i \in DOMAIN selected : i \in DOMAIN selected' /\ selected'[i] = selected[i]
      BY <3>1 DEF EvaluationInvariant
    <3> QED
      BY <3>2 DEF ToSet
  <2> QED
    BY <2>1, <2>2
<1>4. Certificates[k] = Verdict(pool, S, k)
  BY StateFacts
<1>5. Certificates'[k] = Verdict(pool', S', k)
  <2>1. \A j : Interval(j)' = IntervalOf(pool', S', j)
    BY DEF Interval, IntervalOf
  <2>2. IntervalPhases' = IntervalsOf(pool', S')
    BY <2>1 DEF IntervalPhases, IntervalsOf
  <2>3. Certificates'[k] = Certify(IntervalsOf(pool', S'), At(pool', k), Tolerance)
    BY <1>1, <2>2 DEF Certificates, At
  <2> QED
    BY <1>1, <2>3, VerdictIs
<1> QED
  BY <1>1, <1>2, <1>4, <1>5, VerdictLasts

\* Certificates say what the complete pool will say and are never withdrawn,
\* and a calibrated radius covers a new cluster as often as it promises.
THEOREM CertificatesKept == EvaluationSpec => CertificatesAreKept
<1>1. EvaluationSpec => []EvaluationInvariant
  BY EvaluationInvariantHolds
<1>2. EvaluationInvariant => CertificatesHold /\ ConformalCovers
  BY CertificatesAreTrue, RadiusCovers
<1>3. EvaluationInvariant /\ [EvaluationNext]_evaluationVars =>
        [Covered => \A k \in Pool(pool) :
           Certificates[k] # "abstain" => Certificates'[k] = Certificates[k]]_evaluationVars
  BY CertificatesStand
<1> QED
  BY <1>1, <1>2, <1>3, PTL DEF EvaluationSpec, CertificatesAreKept, CertificatesLast

\* With points [x, e]: the turn from the vector l to m to the vector p to q.
Turn(l, m, p, q) == (m.x - l.x) * (q.e - p.e) - (m.e - l.e) * (q.x - p.x)

Point == [x : Int, e : Int]

LEMMA TurnFacts ==
  ASSUME NEW l \in Point, NEW m \in Point, NEW n \in Point
  PROVE  /\ Cross(l, m, n) = Turn(l, m, m, n)
         /\ Cross(l, m, n) = Turn(l, m, l, n)
         /\ Cross(l, m, n) = Turn(l, n, m, n)
         /\ Cross(l, m, n) = Turn(n, m, l, m)
         /\ Cross(l, m, n) = Cross(m, n, l)
         /\ Cross(l, m, n) = 0 - Turn(l, n, l, m)
         /\ Cross(l, m, m) = 0 /\ Cross(l, m, l) = 0
         /\ Cross(l, m, n) \in Int
  BY DEF Point, Cross, Turn

\* What pushing a point leaves of a chain.
LEMMA PushedFacts ==
  ASSUME NEW n \in Nat \ {0}, NEW C \in [1..n -> Point], NEW p \in Point
  PROVE  \E m \in 1..n :
           /\ Pushed(C, p) \in [1..(m + 1) -> Point]
           /\ \A i \in 1..m : Pushed(C, p)[i] = C[i]
           /\ Pushed(C, p)[m + 1] = p
           /\ m = 1 \/ Cross(C[m - 1], C[m], p) > 0
           /\ \A k \in (m + 1)..n : Cross(C[k - 1], C[k], p) <= 0
<1> DEFINE keeps(k) == k = 1 \/ Cross(C[k - 1], C[k], p) > 0
           K == {k \in 1..n : keeps(k)}
           m == Max(K)
<1>1. AnySeq(C) /\ Len(C) = n /\ C # <<>>
  <2>1. AnySeq(C) /\ Len(C) = n
    BY IntervalIsSeq
  <2>2. C # <<>>
    BY <2>1, EmptyFacts
  <2> QED
    BY <2>1, <2>2
<1>2. K \in SUBSET Int /\ K # {} /\ IsFiniteSet(K)
  <2>1. 1 \in K /\ K \in SUBSET (1..n)
    OBVIOUS
  <2>2. IsFiniteSet(1..n) /\ 1..n \in SUBSET Int
    BY FS_Interval
  <2> HIDE DEF K
  <2>3. IsFiniteSet(K)
    BY <2>1, <2>2, FS_Subset
  <2> QED
    BY <2>1, <2>2, <2>3
<1>3. m \in K /\ \A k \in K : m >= k
  BY <1>2, GreatestOf
<1>4. Pushed(C, p) = Append(SubSeq(C, 1, m), p)
  BY <1>1 DEF Pushed
<1>5. m \in 1..n /\ keeps(m)
  BY <1>3
<1>6. \A k \in (m + 1)..n : Cross(C[k - 1], C[k], p) <= 0
  <2> TAKE k \in (m + 1)..n
  <2>1. k \in 1..n /\ ~(m >= k) /\ k # 1 /\ k - 1 \in 1..n
    BY <1>5
  <2>2. ~keeps(k)
    BY <1>3, <2>1
  <2>3. C[k - 1] \in Point /\ C[k] \in Point
    BY <2>1
  <2>4. Cross(C[k - 1], C[k], p) \in Int
    BY <2>3, TurnFacts
  <2> QED
    BY <2>1, <2>2, <2>4
<1> HIDE DEF m, K, keeps
<1>7. /\ AnySeq(SubSeq(C, 1, m)) /\ Len(SubSeq(C, 1, m)) = m
      /\ \A i \in 1..m : SubSeq(C, 1, m)[i] = C[i]
  <2>1. m \in 0..Len(C)
    BY <1>1, <1>5
  <2> QED
    BY <1>1, <2>1, PrefixFacts
<1>8. /\ AnySeq(Append(SubSeq(C, 1, m), p)) /\ Len(Append(SubSeq(C, 1, m), p)) = m + 1
      /\ \A i \in 1..m : Append(SubSeq(C, 1, m), p)[i] = C[i]
      /\ Append(SubSeq(C, 1, m), p)[m + 1] = p
  <2>1. /\ AnySeq(Append(SubSeq(C, 1, m), p))
        /\ Len(Append(SubSeq(C, 1, m), p)) = Len(SubSeq(C, 1, m)) + 1
        /\ \A i \in 1..Len(SubSeq(C, 1, m)) : Append(SubSeq(C, 1, m), p)[i] = SubSeq(C, 1, m)[i]
        /\ Append(SubSeq(C, 1, m), p)[Len(SubSeq(C, 1, m)) + 1] = p
    BY <1>7, AppendFacts
  <2> QED
    BY <1>7, <2>1
<1> DEFINE D == Append(SubSeq(C, 1, m), p)
<1>9. D \in [1..(m + 1) -> Point]
  <2>1. DOMAIN D = 1..(m + 1) /\ D = [i \in 1..(m + 1) |-> D[i]]
    <3>1. D \in Seq({D[i] : i \in 1..Len(D)})
      BY <1>8 DEF AnySeq
    <3>2. D \in [1..Len(D) -> {D[i] : i \in 1..Len(D)}]
      BY <3>1, LenProperties, ElementOfSeq
    <3>3. Len(D) = m + 1
      BY <1>8
    <3> HIDE DEF D
    <3> QED
      BY <3>2, <3>3
  <2>2. \A i \in 1..(m + 1) : i \in 1..m \/ i = m + 1
    BY <1>5
  <2>3. \A i \in 1..m : C[i] \in Point
    BY <1>5
  <2>4. (\A i \in 1..m : D[i] = C[i]) /\ D[m + 1] = p
    BY <1>8
  <2> HIDE DEF D
  <2>5. \A i \in 1..(m + 1) : D[i] \in Point
    BY <2>2, <2>3, <2>4
  <2> QED
    BY <2>1, <2>5
<1> QED
  BY <1>4, <1>5, <1>6, <1>8, <1>9 DEF keeps

LEMMA TurnsInOrder ==
  ASSUME NEW a \in Point, NEW b \in Point, NEW c \in Point, NEW d \in Point,
         NEW f \in Point, NEW g \in Point, a.x < b.x, c.x < d.x, f.x < g.x,
         Turn(a, b, c, d) >= 0, Turn(c, d, f, g) >= 0
  PROVE  /\ Turn(a, b, f, g) >= 0
         /\ Turn(a, b, c, d) > 0 \/ Turn(c, d, f, g) > 0 => Turn(a, b, f, g) > 0
<1>1. PICK ux \in Nat \ {0}, vx \in Nat \ {0}, wx \in Nat \ {0} :
        ux = b.x - a.x /\ vx = d.x - c.x /\ wx = g.x - f.x
  BY DEF Point
<1>2. PICK ue \in Int, ve \in Int, we \in Int :
        ue = b.e - a.e /\ ve = d.e - c.e /\ we = g.e - f.e
  BY DEF Point
<1>3. /\ Turn(a, b, c, d) = ux * ve - ue * vx /\ Turn(c, d, f, g) = vx * we - ve * wx
      /\ Turn(a, b, f, g) = ux * we - ue * wx
  BY <1>1, <1>2 DEF Turn
<1>4. /\ ux * ve \in Int /\ ue * vx \in Int /\ vx * we \in Int /\ ve * wx \in Int
      /\ ux * we \in Int /\ ue * wx \in Int
  OBVIOUS
<1>5. ue * vx <= ux * ve /\ ve * wx <= vx * we
  BY <1>3, <1>4
<1>6. ue * wx <= ux * we /\ (ue * vx < ux * ve \/ ve * wx < vx * we => ue * wx < ux * we)
  BY <1>5, SlopesInOrder
<1> QED
  BY <1>3, <1>4, <1>6

\* `C` with m points is the lower convex hull of the first k points.
Rises(points, n) ==
  points \in [1..n -> Point] /\ \A i, j \in 1..n : i < j => points[i].x < points[j].x

HullOfFirst(points, k, C, m) ==
  /\ C \in [1..m -> Point]
  /\ C[1] = points[1] /\ C[m] = points[k]
  /\ \A i \in 1..m : \E j \in 1..k : C[i] = points[j]
  /\ \A i, j \in 1..m : i < j => C[i].x < C[j].x
  /\ \A i \in 1..(m - 1), j \in 1..k : Cross(C[i], C[i + 1], points[j]) >= 0
  /\ \A i \in 2..(m - 1) : Cross(C[i - 1], C[i], C[i + 1]) > 0

LEMMA ChainStep ==
  ASSUME NEW n \in Nat, NEW points, Rises(points, n), NEW k \in 1..(n - 1),
         NEW m \in Nat \ {0}, NEW C, HullOfFirst(points, k, C, m)
  PROVE  \E M \in Nat \ {0} : HullOfFirst(points, k + 1, Pushed(C, points[k + 1]), M)
<1> DEFINE p == points[k + 1]
           D == Pushed(C, p)
<1>1. C \in [1..m -> Point] /\ p \in Point
  BY DEF HullOfFirst, Rises
<1>2. PICK M \in 1..m :
        /\ D \in [1..(M + 1) -> Point] /\ (\A i \in 1..M : D[i] = C[i]) /\ D[M + 1] = p
        /\ M = 1 \/ Cross(C[M - 1], C[M], p) > 0
        /\ \A h \in (M + 1)..m : Cross(C[h - 1], C[h], p) <= 0
  BY <1>1, PushedFacts
<1>3. C[1] = points[1] /\ C[m] = points[k]
  BY DEF HullOfFirst
<1>4. \A i \in 1..m : \E j \in 1..k : C[i] = points[j]
  BY DEF HullOfFirst
<1>5. \A i, j \in 1..m : i < j => C[i].x < C[j].x
  BY DEF HullOfFirst
<1>6. \A i \in 1..(m - 1), j \in 1..k : Cross(C[i], C[i + 1], points[j]) >= 0
  BY DEF HullOfFirst
<1>7. \A i \in 2..(m - 1) : Cross(C[i - 1], C[i], C[i + 1]) > 0
  BY DEF HullOfFirst
<1>8. \A j \in 1..k : points[j] \in Point /\ points[j].x < p.x
  BY DEF Rises
<1>9. \A i \in 1..m : C[i] \in Point /\ C[i].x < p.x
  BY <1>1, <1>4, <1>8
<1>10. points[1].x \in Int /\ \A j \in 1..k : j # 1 => points[1].x < points[j].x
  BY <1>8 DEF Rises, Point
<1>11. points[k].x \in Int /\ \A j \in 1..k : j # k => points[j].x < points[k].x
  BY <1>8 DEF Rises, Point
<1>12. \A i, j \in 1..k : points[i].x = points[j].x => points[i] = points[j]
  <2> TAKE i, j \in 1..k
  <2> HAVE points[i].x = points[j].x
  <2>1. points[i].x \in Int
    BY <1>8 DEF Point
  <2>2. ~(i < j) /\ ~(j < i)
    BY <2>1 DEF Rises
  <2> QED
    BY <2>2
<1> HIDE DEF p, D
\* The new point is above the segments that stay.
<1>13. \A i \in 1..(M - 1) : Cross(C[i], C[i + 1], p) > 0
  <2> DEFINE P == {d \in Nat : d <= M - 2 => Cross(C[(M - 1) - d], C[M - d], p) > 0}
  <2>1. 0 \in P
    <3>1. CASE M = 1
      BY <3>1
    <3>2. CASE M # 1
      <4>1. (M - 1) - 0 = M - 1 /\ M - 0 = M
        OBVIOUS
      <4> QED
        BY <1>2, <3>2, <4>1
    <3> QED
      BY <3>1, <3>2
  <2>2. ASSUME NEW d \in Nat, d \in P
        PROVE  d + 1 \in P
    <3> SUFFICES ASSUME d + 1 <= M - 2
                 PROVE  Cross(C[(M - 1) - (d + 1)], C[M - (d + 1)], p) > 0
      OBVIOUS
    <3>1. PICK i \in 1..m : i = M - (d + 2)
      <4>1. M - (d + 2) \in 1..m
        OBVIOUS
      <4> QED
        BY <4>1
    <3>2. /\ (M - 1) - (d + 1) = i /\ M - (d + 1) = i + 1 /\ (M - 1) - d = i + 1 /\ M - d = i + 2
          /\ i + 1 \in 1..m /\ i + 2 \in 1..m /\ i + 1 \in 2..(m - 1) /\ (i + 1) - 1 = i
          /\ (i + 1) + 1 = i + 2 /\ i < i + 1 /\ i + 1 < i + 2
      BY <3>1
    <3>3. Cross(C[i + 1], C[i + 2], p) > 0
      BY <2>2, <3>2
    <3>4. Cross(C[i], C[i + 1], C[i + 2]) > 0
      BY <1>7, <3>2
    <3>5. C[i] \in Point /\ C[i + 1] \in Point /\ C[i + 2] \in Point
      BY <1>9, <3>2
    <3>6. C[i].x < C[i + 1].x /\ C[i + 1].x < C[i + 2].x /\ C[i + 1].x < p.x
      BY <1>5, <1>9, <3>2
    <3>7. /\ Cross(C[i], C[i + 1], C[i + 2]) = Turn(C[i], C[i + 1], C[i + 1], C[i + 2])
          /\ Cross(C[i + 1], C[i + 2], p) = Turn(C[i + 1], C[i + 2], C[i + 1], p)
          /\ Cross(C[i], C[i + 1], p) = Turn(C[i], C[i + 1], C[i + 1], p)
          /\ Cross(C[i], C[i + 1], C[i + 2]) \in Int /\ Cross(C[i + 1], C[i + 2], p) \in Int
      BY <1>1, <3>5, TurnFacts
    <3>8. /\ Turn(C[i], C[i + 1], C[i + 1], C[i + 2]) >= 0 /\ Turn(C[i + 1], C[i + 2], C[i + 1], p) >= 0
          /\ Turn(C[i], C[i + 1], C[i + 1], C[i + 2]) > 0
      BY <3>3, <3>4, <3>7
    <3>9. Turn(C[i], C[i + 1], C[i + 1], p) > 0
      <4>1. PICK a \in Point, b \in Point, c \in Point : a = C[i] /\ b = C[i + 1] /\ c = C[i + 2]
        BY <3>5
      <4>2. a.x < b.x /\ b.x < c.x /\ b.x < p.x
        BY <3>6, <4>1
      <4>3. Turn(a, b, b, c) >= 0 /\ Turn(b, c, b, p) >= 0 /\ Turn(a, b, b, c) > 0
        BY <3>8, <4>1
      <4>4. Turn(a, b, b, p) > 0
        BY <1>1, <4>2, <4>3, TurnsInOrder
      <4> QED
        BY <4>1, <4>4
    <3> QED
      BY <3>2, <3>7, <3>9
  <2> HIDE DEF P
  <2>3. \A d \in Nat : d \in P
    BY <2>1, <2>2, NumberInduction
  <2> TAKE i \in 1..(M - 1)
  <2>4. PICK d \in Nat : d = (M - 1) - i
    OBVIOUS
  <2>5. d <= M - 2 /\ (M - 1) - d = i /\ M - d = i + 1
    BY <2>4
  <2> QED
    BY <2>3, <2>5 DEF P
\* The points are above the new segment.
<1>14. ASSUME NEW j \in 1..k
       PROVE  Cross(C[M], p, points[j]) >= 0
  <2> DEFINE q == points[j]
             c == C[M]
  <2>1. q \in Point /\ c \in Point /\ q.x < p.x /\ c.x < p.x
    BY <1>8, <1>9
  <2>2. CASE q.x < c.x
    <3>1. M # 1
      BY <1>3, <1>10, <2>1, <2>2 DEF Point
    <3>2. M - 1 \in 1..(m - 1) /\ (M - 1) + 1 = M /\ M - 1 \in 1..m /\ M - 1 < M
      BY <3>1
    <3>3. Cross(C[M - 1], c, q) >= 0
      BY <1>6, <3>2
    <3>4. C[M - 1] \in Point /\ C[M - 1].x < c.x
      BY <1>5, <1>9, <3>2
    <3> HIDE DEF q, c
    <3>5. Cross(C[M - 1], c, p) > 0
      BY <1>2, <3>1 DEF c
    <3>6. /\ Cross(C[M - 1], c, q) = Turn(q, c, C[M - 1], c)
          /\ Cross(C[M - 1], c, p) = Turn(C[M - 1], c, c, p)
          /\ Cross(q, c, p) = Turn(q, c, c, p) /\ Cross(q, c, p) = Cross(c, p, q)
          /\ Cross(C[M - 1], c, p) \in Int
      <4>1. PICK b \in Point : b = C[M - 1]
        BY <3>4
      <4>2. p \in Point /\ c \in Point /\ q \in Point
        BY <1>1, <2>1
      <4>3. Cross(b, c, q) = Turn(q, c, b, c)
        BY <4>2, TurnFacts
      <4>4. Cross(b, c, p) = Turn(b, c, c, p) /\ Cross(b, c, p) \in Int
        BY <4>2, TurnFacts
      <4>5. Cross(q, c, p) = Turn(q, c, c, p) /\ Cross(q, c, p) = Cross(c, p, q)
        BY <4>2, TurnFacts
      <4> QED
        BY <4>1, <4>3, <4>4, <4>5
    <3>7. Turn(q, c, C[M - 1], c) >= 0 /\ Turn(C[M - 1], c, c, p) >= 0
      BY <3>3, <3>5, <3>6
    <3>8. Turn(q, c, c, p) >= 0
      BY <1>1, <2>1, <2>2, <3>4, <3>7, TurnsInOrder
    <3> QED
      BY <3>6, <3>8 DEF q, c
  <2>3. CASE q.x = c.x
    <3>1. q = c
      BY <1>4, <1>12, <2>3
    <3>2. Cross(c, p, c) = 0
      BY <1>1, <2>1, TurnFacts
    <3> QED
      BY <3>1, <3>2
  <2>4. CASE c.x < q.x
    <3>1. M # m
      BY <1>3, <1>11, <2>1, <2>4 DEF Point
    <3>2. M + 1 \in (M + 1)..m /\ M \in 1..(m - 1) /\ M + 1 \in 1..m /\ (M + 1) - 1 = M /\ M < M + 1
      BY <3>1
    <3>3. Cross(c, C[M + 1], q) >= 0 /\ Cross(c, C[M + 1], p) <= 0
      BY <1>2, <1>6, <3>2
    <3>4. C[M + 1] \in Point /\ c.x < C[M + 1].x
      BY <1>5, <1>9, <3>2
    <3> HIDE DEF q, c
    <3>5. /\ Cross(c, C[M + 1], q) = Turn(c, C[M + 1], c, q)
          /\ Cross(c, C[M + 1], p) = 0 - Turn(c, p, c, C[M + 1])
          /\ Cross(c, p, q) = Turn(c, p, c, q)
          /\ Cross(c, C[M + 1], p) \in Int /\ Turn(c, p, c, C[M + 1]) \in Int
      <4>1. PICK b \in Point : b = C[M + 1]
        BY <3>4
      <4>2. p \in Point /\ c \in Point /\ q \in Point
        BY <1>1, <2>1
      <4>3. Cross(c, b, q) = Turn(c, b, c, q)
        BY <4>2, TurnFacts
      <4>4. Cross(c, b, p) = 0 - Turn(c, p, c, b) /\ Cross(c, b, p) \in Int
        BY <4>2, TurnFacts
      <4>5. Cross(c, p, q) = Turn(c, p, c, q)
        BY <4>2, TurnFacts
      <4>6. Cross(c, p, b) = Turn(c, p, c, b) /\ Cross(c, p, b) \in Int
        BY <4>2, TurnFacts
      <4> QED
        BY <4>1, <4>3, <4>4, <4>5, <4>6
    <3>6. Turn(c, C[M + 1], c, q) >= 0 /\ Turn(c, p, c, C[M + 1]) >= 0
      BY <3>3, <3>5
    <3>7. Turn(c, p, c, q) >= 0
      BY <1>1, <2>1, <2>4, <3>4, <3>6, TurnsInOrder
    <3> QED
      BY <3>5, <3>7 DEF q, c
  <2> QED
    BY <2>1, <2>2, <2>3, <2>4 DEF Point
<1>15. \A i \in 1..(M + 1) : i \in 1..M \/ i = M + 1
  OBVIOUS
<1>16. \A i \in 1..M : i \in 1..m
  OBVIOUS
<1>17. \A i \in 1..(M + 1) : \E j \in 1..(k + 1) : D[i] = points[j]
  <2>1. \A i \in 1..M : \E j \in 1..k : D[i] = points[j]
    BY <1>2, <1>4, <1>16
  <2>2. 1..k \subseteq 1..(k + 1) /\ k + 1 \in 1..(k + 1)
    OBVIOUS
  <2> QED
    BY <1>2, <1>15, <2>1, <2>2 DEF p
<1>18. \A i, j \in 1..(M + 1) : i < j => D[i].x < D[j].x
  <2> TAKE i, j \in 1..(M + 1)
  <2> HAVE i < j
  <2>1. i \in 1..M /\ i \in 1..m /\ D[i] = C[i]
    BY <1>2
  <2>2. CASE j = M + 1
    BY <1>2, <1>9, <2>1, <2>2
  <2>3. CASE j # M + 1
    <3>1. j \in 1..M /\ j \in 1..m
      BY <2>3
    <3> QED
      BY <1>2, <1>5, <2>1, <3>1
  <2> QED
    BY <2>2, <2>3
<1>19. \A i \in 1..M, j \in 1..(k + 1) : Cross(D[i], D[i + 1], points[j]) >= 0
  <2> TAKE i \in 1..M, j \in 1..(k + 1)
  <2>1. CASE i = M
    <3>1. D[i] = C[M] /\ D[i + 1] = p
      BY <1>2, <2>1
    <3>2. CASE j = k + 1
      <4>1. Cross(C[M], p, p) = 0
        BY <1>1, <1>9, TurnFacts
      <4> QED
        BY <3>1, <3>2, <4>1 DEF p
    <3>3. CASE j # k + 1
      <4>1. j \in 1..k
        BY <3>3
      <4> QED
        BY <1>14, <3>1, <4>1
    <3> QED
      BY <3>2, <3>3
  <2>2. CASE i # M
    <3>1. i \in 1..(M - 1) /\ i \in 1..(m - 1) /\ i + 1 \in 1..M /\ i \in 1..M
      BY <2>2
    <3>2. D[i] = C[i] /\ D[i + 1] = C[i + 1]
      BY <1>2, <3>1
    <3>3. CASE j = k + 1
      <4>1. Cross(C[i], C[i + 1], p) > 0
        BY <1>13, <3>1
      <4>2. Cross(C[i], C[i + 1], p) \in Int
        <5>1. C[i] \in Point /\ C[i + 1] \in Point
          BY <1>9, <1>16, <3>1
        <5> QED
          BY <1>1, <5>1, TurnFacts
      <4> QED
        BY <3>2, <3>3, <4>1, <4>2 DEF p
    <3>4. CASE j # k + 1
      <4>1. j \in 1..k
        BY <3>4
      <4> QED
        BY <1>6, <3>1, <3>2, <4>1
    <3> QED
      BY <3>3, <3>4
  <2> QED
    BY <2>1, <2>2
<1>20. \A i \in 2..M : Cross(D[i - 1], D[i], D[i + 1]) > 0
  <2> TAKE i \in 2..M
  <2>1. i - 1 \in 1..M /\ i \in 1..M
    OBVIOUS
  <2>2. D[i - 1] = C[i - 1] /\ D[i] = C[i]
    BY <1>2, <2>1
  <2>3. CASE i = M
    BY <1>2, <2>2, <2>3
  <2>4. CASE i # M
    <3>1. i + 1 \in 1..M /\ i \in 2..(m - 1)
      BY <2>4
    <3> QED
      BY <1>2, <1>7, <2>2, <3>1
  <2> QED
    BY <2>3, <2>4
<1>21. M + 1 \in Nat \ {0} /\ (M + 1) - 1 = M
  OBVIOUS
<1>22. D[1] = points[1] /\ D[M + 1] = points[k + 1]
  BY <1>2, <1>3 DEF p
<1>23. D \in [1..(M + 1) -> Point]
  BY <1>2
<1>24. HullOfFirst(points, k + 1, D, M + 1)
  BY <1>17, <1>18, <1>19, <1>20, <1>21, <1>22, <1>23, Zenon DEF HullOfFirst
<1> QED
  BY <1>21, <1>24 DEF D, p

\* The monotone chain of the code, which pops the points that do not turn left,
\* leaves the lower convex hull of any points in the order of their abscissas:
\* from the first to the last of them, with strict left turns, none below.
THEOREM ChainIsHull ==
  ASSUME NEW n \in Nat \ {0}, NEW points, Rises(points, n)
  PROVE  \E m \in Nat \ {0} : HullOfFirst(points, n, Chain(points), m)
<1> DEFINE Steps(f, k) == f = [i \in 0..k |-> IF i = 0 THEN <<>> ELSE Pushed(f[i - 1], points[i])]
           chain == CHOOSE f : Steps(f, n)
           P == {k \in Nat : \E f : Steps(f, k)}
           Q == {k \in Nat : k + 1 \in 1..n =>
                               \E m \in Nat \ {0} : HullOfFirst(points, k + 1, chain[k + 1], m)}
<1>1. Len(points) = n
  BY IntervalIsSeq DEF Rises
<1>2. Chain(points) = chain[n]
  BY <1>1 DEF Chain
<1>3. \A k \in Nat : k \in P
  <2>1. 0 \in P
    <3>1. Steps([i \in 0..0 |-> <<>>], 0)
      OBVIOUS
    <3> QED
      BY <3>1
  <2>2. ASSUME NEW k \in Nat, k \in P
        PROVE  k + 1 \in P
    <3>1. PICK f : Steps(f, k)
      BY <2>2
    <3> DEFINE h == [i \in 0..(k + 1) |-> IF i = k + 1 THEN Pushed(f[k], points[k + 1]) ELSE f[i]]
    <3>2. ASSUME NEW i \in 0..(k + 1)
          PROVE  h[i] = IF i = 0 THEN <<>> ELSE Pushed(h[i - 1], points[i])
      <4>1. CASE i = k + 1
        <5>1. i # 0 /\ i - 1 = k /\ k \in 0..(k + 1) /\ k # k + 1
          BY <4>1
        <5> QED
          BY <4>1, <5>1
      <4>2. CASE i # k + 1
        <5>1. i \in 0..k
          BY <4>2
        <5>2. f[i] = IF i = 0 THEN <<>> ELSE Pushed(f[i - 1], points[i])
          BY <3>1, <5>1
        <5>3. i # 0 => i - 1 \in 0..(k + 1) /\ i - 1 # k + 1
          BY <5>1
        <5> QED
          BY <4>2, <5>2, <5>3
      <4> QED
        BY <4>1, <4>2
    <3>3. h = [i \in 0..(k + 1) |-> h[i]]
      OBVIOUS
    <3> HIDE DEF h
    <3>4. Steps(h, k + 1)
      BY <3>2, <3>3
    <3> QED
      BY <3>4
  <2> HIDE DEF P
  <2> QED
    BY <2>1, <2>2, NumberInduction
<1>4. Steps(chain, n)
  <2>1. \E f : Steps(f, n)
    BY <1>3
  <2> HIDE DEF Steps
  <2> QED
    BY <2>1
<1> HIDE DEF chain
<1>5. chain[0] = <<>> /\ \A k \in 1..n : chain[k] = Pushed(chain[k - 1], points[k])
  <2>1. \A k \in 0..n : chain[k] = IF k = 0 THEN <<>> ELSE Pushed(chain[k - 1], points[k])
    BY <1>4
  <2>2. 0 \in 0..n /\ \A k \in 1..n : k \in 0..n /\ k # 0
    OBVIOUS
  <2> QED
    BY <2>1, <2>2
<1>6. 0 \in Q
  <2>1. chain[1] = Pushed(chain[0], points[1])
    BY <1>5
  <2>2. chain[1] = <<points[1]>>
    BY <1>5, <2>1 DEF Pushed
  <2>3. points[1] \in Point
    BY DEF Rises
  <2>4. <<points[1]>> \in [1..1 -> Point] /\ <<points[1]>>[1] = points[1]
    BY <2>3
  <2>5. \A i \in 1..1 : i = 1
    OBVIOUS
  <2>6. 1..(1 - 1) = {} /\ 2..(1 - 1) = {}
    OBVIOUS
  <2>7. HullOfFirst(points, 1, <<points[1]>>, 1)
    BY <2>4, <2>5, <2>6 DEF HullOfFirst
  <2>8. 0 + 1 = 1 /\ 1 \in Nat \ {0}
    OBVIOUS
  <2> QED
    BY <2>2, <2>7, <2>8
<1>7. ASSUME NEW k \in Nat, k \in Q
      PROVE  k + 1 \in Q
  <2> SUFFICES ASSUME (k + 1) + 1 \in 1..n
               PROVE  \E m \in Nat \ {0} : HullOfFirst(points, (k + 1) + 1, chain[(k + 1) + 1], m)
    OBVIOUS
  <2>1. k + 1 \in 1..n /\ k + 1 \in 1..(n - 1) /\ ((k + 1) + 1) - 1 = k + 1
    OBVIOUS
  <2>2. PICK m \in Nat \ {0} : HullOfFirst(points, k + 1, chain[k + 1], m)
    BY <1>7, <2>1
  <2>3. chain[(k + 1) + 1] = Pushed(chain[k + 1], points[(k + 1) + 1])
    BY <1>5, <2>1
  <2>4. \E M \in Nat \ {0} : HullOfFirst(points, (k + 1) + 1, Pushed(chain[k + 1], points[(k + 1) + 1]), M)
    BY <2>1, <2>2, ChainStep
  <2> QED
    BY <2>3, <2>4
<1> HIDE DEF Q
<1>8. \A k \in Nat : k \in Q
  BY <1>6, <1>7, NumberInduction
<1>9. n - 1 \in Nat /\ (n - 1) + 1 = n /\ n \in 1..n
  OBVIOUS
<1> QED
  BY <1>2, <1>8, <1>9 DEF Q

-------------------------------------------------------------------------------
\* The numbers of a finite set in ascending order.
LEMMA InOrderFacts ==
  ASSUME NEW S \in SUBSET Int, IsFiniteSet(S)
  PROVE  /\ Cardinality(S) \in Nat /\ InOrder(S) \in [1..Cardinality(S) -> S]
         /\ \A i, j \in 1..Cardinality(S) : i < j => InOrder(S)[i] < InOrder(S)[j]
         /\ \A x \in S : \E i \in 1..Cardinality(S) : InOrder(S)[i] = x
<1> DEFINE n == Cardinality(S)
           Below(x) == {y \in S : y < x}
           place == [x \in S |-> Cardinality(Below(x)) + 1]
           f == InOrder(S)
<1>1. \A T \in SUBSET S : IsFiniteSet(T) /\ Cardinality(T) \in Nat /\ Cardinality(T) <= n
  BY FS_Subset, FS_CardinalityType
<1>2. n \in Nat
  BY FS_CardinalityType
<1>3. ASSUME NEW T \in SUBSET S, NEW x \in S, x \notin T, NEW U \in SUBSET S, T \subseteq U, x \in U
      PROVE  Cardinality(T) + 1 <= Cardinality(U)
  <2>1. IsFiniteSet(T)
    BY <1>1
  <2>2. Cardinality(T \union {x}) = Cardinality(T) + 1
    BY <1>3, <2>1, FS_AddElement
  <2>3. T \union {x} \in SUBSET U /\ IsFiniteSet(U)
    BY <1>1, <1>3
  <2>4. Cardinality(T \union {x}) <= Cardinality(U)
    BY <2>3, FS_Subset
  <2> QED
    BY <2>2, <2>4
<1>4. ASSUME NEW x \in S, NEW y \in S, x < y
      PROVE  place[x] < place[y]
  <2>1. Below(x) \in SUBSET S /\ Below(y) \in SUBSET S /\ x \notin Below(x) /\ x \in Below(y)
    BY <1>4
  <2>2. Below(x) \subseteq Below(y)
    <3>1. ASSUME NEW z \in Below(x)
          PROVE  z \in Below(y)
      <4>1. z \in S /\ z < x /\ z \in Int /\ x \in Int /\ y \in Int
        OBVIOUS
      <4> QED
        BY <1>4, <4>1
    <3> QED
      BY <3>1
  <2>3. place[x] = Cardinality(Below(x)) + 1 /\ place[y] = Cardinality(Below(y)) + 1
    OBVIOUS
  <2> HIDE DEF Below, place
  <2>4. Cardinality(Below(x)) + 1 <= Cardinality(Below(y))
    BY <1>3, <2>1, <2>2
  <2>5. Cardinality(Below(x)) \in Nat /\ Cardinality(Below(y)) \in Nat
    BY <1>1, <2>1
  <2> QED
    BY <2>3, <2>4, <2>5
<1>5. ASSUME NEW x \in S
      PROVE  place[x] \in 1..n
  <2>1. Below(x) \in SUBSET S /\ x \notin Below(x) /\ S \in SUBSET S
    OBVIOUS
  <2>2. place[x] = Cardinality(Below(x)) + 1
    OBVIOUS
  <2> HIDE DEF Below, place
  <2>3. Cardinality(Below(x)) + 1 <= n /\ Cardinality(Below(x)) \in Nat
    BY <1>1, <1>3, <2>1
  <2> QED
    BY <1>2, <2>2, <2>3
<1>6. \A i \in 1..n : f[i] = CHOOSE x \in S : Cardinality(Below(x)) = i - 1
  BY DEF InOrder
<1>7. DOMAIN f = 1..n /\ f = [i \in 1..n |-> f[i]]
  <2>1. f = [i \in 1..n |-> CHOOSE x \in S : Cardinality(Below(x)) = i - 1]
    BY DEF InOrder
  <2> HIDE DEF f, n, Below
  <2> QED
    BY <2>1
<1>8. \A x \in S : Cardinality(Below(x)) \in Nat /\ place[x] = Cardinality(Below(x)) + 1
  <2> TAKE x \in S
  <2>1. Below(x) \in SUBSET S
    OBVIOUS
  <2>2. place[x] = Cardinality(Below(x)) + 1
    OBVIOUS
  <2> HIDE DEF Below, place
  <2> QED
    BY <1>1, <2>1, <2>2
<1>9. DOMAIN place = S
  OBVIOUS
<1> HIDE DEF Below, place, f, n
<1>10. place \in Injection(S, 1..n)
  <2>1. place \in [S -> 1..n]
    <3>1. place = [x \in S |-> place[x]]
      BY DEF place
    <3> QED
      BY <1>5, <3>1
  <2>2. \A x, y \in S : place[x] = place[y] => x = y
    <3> TAKE x, y \in S
    <3> HAVE place[x] = place[y]
    <3>1. x \in Int /\ y \in Int /\ place[x] \in Int /\ place[y] \in Int
      BY <1>5
    <3>2. ~(x < y) /\ ~(y < x)
      BY <1>4, <3>1
    <3> QED
      BY <3>1, <3>2
  <2> QED
    BY <1>9, <2>1, <2>2 DEF Injection, IsInjective
<1>11. place \in Surjection(S, 1..n)
  <2>1. IsFiniteSet(1..n) /\ Cardinality(1..n) = n
    BY <1>2, FS_Interval
  <2>2. Cardinality(S) = Cardinality(1..n)
    BY <2>1 DEF n
  <2> QED
    BY <1>10, <2>1, <2>2, FS_Injection
<1>12. \A i \in 1..n : \E x \in S : place[x] = i
  BY <1>11 DEF Surjection
<1>13. ASSUME NEW i \in 1..n
       PROVE  f[i] \in S /\ place[f[i]] = i
  <2>1. PICK x \in S : place[x] = i
    BY <1>12
  <2>2. i - 1 = Cardinality(Below(x))
    BY <1>8, <2>1
  <2>3. \E y \in S : Cardinality(Below(y)) = i - 1
    BY <2>2
  <2>4. f[i] \in S /\ Cardinality(Below(f[i])) = i - 1
    BY <1>6, <2>3
  <2>5. place[f[i]] = (i - 1) + 1
    BY <1>8, <2>4
  <2> QED
    BY <2>4, <2>5
<1>14. f \in [1..n -> S]
  BY <1>7, <1>13
<1>15. ASSUME NEW i \in 1..n, NEW j \in 1..n, i < j
       PROVE  f[i] < f[j]
  <2>1. f[i] \in S /\ f[j] \in S /\ place[f[i]] = i /\ place[f[j]] = j /\ f[i] \in Int /\ f[j] \in Int
    BY <1>13
  <2>2. f[i] # f[j] /\ ~(f[j] < f[i])
    BY <1>4, <1>15, <2>1
  <2> QED
    BY <2>1, <2>2
<1>16. ASSUME NEW x \in S
       PROVE  \E i \in 1..n : f[i] = x
  <2>1. place[x] \in 1..n
    BY <1>5
  <2>2. f[place[x]] \in S /\ place[f[place[x]]] = place[x]
    BY <1>13, <2>1
  <2>3. f[place[x]] = x
    BY <1>10, <2>2 DEF Injection, IsInjective
  <2> QED
    BY <2>1, <2>3
<1> QED
  BY <1>2, <1>14, <1>15, <1>16 DEF n, f

-------------------------------------------------------------------------------
(* Who stands for a composition, and the points of the chain.               *)

\* The templates and energies that the code makes: n entries with an element
\* of each kind among them.
IsTemplate(t, n) ==
  /\ t.xs \in [1..n -> Compositions] /\ Len(t.xs) = n /\ t.references \in Nat
  /\ Elements \subseteq {t.xs[i] : i \in 1..n}

LEMMA WinnerFacts ==
  ASSUME NEW n \in Nat, NEW t, IsTemplate(t, n), NEW energy \in [1..n -> Int],
         NEW x, \E i \in 1..n : t.xs[i] = x
  PROVE  LET w == Winner(t, energy, x) IN
         /\ w \in 1..n /\ t.xs[w] = x
         /\ \A j \in 1..n : t.xs[j] = x => energy[w] <= energy[j]
         /\ \A j \in 1..n : t.xs[j] = x /\ j # w =>
              energy[w] < energy[j] \/ (energy[w] = energy[j] /\ NameBefore(t, w, j))
<1> DEFINE D == Group(t, x)
           f == [i \in D |-> 0 - energy[i]]
           g == [i \in D |-> IF i > t.references THEN i ELSE i + n]
           Wins(i) == \A j \in D \ {i} : energy[i] < energy[j] \/ (energy[i] = energy[j] /\ NameBefore(t, i, j))
<1>1. D = {i \in 1..n : t.xs[i] = x} /\ t.references \in Nat
  BY DEF Group, Entries, IsTemplate
<1>2. IsFiniteSet(D) /\ D # {}
  <2>1. IsFiniteSet(1..n)
    BY FS_Interval
  <2>2. D \in SUBSET (1..n) /\ D # {}
    BY <1>1
  <2> HIDE DEF D
  <2> QED
    BY <2>1, <2>2, FS_Subset
<1>3. f \in [D -> Int] /\ g \in [D -> Int]
  <2>1. \A i \in D : i \in Int /\ energy[i] \in Int
    BY <1>1
  <2> HIDE DEF D
  <2> QED
    BY <1>1, <2>1
<1>4. PICK w \in D : \A j \in D : f[w] > f[j] \/ (f[w] = f[j] /\ g[w] <= g[j])
  <2> HIDE DEF D, f, g
  <2> QED
    BY <1>2, <1>3, BestExists
<1>5. Wins(w)
  <2> TAKE j \in D \ {w}
  <2>1. j \in 1..n /\ w \in 1..n /\ energy[j] \in Int /\ energy[w] \in Int /\ j # w
    BY <1>1
  <2>2. f[w] = 0 - energy[w] /\ f[j] = 0 - energy[j]
    OBVIOUS
  <2>3. g[w] = (IF w > t.references THEN w ELSE w + n) /\ g[j] = (IF j > t.references THEN j ELSE j + n)
    OBVIOUS
  <2>4. energy[w] < energy[j] \/ (energy[w] = energy[j] /\ g[w] <= g[j])
    BY <1>4, <2>1, <2>2
  <2>5. g[w] <= g[j] => NameBefore(t, w, j)
    BY <1>1, <2>1, <2>3 DEF NameBefore
  <2> QED
    BY <2>4, <2>5
<1>6. Winner(t, energy, x) \in D /\ Wins(Winner(t, energy, x))
  <2>1. Winner(t, energy, x) = CHOOSE i \in D : Wins(i)
    BY DEF Winner
  <2> HIDE DEF Wins, D
  <2> QED
    BY <1>5, <2>1
<1> DEFINE W == Winner(t, energy, x)
<1>7. W \in 1..n /\ t.xs[W] = x
  BY <1>1, <1>6
<1>8. \A j \in 1..n : t.xs[j] = x /\ j # W =>
        energy[W] < energy[j] \/ (energy[W] = energy[j] /\ NameBefore(t, W, j))
  BY <1>1, <1>6
<1>9. \A j \in 1..n : t.xs[j] = x => energy[W] <= energy[j]
  <2> HIDE DEF W
  <2>1. \A j \in 1..n : energy[j] \in Int
    OBVIOUS
  <2> QED
    BY <1>7, <1>8, <2>1
<1> QED
  BY <1>7, <1>8, <1>9

-------------------------------------------------------------------------------
(* The energy of a mixture of two phases, and lines below all phases.       *)

PhaseRecord == [x : Compositions, e : Int]

LEMMA PhaseIsPoint == Compositions \subseteq Int /\ \A p \in PhaseRecord : p \in Point
  BY GeometryAssumption DEF Compositions, PhaseRecord, Point

LEMMA MixtureOfTwo ==
  ASSUME NEW n \in Nat, NEW xs \in [1..n -> Compositions], NEW e \in [1..n -> Int],
         NEW i \in 1..n, NEW j \in 1..n, NEW x \in Compositions,
         xs[i] <= x, x <= xs[j], xs[i] < xs[j]
  PROVE  LET q == Scale \div (xs[j] - xs[i]) IN
         /\ q \in Nat /\ q * (xs[j] - xs[i]) = Scale
         /\ DecompositionEnergy(Between(xs, i, j, x), e) = q * ((xs[j] - x) * e[i] + (x - xs[i]) * e[j])
<1> DEFINE q == Scale \div (xs[j] - xs[i])
           u == xs[j] - x
           v == x - xs[i]
           d == Between(xs, i, j, x)
           D == DOMAIN d
           F == [k \in {i, j} |-> (IF k = i THEN q * u ELSE q * v) * e[k]]
<1>a. /\ xs[i] \in Compositions /\ xs[j] \in Compositions /\ e[i] \in Int /\ e[j] \in Int
      /\ xs[i] \in Int /\ xs[j] \in Int /\ x \in Int
  BY PhaseIsPoint
<1>1. xs[i] \in Compositions /\ xs[j] \in Compositions /\ i # j /\ e[i] \in Int /\ e[j] \in Int
  BY <1>a
<1>2. u \in Nat /\ v \in Nat
  BY <1>a
<1>3. q \in Nat /\ q * (xs[j] - xs[i]) = Scale
  <2>1. q * (xs[j] - xs[i]) = Scale
    BY <1>1, Shares
  <2>2. PICK w \in Nat \ {0} : w = xs[j] - xs[i]
    BY <1>a
  <2>3. Scale \in Nat /\ Scale \div w \in Nat
    BY GeometryAssumption
  <2> QED
    BY <2>1, <2>2, <2>3
<1>4. /\ D = {k \in {i, j} : Weight(xs, i, j, x, k) # 0}
      /\ \A k \in D : d[k] = Weight(xs, i, j, x, k)
  BY DEF Between
<1>5. Weight(xs, i, j, x, i) = q * u /\ Weight(xs, i, j, x, j) = q * v
  BY <1>1 DEF Weight
<1> HIDE DEF q, u, v, d, D
<1>6. q * u \in Int /\ q * v \in Int /\ (q * u) * e[i] \in Int /\ (q * v) * e[j] \in Int
  BY <1>1, <1>2, <1>3
<1>7. F \in [{i, j} -> Int] /\ F[i] = (q * u) * e[i] /\ F[j] = (q * v) * e[j]
  BY <1>1, <1>6
<1>8. D \subseteq {i, j} /\ (i \notin D => q * u = 0) /\ (j \notin D => q * v = 0)
  BY <1>4, <1>5
<1>9. DecompositionEnergy(d, e) = SumFunctionOnSet(F, D)
  <2>1. \A k \in D : d[k] * e[k] = F[k]
    BY <1>1, <1>4, <1>5
  <2>2. IsFiniteSet(D)
    <3>1. IsFiniteSet({i, j}) /\ D \in SUBSET {i, j}
      <4>1. {i, j} = {i} \union {j} /\ IsFiniteSet({i}) /\ IsFiniteSet({j})
        BY FS_Singleton
      <4>3. IsFiniteSet({i} \union {j})
        BY <4>1, FS_Union
      <4>2. IsFiniteSet({i, j})
        BY <4>1, <4>3
      <4> QED
        BY <1>8, <4>2
    <3> QED
      BY <3>1, FS_Subset
  <2>3. \A k \in D : [k2 \in D |-> d[k2] * e[k2]][k] = F[k]
    BY <2>1
  <2>4. DecompositionEnergy(d, e) = SumFunctionOnSet([k \in D |-> d[k] * e[k]], D)
    BY DEF DecompositionEnergy, D
  <2> HIDE DEF F
  <2> QED
    BY <2>2, <2>3, <2>4, SumSame
<1>10. /\ SumFunctionOnSet(F, {}) = 0 /\ SumFunctionOnSet(F, {i}) = F[i]
       /\ SumFunctionOnSet(F, {j}) = F[j] /\ SumFunctionOnSet(F, {i, j}) = F[i] + F[j]
  <2>1. i \in {i, j} /\ j \in {i, j} /\ j # i
    BY <1>1
  <2>2. /\ SumFunctionOnSet(F, {}) = 0 /\ SumFunctionOnSet(F, {i}) = F[i]
        /\ SumFunctionOnSet(F, {i, j}) = F[i] + F[j]
    <3> HIDE DEF F
    <3> QED
      BY <1>7, <2>1, SumOfTwo
  <2>3. SumFunctionOnSet(F, {j}) = F[j]
    <3> HIDE DEF F
    <3> QED
      BY <1>7, <2>1, SumOfTwo
  <2> QED
    BY <2>2, <2>3
<1>11. SumFunctionOnSet(F, D) = F[i] + F[j]
  <2> HIDE DEF F
  <2>1. F[i] \in Int /\ F[j] \in Int
    BY <1>6, <1>7
  <2>2. D = {i, j} \/ (D = {i} /\ j \notin D) \/ (D = {j} /\ i \notin D) \/ (D = {} /\ i \notin D /\ j \notin D)
    BY <1>1, <1>8
  <2>3. (i \notin D => F[i] = 0) /\ (j \notin D => F[j] = 0)
    BY <1>1, <1>7, <1>8
  <2>4. \A y \in Int : y + 0 = y /\ 0 + y = y
    OBVIOUS
  <2>5. CASE D = {i, j}
    BY <1>10, <2>5
  <2>6. CASE D = {i} /\ j \notin D
    BY <1>10, <2>1, <2>3, <2>4, <2>6
  <2>7. CASE D = {j} /\ i \notin D
    BY <1>10, <2>1, <2>3, <2>4, <2>7
  <2>8. CASE D = {} /\ i \notin D /\ j \notin D
    BY <1>10, <2>1, <2>3, <2>4, <2>8
  <2> QED
    BY <2>2, <2>5, <2>6, <2>7, <2>8
<1>12. (q * u) * e[i] + (q * v) * e[j] = q * (u * e[i] + v * e[j])
  BY <1>1, <1>2, <1>3
<1> QED
  BY <1>3, <1>7, <1>9, <1>11, <1>12 DEF q, u, v, d

\* A line through two points that lies below all phases lies below all mixtures.
\* Both sides are multiplied by the distance of the points.
LineAt(l, r, x) == (r.x - x) * l.e + (x - l.x) * r.e

LEMMA LineIsLinear ==
  ASSUME NEW l \in Point, NEW r \in Point, NEW p \in Point
  PROVE  /\ Cross(l, r, p) = (r.x - l.x) * p.e - LineAt(l, r, p.x)
         /\ LineAt(l, r, p.x) \in Int /\ (r.x - l.x) * p.e \in Int
         /\ \A a, b, x \in Int :
              (b - x) * LineAt(l, r, a) + (x - a) * LineAt(l, r, b) = (b - a) * LineAt(l, r, x)
<1>1. PICK lx \in Int, le \in Int, rx \in Int, re \in Int, px \in Int, pe \in Int :
        lx = l.x /\ le = l.e /\ rx = r.x /\ re = r.e /\ px = p.x /\ pe = p.e
  BY DEF Point
<1>2. (rx - lx) * (pe - le) - (re - le) * (px - lx) = (rx - lx) * pe - ((rx - px) * le + (px - lx) * re)
  OBVIOUS
<1>3. (rx - px) * le + (px - lx) * re \in Int /\ (rx - lx) * pe \in Int
  OBVIOUS
<1>4. \A a, b, x \in Int :
        (b - x) * ((rx - a) * le + (a - lx) * re) + (x - a) * ((rx - b) * le + (b - lx) * re)
          = (b - a) * ((rx - x) * le + (x - lx) * re)
  OBVIOUS
<1> QED
  BY <1>1, <1>2, <1>3, <1>4 DEF Cross, LineAt

LEMMA LineBelowMixtures ==
  ASSUME NEW n \in Nat, NEW xs \in [1..n -> Compositions], NEW e \in [1..n -> Int],
         NEW x \in Compositions, NEW l \in Point, NEW r \in Point, l.x < r.x,
         \A k \in 1..n : Cross(l, r, [x |-> xs[k], e |-> e[k]]) >= 0,
         NEW d \in Decompositions(xs, x)
  PROVE  /\ DecompositionEnergy(d, e) \in Int
         /\ Scale * LineAt(l, r, x) <= (r.x - l.x) * DecompositionEnergy(d, e)
<1>1. PICK p \in Pairs(xs, x) : d = Between(xs, p[1], p[2], x)
  BY DecompositionsAre
<1>2. PICK i \in 1..n, j \in 1..n : i = p[1] /\ j = p[2]
  BY DEF Pairs
<1>3. xs[i] <= x /\ x <= xs[j] /\ xs[i] < xs[j] /\ xs[i] \in Compositions /\ xs[j] \in Compositions
  BY <1>1, <1>2 DEF Pairs
<1>4. PICK a \in Int, b \in Int : a = xs[i] /\ b = xs[j]
  BY <1>3, PhaseIsPoint
<1>5. x \in Int /\ a <= x /\ x <= b /\ e[i] \in Int /\ e[j] \in Int
  BY <1>3, <1>4, PhaseIsPoint
<1>6. PICK q \in Nat : q = Scale \div (b - a)
  BY <1>3, <1>4, MixtureOfTwo
<1>c. LET s == Scale \div (xs[j] - xs[i]) IN
      /\ s \in Nat /\ s * (xs[j] - xs[i]) = Scale
      /\ DecompositionEnergy(Between(xs, i, j, x), e) = s * ((xs[j] - x) * e[i] + (x - xs[i]) * e[j])
  BY <1>3, MixtureOfTwo, Zenon
<1>7. /\ q * (b - a) = Scale
      /\ DecompositionEnergy(d, e) = q * ((b - x) * e[i] + (x - a) * e[j])
  BY <1>1, <1>2, <1>4, <1>6, <1>c
<1>8. PICK w \in Nat \ {0} : w = r.x - l.x
  BY DEF Point
<1>b. \A y \in Int : LineAt(l, r, y) \in Int
  <2> TAKE y \in Int
  <2>1. PICK lx \in Int, le \in Int, rx \in Int, re \in Int : lx = l.x /\ le = l.e /\ rx = r.x /\ re = r.e
    BY DEF Point
  <2>2. (rx - y) * le + (y - lx) * re \in Int
    OBVIOUS
  <2> QED
    BY <2>1, <2>2 DEF LineAt
<1>9. PICK ga \in Int, gb \in Int, g \in Int :
        ga = LineAt(l, r, a) /\ gb = LineAt(l, r, b) /\ g = LineAt(l, r, x)
  BY <1>5, <1>b
<1>10. ga <= w * e[i] /\ gb <= w * e[j] /\ w * e[i] \in Int /\ w * e[j] \in Int
  <2>1. [x |-> a, e |-> e[i]] \in Point /\ [x |-> b, e |-> e[j]] \in Point
    BY <1>5 DEF Point
  <2>4. \A p2 \in Point : Cross(l, r, p2) = w * p2.e - LineAt(l, r, p2.x)
    BY <1>8, LineIsLinear
  <2>2. /\ Cross(l, r, [x |-> a, e |-> e[i]]) = w * e[i] - ga /\ w * e[i] \in Int
        /\ Cross(l, r, [x |-> b, e |-> e[j]]) = w * e[j] - gb /\ w * e[j] \in Int
    BY <1>5, <1>9, <2>1, <2>4
  <2>3. Cross(l, r, [x |-> a, e |-> e[i]]) >= 0 /\ Cross(l, r, [x |-> b, e |-> e[j]]) >= 0
    BY <1>4
  <2>5. PICK p1 \in Int, q1 \in Int : p1 = w * e[i] /\ q1 = w * e[j]
    BY <2>2
  <2>6. p1 - ga >= 0 /\ q1 - gb >= 0
    BY <2>2, <2>3, <2>5
  <2>8. ga \in Int /\ gb \in Int /\ p1 \in Int /\ q1 \in Int
    BY <1>9, <2>5
  <2>7. ga <= p1 /\ gb <= q1
    BY <2>6, <2>8
  <2> QED
    BY <2>5, <2>7
<1>11. (b - x) * ga + (x - a) * gb = (b - a) * g
  <2>1. \A y, z, v \in Int : (z - v) * LineAt(l, r, y) + (v - y) * LineAt(l, r, z) = (z - y) * LineAt(l, r, v)
    BY LineIsLinear
  <2>2. a \in Int /\ b \in Int /\ x \in Int
    BY <1>5
  <2> QED
    BY <1>9, <2>1, <2>2
<1>12. PICK u \in Nat, v \in Nat : u = b - x /\ v = x - a
  BY <1>5
<1>13. u * ga <= u * (w * e[i]) /\ v * gb <= v * (w * e[j])
  BY <1>10, Multiplies
<1>14. PICK E \in Int : E = u * e[i] + v * e[j]
  BY <1>5
<1>15. w * E = u * (w * e[i]) + v * (w * e[j])
  BY <1>5, <1>14
<1>16. (b - a) * g <= w * E
  <2>0. PICK wi \in Int, wj \in Int : wi = w * e[i] /\ wj = w * e[j]
    BY <1>10
  <2>1. u * ga \in Int /\ v * gb \in Int /\ u * wi \in Int /\ v * wj \in Int
    OBVIOUS
  <2>2. u * ga + v * gb = (b - a) * g /\ u * ga <= u * wi /\ v * gb <= v * wj /\ w * E = u * wi + v * wj
    BY <1>11, <1>12, <1>13, <1>15, <2>0
  <2>3. \A A, B, P, Q \in Int : A <= P /\ B <= Q => A + B <= P + Q
    OBVIOUS
  <2>4. u * ga + v * gb <= u * wi + v * wj
    BY <2>1, <2>2, <2>3
  <2> QED
    BY <2>2, <2>4
<1>17. q * ((b - a) * g) <= q * (w * E)
  <2>1. (b - a) * g \in Int /\ w * E \in Int
    OBVIOUS
  <2> QED
    BY <1>16, <2>1, Multiplies
<1>18. q * ((b - a) * g) = Scale * g /\ q * (w * E) = w * (q * E)
  <2>1. q * ((b - a) * g) = (q * (b - a)) * g
    OBVIOUS
  <2>2. q * (w * E) = w * (q * E)
    OBVIOUS
  <2> QED
    BY <1>7, <2>1, <2>2
<1>19. DecompositionEnergy(d, e) = q * E
  BY <1>7, <1>12, <1>14
<1> QED
  BY <1>8, <1>9, <1>17, <1>18, <1>19

-------------------------------------------------------------------------------
(* The chain of a template.                                                 *)

\* The k-th entry as a phase.
EntryPhase(t, energy, k) == [x |-> t.xs[k], e |-> energy[k]]

\* `C` with m points is the lower hull of the n entries: from one element to the
\* other, made of winners, below every entry and with strict left turns.
HullOfTemplate(t, energy, n, C, m) ==
  /\ C \in [1..m -> PhaseRecord]
  /\ C[1].x = 0 /\ C[m].x = Grid
  /\ \A i, j \in 1..m : i < j => C[i].x < C[j].x
  /\ \A i \in 1..m : \E k \in 1..n :
       C[i] = EntryPhase(t, energy, k) /\ k = Winner(t, energy, C[i].x)
  /\ \A i \in 1..(m - 1), k \in 1..n : Cross(C[i], C[i + 1], EntryPhase(t, energy, k)) >= 0
  /\ \A i \in 2..(m - 1) : Cross(C[i - 1], C[i], C[i + 1]) > 0

\* A phase above another, or above the line of two others, is above what they are above.
LEMMA HigherIsAbove ==
  ASSUME NEW l \in Point, NEW r \in Point, NEW p \in Point, NEW q \in Point,
         l.x < r.x, p.x = q.x, p.e <= q.e, Cross(l, r, p) >= 0
  PROVE  Cross(l, r, q) >= 0
<1>1. PICK w \in Nat : w = r.x - l.x
  BY DEF Point
<1>2. p.e \in Int /\ q.e \in Int
  BY DEF Point
<1>3. w * p.e <= w * q.e /\ w * p.e \in Int /\ w * q.e \in Int
  BY <1>2, Multiplies
<1>4. PICK g \in Int : g = LineAt(l, r, p.x)
  BY LineIsLinear
<1>5. Cross(l, r, p) = w * p.e - g /\ Cross(l, r, q) = w * q.e - g
  BY <1>1, <1>4, LineIsLinear
<1> QED
  BY <1>3, <1>5

LEMMA BetweenElementsIsAbove ==
  ASSUME NEW l \in Point, NEW r \in Point, l.x < r.x, NEW x \in Compositions, NEW e \in Int,
         NEW e0 \in Int, NEW e1 \in Int,
         Cross(l, r, [x |-> 0, e |-> e0]) >= 0, Cross(l, r, [x |-> Grid, e |-> e1]) >= 0,
         Grid * e >= (Grid - x) * e0 + x * e1
  PROVE  Cross(l, r, [x |-> x, e |-> e]) >= 0
<1>1. PICK w \in Nat \ {0} : w = r.x - l.x
  BY DEF Point
<1>2. PICK G \in Nat \ {0} : G = Grid
  BY GeometryAssumption
<1>3. PICK a \in Nat, b \in Nat : a = G - x /\ b = x /\ a + b = G
  BY <1>2 DEF Compositions
<1>4. /\ [x |-> 0, e |-> e0] \in Point /\ [x |-> Grid, e |-> e1] \in Point /\ [x |-> x, e |-> e] \in Point
  BY <1>2, <1>3 DEF Point
<1>5. \A p \in Point : Cross(l, r, p) = w * p.e - LineAt(l, r, p.x) /\ LineAt(l, r, p.x) \in Int /\ w * p.e \in Int
  BY <1>1, LineIsLinear
<1>6. PICK g0 \in Int, g1 \in Int, g \in Int :
        g0 = LineAt(l, r, 0) /\ g1 = LineAt(l, r, G) /\ g = LineAt(l, r, x)
  BY <1>2, <1>4, <1>5
<1>7. (G - x) * g0 + (x - 0) * g1 = (G - 0) * g
  <2>1. \A y, z, v \in Int : (z - v) * LineAt(l, r, y) + (v - y) * LineAt(l, r, z) = (z - y) * LineAt(l, r, v)
    BY <1>4, LineIsLinear
  <2>2. 0 \in Int /\ G \in Int /\ x \in Int
    BY <1>3
  <2> QED
    BY <1>6, <2>1, <2>2
<1>8. w * e0 >= g0 /\ w * e1 >= g1 /\ w * e0 \in Int /\ w * e1 \in Int
  BY <1>2, <1>4, <1>5, <1>6
<1>9. a * g0 <= a * (w * e0) /\ b * g1 <= b * (w * e1)
  BY <1>8, Multiplies
<1>10. a * g0 + b * g1 = G * g
  BY <1>3, <1>7
<1>11. a * (w * e0) + b * (w * e1) = w * (a * e0 + b * e1)
  OBVIOUS
<1>12. w * (a * e0 + b * e1) <= w * (G * e)
  <2>1. a * e0 + b * e1 \in Int /\ G * e \in Int
    OBVIOUS
  <2>2. a * e0 + b * e1 <= G * e
    BY <1>2, <1>3
  <2> QED
    BY <2>1, <2>2, Multiplies
<1>13. G * g <= w * (G * e)
  <2>1. PICK A \in Int, B \in Int, P \in Int, Q \in Int :
          A = a * g0 /\ B = b * g1 /\ P = a * (w * e0) /\ Q = b * (w * e1)
    BY <1>8
  <2>2. A <= P /\ B <= Q /\ A + B = G * g /\ P + Q <= w * (G * e)
    BY <1>9, <1>10, <1>11, <1>12, <2>1
  <2>3. G * g \in Int /\ w * (G * e) \in Int
    OBVIOUS
  <2> QED
    BY <2>2, <2>3
<1>14. w * (G * e) = G * (w * e) /\ w * e \in Int
  OBVIOUS
<1>15. g <= w * e
  <2>1. G * g <= G * (w * e)
    BY <1>13, <1>14
  <2> QED
    BY <1>14, <2>1, Cancels
<1> QED
  BY <1>4, <1>5, <1>6, <1>15

LEMMA ElementsSum ==
  ASSUME NEW F \in [Elements -> Int]
  PROVE  SumFunctionOnSet(F, Elements) = F[0] + F[Grid]
<1>1. 0 \in Elements /\ Grid \in Elements /\ 0 # Grid /\ Elements = {0, Grid}
  BY GeometryAssumption DEF Elements
<1>2. PICK S : S = {0, Grid}
  OBVIOUS
<1>3. SumFunctionOnSet(F, S) = F[0] + F[Grid]
  BY <1>1, <1>2, SumOfPair
<1> QED
  BY <1>1, <1>2, <1>3

LEMMA ChainOfTemplate ==
  ASSUME NEW n \in Nat, NEW t, IsTemplate(t, n), NEW energy \in [1..n -> Int]
  PROVE  \E m \in Nat \ {0, 1} : HullOfTemplate(t, energy, n, LowerChain(t, energy), m)
<1> DEFINE A == ActiveCompositions(t, energy)
           N == Cardinality(A)
           ordered == InOrder(A)
           points == [k \in 1..N |-> EntryPhase(t, energy, Winner(t, energy, ordered[k]))]
           Wins(x) == Winner(t, energy, x)
<1>1. /\ t.xs \in [1..n -> Compositions] /\ Len(t.xs) = n
      /\ \A el \in Elements : \E i \in 1..n : t.xs[i] = el
  BY DEF IsTemplate
<1>2. ToSet(t.xs) = {t.xs[i] : i \in 1..n}
  BY <1>1 DEF ToSet
<1>3. A \in SUBSET {t.xs[i] : i \in 1..n} /\ Elements \subseteq A
  <2>1. Elements \subseteq {t.xs[i] : i \in 1..n}
    BY <1>1
  <2> QED
    BY <1>2, <2>1 DEF ActiveCompositions
<1>4. A \in SUBSET Int /\ A \subseteq Compositions /\ IsFiniteSet(A)
  <2>1. A \subseteq Compositions
    BY <1>1, <1>3
  <2>2. IsFiniteSet(Compositions)
    BY GeometryAssumption, FS_Interval DEF Compositions
  <2> HIDE DEF A
  <2> QED
    BY <2>1, <2>2, FS_Subset, PhaseIsPoint
<1> HIDE DEF A
<1>5. /\ N \in Nat /\ ordered \in [1..N -> A]
      /\ \A i, j \in 1..N : i < j => ordered[i] < ordered[j]
      /\ \A x \in A : \E i \in 1..N : ordered[i] = x
  BY <1>4, InOrderFacts
<1>6. ASSUME NEW x \in {t.xs[i] : i \in 1..n}
      PROVE  /\ Wins(x) \in 1..n /\ t.xs[Wins(x)] = x
             /\ \A j \in 1..n : t.xs[j] = x => energy[Wins(x)] <= energy[j]
  <2>1. \E i \in 1..n : t.xs[i] = x
    BY <1>6
  <2> QED
    BY <2>1, WinnerFacts
<1>7. LowerChain(t, energy) = Chain(points)
  <2>1. DOMAIN ordered = 1..N
    BY <1>5
  <2>2. points = [k \in DOMAIN ordered |-> [x |-> ordered[k], e |-> energy[Wins(ordered[k])]]]
    BY <1>3, <1>5, <1>6, <2>1 DEF EntryPhase
  <2> QED
    BY <2>2 DEF LowerChain, A
<1> HIDE DEF ordered
<1>8. ASSUME NEW k \in 1..N
      PROVE  /\ ordered[k] \in A /\ ordered[k] \in {t.xs[i] : i \in 1..n}
             /\ points[k] = EntryPhase(t, energy, Wins(ordered[k]))
             /\ points[k].x = ordered[k] /\ points[k] \in PhaseRecord
  BY <1>1, <1>3, <1>5, <1>6 DEF EntryPhase, PhaseRecord
<1>9. Rises(points, N)
  <2>1. points \in [1..N -> Point]
    <3>1. \A k \in 1..N : points[k] \in Point
      BY <1>8, PhaseIsPoint
    <3>2. points = [k \in 1..N |-> points[k]]
      OBVIOUS
    <3> HIDE DEF points
    <3> QED
      BY <3>1, <3>2
  <2> HIDE DEF points
  <2> QED
    BY <1>5, <1>8, <2>1 DEF Rises
<1>10. 0 \in A /\ Grid \in A /\ 0 < Grid
  BY <1>3, GeometryAssumption DEF Elements
<1>11. PICK lo \in 1..N, hi \in 1..N : ordered[lo] = 0 /\ ordered[hi] = Grid
  BY <1>5, <1>10
<1>12. N \in Nat \ {0} /\ 1 \in 1..N /\ N \in 1..N
  BY <1>5, <1>11
<1>13. ordered[1] = 0 /\ ordered[N] = Grid
  <2>1. ordered[1] \in 0..Grid /\ ordered[N] \in 0..Grid
    BY <1>4, <1>8, <1>12 DEF Compositions
  <2>2. Grid \in Nat
    BY GeometryAssumption
  <2>3. ~(1 < lo)
    BY <1>5, <1>11, <1>12, <2>1, <2>2
  <2>4. ~(hi < N)
    BY <1>5, <1>11, <1>12, <2>1, <2>2
  <2> QED
    BY <1>5, <1>11, <2>3, <2>4
<1> DEFINE C == LowerChain(t, energy)
<1> HIDE DEF points
<1>14. PICK m \in Nat \ {0} : HullOfFirst(points, N, C, m)
  BY <1>7, <1>9, <1>12, ChainIsHull
<1>15. /\ C \in [1..m -> Point]
       /\ C[1] = points[1] /\ C[m] = points[N]
       /\ \A i \in 1..m : \E j \in 1..N : C[i] = points[j]
       /\ \A i, j \in 1..m : i < j => C[i].x < C[j].x
       /\ \A i \in 1..(m - 1), j \in 1..N : Cross(C[i], C[i + 1], points[j]) >= 0
       /\ \A i \in 2..(m - 1) : Cross(C[i - 1], C[i], C[i + 1]) > 0
  BY <1>14 DEF HullOfFirst
<1> HIDE DEF C
<1>16. C[1].x = 0 /\ C[m].x = Grid /\ m # 1
  <2>1. points[1].x = 0 /\ points[N].x = Grid
    BY <1>8, <1>12, <1>13
  <2>2. C[1].x = 0 /\ C[m].x = Grid
    BY <1>15, <2>1
  <2>3. m # 1
    BY <1>10, <2>2, GeometryAssumption
  <2> QED
    BY <2>2, <2>3
<1>17. C \in [1..m -> PhaseRecord]
  BY <1>8, <1>15
<1>18. \A i \in 1..m : \E k \in 1..n :
         C[i] = EntryPhase(t, energy, k) /\ k = Winner(t, energy, C[i].x)
  <2> TAKE i \in 1..m
  <2>1. PICK j \in 1..N : C[i] = points[j]
    BY <1>15
  <2>2. C[i] = EntryPhase(t, energy, Wins(ordered[j])) /\ C[i].x = ordered[j]
    BY <1>8, <2>1
  <2>3. Wins(ordered[j]) \in 1..n
    BY <1>6, <1>8
  <2> QED
    BY <2>2, <2>3
<1>19. ASSUME NEW i \in 1..(m - 1), NEW k \in 1..n
       PROVE  Cross(C[i], C[i + 1], EntryPhase(t, energy, k)) >= 0
  <2>1. PICK l \in Point, r \in Point : l = C[i] /\ r = C[i + 1] /\ l.x < r.x
    <3>1. i \in 1..m /\ i + 1 \in 1..m /\ i < i + 1
      OBVIOUS
    <3> QED
      BY <1>15, <3>1
  <2>2. \A j \in 1..N : Cross(l, r, points[j]) >= 0
    BY <1>15, <2>1
  <2>3. PICK x \in Compositions : x = t.xs[k] /\ x \in {t.xs[h] : h \in 1..n}
    BY <1>1
  <2>4. PICK w \in 1..n : w = Wins(x) /\ t.xs[w] = x /\ energy[w] <= energy[k]
    BY <1>6, <2>3
  <2>5. PICK p \in Point : p = [x |-> x, e |-> energy[w]]
    BY PhaseIsPoint DEF Point
  <2>6. Cross(l, r, p) >= 0
    <3>1. CASE x \in A
      <4>1. PICK j \in 1..N : ordered[j] = x
        BY <1>5, <3>1
      <4>2. points[j] = p
        BY <1>8, <2>4, <2>5, <4>1 DEF EntryPhase
      <4> QED
        BY <2>2, <4>2
    <3>2. CASE x \notin A
      <4>1. PICK w0 \in 1..n, w1 \in 1..n : w0 = Wins(0) /\ w1 = Wins(Grid)
        <5>1. 0 \in {t.xs[h] : h \in 1..n} /\ Grid \in {t.xs[h] : h \in 1..n}
          BY <1>3, <1>10
        <5> QED
          BY <1>6, <5>1
      <4>2. points[lo] = [x |-> 0, e |-> energy[w0]] /\ points[hi] = [x |-> Grid, e |-> energy[w1]]
        <5>1. points[lo] = EntryPhase(t, energy, w0) /\ points[lo].x = 0
          BY <1>8, <1>11, <4>1
        <5>2. points[hi] = EntryPhase(t, energy, w1) /\ points[hi].x = Grid
          BY <1>8, <1>11, <4>1
        <5> QED
          BY <5>1, <5>2 DEF EntryPhase
      <4>3. Cross(l, r, [x |-> 0, e |-> energy[w0]]) >= 0 /\ Cross(l, r, [x |-> Grid, e |-> energy[w1]]) >= 0
        BY <2>2, <4>2
      <4>4. ~(Formation(t, energy, x) < 0)
        BY <1>2, <2>3, <3>2 DEF ActiveCompositions, A
      <4> DEFINE F == [el \in Elements |-> Amount(el, x) * energy[Wins(el)]]
      <4>5. F \in [Elements -> Int] /\ F[0] = (Grid - x) * energy[w0] /\ F[Grid] = x * energy[w1]
        <5>1. Grid \in Int /\ 0 # Grid /\ x \in Int /\ energy[w0] \in Int /\ energy[w1] \in Int
          BY GeometryAssumption, PhaseIsPoint
        <5>2. (Grid - x) * energy[w0] \in Int /\ x * energy[w1] \in Int
          BY <5>1
        <5>3. Elements = {0, Grid}
          BY DEF Elements
        <5>4. F[0] = (Grid - x) * energy[w0] /\ F[Grid] = x * energy[w1]
          BY <4>1, <5>1, <5>3 DEF Amount
        <5>5. \A el \in Elements : F[el] \in Int
          BY <5>2, <5>3, <5>4
        <5> QED
          BY <5>4, <5>5
      <4>6. Formation(t, energy, x) = Grid * energy[w] - (F[0] + F[Grid])
        <5>1. SumFunctionOnSet(F, Elements) = F[0] + F[Grid]
          <6> HIDE DEF F
          <6> QED
            BY <4>5, ElementsSum
        <5> QED
          BY <2>4, <5>1 DEF Formation
      <4> HIDE DEF F
      <4>7. Grid * energy[w] >= (Grid - x) * energy[w0] + x * energy[w1]
        <5>a. Grid \in Int /\ x \in Int /\ energy[w] \in Int /\ energy[w0] \in Int /\ energy[w1] \in Int
          BY GeometryAssumption, PhaseIsPoint
        <5>b. PICK a \in Int : a = Grid * energy[w]
          BY <5>a
        <5>c. PICK b \in Int : b = (Grid - x) * energy[w0]
          BY <5>a
        <5>d. PICK c \in Int : c = x * energy[w1]
          BY <5>a
        <5>1. a = Grid * energy[w] /\ b = (Grid - x) * energy[w0] /\ c = x * energy[w1]
          BY <5>b, <5>c, <5>d
        <5> QED
          BY <4>4, <4>5, <4>6, <5>1
      <4>8. energy[w] \in Int /\ energy[w0] \in Int /\ energy[w1] \in Int
        OBVIOUS
      <4> QED
        BY <2>1, <2>5, <4>3, <4>7, <4>8, BetweenElementsIsAbove
    <3> QED
      BY <3>1, <3>2
  <2>7. PICK q \in Point : q = EntryPhase(t, energy, k) /\ q.x = p.x /\ p.e <= q.e
    <3>1. x \in Int /\ energy[k] \in Int /\ energy[w] \in Int
      BY PhaseIsPoint
    <3>2. EntryPhase(t, energy, k) = [x |-> x, e |-> energy[k]]
      BY <2>3 DEF EntryPhase
    <3>3. [x |-> x, e |-> energy[k]] \in Point
      BY <3>1 DEF Point
    <3> QED
      BY <2>4, <2>5, <3>2, <3>3
  <2> QED
    BY <2>1, <2>6, <2>7, HigherIsAbove
<1> QED
  BY <1>15, <1>16, <1>17, <1>18, <1>19 DEF C, HullOfTemplate

-------------------------------------------------------------------------------
(* What the hull is worth at a composition.                                 *)

LEMMA ChordFacts ==
  ASSUME NEW l \in PhaseRecord, NEW r \in PhaseRecord, NEW x \in Compositions,
         l.x <= x, x <= r.x, l.x < r.x
  PROVE  /\ Chord(l, r, x) = (Scale \div (r.x - l.x)) * LineAt(l, r, x) /\ Chord(l, r, x) \in Int
         /\ (r.x - l.x) * Chord(l, r, x) = Scale * LineAt(l, r, x)
         /\ x = l.x => Chord(l, r, x) = Scale * l.e
         /\ x = r.x => Chord(l, r, x) = Scale * r.e
<1>1. /\ l.x \in Compositions /\ r.x \in Compositions /\ l.e \in Int /\ r.e \in Int /\ l # r
      /\ l.x \in Int /\ r.x \in Int /\ x \in Int
  <2>1. /\ l.x \in Compositions /\ r.x \in Compositions /\ l.e \in Int /\ r.e \in Int
    BY DEF PhaseRecord
  <2>2. l.x \in Int /\ r.x \in Int /\ x \in Int
    BY <2>1, PhaseIsPoint
  <2> QED
    BY <2>1, <2>2
<1>2. PICK w \in Nat \ {0} : w = r.x - l.x
  BY <1>1
<1>3. PICK q \in Int : q = Scale \div w
  BY GeometryAssumption
<1>4. q * w = Scale
  BY <1>1, <1>2, <1>3, Shares
<1>5. Chord(l, r, x) = q * LineAt(l, r, x)
  BY <1>1, <1>2, <1>3 DEF Chord, LineAt
<1>6. PICK g \in Int : g = LineAt(l, r, x)
  BY <1>1 DEF LineAt
<1>7. q * g \in Int /\ w * (q * g) = (q * w) * g
  OBVIOUS
<1>8. x = l.x => g = w * l.e
  BY <1>1, <1>2, <1>6 DEF LineAt
<1>9. x = r.x => g = w * r.e
  BY <1>1, <1>2, <1>6 DEF LineAt
<1>10. q * (w * l.e) = (q * w) * l.e /\ q * (w * r.e) = (q * w) * r.e
  BY <1>1
<1> QED
  BY <1>2, <1>3, <1>4, <1>5, <1>6, <1>7, <1>8, <1>9, <1>10

LEMMA OnChainIs ==
  ASSUME NEW m \in Nat \ {0, 1}, NEW C \in [1..m -> PhaseRecord], C[1].x = 0, C[m].x = Grid,
         \A i, j \in 1..m : i < j => C[i].x < C[j].x, NEW x \in Compositions
  PROVE  \E i \in 1..(m - 1) :
           /\ C[i].x <= x /\ x <= C[i + 1].x /\ C[i].x < C[i + 1].x
           /\ OnChain(C, x) = Chord(C[i], C[i + 1], x)
           /\ (\E p \in ToSet(C) : p.x = x) => C[i].x = x \/ C[i + 1].x = x
<1> DEFINE Below == {i \in 1..m : C[i].x <= x}
           NextLeft(l) == l.x <= x /\ \A p \in ToSet(C) : p.x <= x => p.x <= l.x
           NextRight(r) == r.x >= x /\ \A p \in ToSet(C) : p.x >= x => p.x >= r.x
<1>1. ToSet(C) = {C[i] : i \in 1..m}
  BY DEF ToSet
<1>2. \A i \in 1..m : C[i].x \in Compositions /\ C[i].x \in Int
  BY PhaseIsPoint DEF PhaseRecord
<1>3. 1 \in Below /\ Below \in SUBSET Int /\ IsFiniteSet(Below)
  <2>1. 1 \in Below
    BY DEF Compositions
  <2>2. IsFiniteSet(1..m) /\ Below \in SUBSET (1..m)
    BY FS_Interval
  <2>3. 1..m \subseteq Int
    OBVIOUS
  <2> HIDE DEF Below
  <2>4. IsFiniteSet(Below)
    BY <2>2, FS_Subset
  <2> QED
    BY <2>1, <2>2, <2>3, <2>4
<1>4. PICK g \in 1..m : C[g].x <= x /\ \A i \in 1..m : C[i].x <= x => i <= g
  <2>1. Max(Below) \in Below /\ \A i \in Below : Max(Below) >= i
    <3> HIDE DEF Below
    <3> QED
      BY <1>3, GreatestOf
  <2> QED
    BY <2>1
<1>5. \A i, j \in 1..m : C[i].x = C[j].x => i = j
  BY <1>2
<1>6. \A i, j \in 1..m : i <= j => C[i].x <= C[j].x
  BY <1>2
<1>7. OnChain(C, x) = Chord(CHOOSE l \in ToSet(C) : NextLeft(l), CHOOSE r \in ToSet(C) : NextRight(r), x)
  BY DEF OnChain
<1>8. \A i \in 1..m : NextLeft(C[i]) => i = g
  <2> TAKE i \in 1..m
  <2> HAVE NextLeft(C[i])
  <2>1. C[i].x <= x /\ C[g].x <= C[i].x
    BY <1>1, <1>4
  <2>2. i <= g
    BY <1>4, <2>1
  <2> QED
    BY <1>2, <1>5, <1>6, <2>1, <2>2
<1>9. NextLeft(C[g])
  <2>1. ASSUME NEW p \in ToSet(C), p.x <= x
        PROVE  p.x <= C[g].x
    <3>1. PICK i \in 1..m : p = C[i]
      BY <1>1
    <3> QED
      BY <1>4, <1>6, <2>1, <3>1
  <2> QED
    BY <1>4, <2>1
<1>10. (CHOOSE l \in ToSet(C) : NextLeft(l)) = C[g]
  <2>1. C[g] \in ToSet(C)
    BY <1>1
  <2>2. \A p \in ToSet(C) : NextLeft(p) => p = C[g]
    BY <1>1, <1>8
  <2> HIDE DEF NextLeft
  <2> QED
    BY <1>9, <2>1, <2>2
<1>11. \A h \in 1..m : NextRight(C[h]) => (CHOOSE r \in ToSet(C) : NextRight(r)) = C[h]
  <2> TAKE h \in 1..m
  <2> HAVE NextRight(C[h])
  <2>1. C[h] \in ToSet(C)
    BY <1>1
  <2>2. ASSUME NEW p \in ToSet(C), NextRight(p)
        PROVE  p = C[h]
    <3>1. PICK i \in 1..m : p = C[i]
      BY <1>1
    <3>2. C[i].x >= C[h].x /\ C[h].x >= C[i].x
      BY <2>1, <2>2, <3>1
    <3> QED
      BY <1>2, <1>5, <3>1, <3>2
  <2>3. NextRight(CHOOSE r \in ToSet(C) : NextRight(r)) /\ (CHOOSE r \in ToSet(C) : NextRight(r)) \in ToSet(C)
    <3> HIDE DEF NextRight
    <3> QED
      BY <2>1
  <2> HIDE DEF NextRight
  <2> QED
    BY <2>2, <2>3
<1>12. CASE C[g].x = x
  <2>1. NextRight(C[g])
    BY <1>1, <1>2, <1>12
  <2>2. OnChain(C, x) = Chord(C[g], C[g], x)
    BY <1>7, <1>10, <1>11, <2>1
  <2>3. Chord(C[g], C[g], x) = Scale * C[g].e
    BY DEF Chord
  <2>4. PICK i \in 1..(m - 1) : i = g \/ i + 1 = g
    <3>1. CASE g = m
      <4>1. m - 1 \in 1..(m - 1) /\ (m - 1) + 1 = g
        BY <3>1
      <4> QED
        BY <4>1
    <3>2. CASE g # m
      <4>1. g \in 1..(m - 1)
        BY <3>2
      <4> QED
        BY <4>1
    <3> QED
      BY <3>1, <3>2
  <2>5. i \in 1..m /\ i + 1 \in 1..m /\ i < i + 1 /\ i <= i + 1
    OBVIOUS
  <2>6. C[i].x < C[i + 1].x /\ C[i].x \in Int /\ C[i + 1].x \in Int
    BY <1>2, <2>5
  <2>7. C[i].x <= x /\ x <= C[i + 1].x
    BY <1>12, <2>4, <2>6
  <2>8. Chord(C[i], C[i + 1], x) = Scale * C[g].e
    <3>1. C[i] \in PhaseRecord /\ C[i + 1] \in PhaseRecord
      BY <2>5
    <3> QED
      BY <1>12, <2>4, <2>6, <2>7, <3>1, ChordFacts
  <2> QED
    BY <1>12, <2>2, <2>3, <2>4, <2>6, <2>7, <2>8
<1>13. CASE C[g].x # x
  <2>1. C[g].x < x /\ x <= Grid
    BY <1>2, <1>4, <1>13, PhaseIsPoint DEF Compositions
  <2>2. g # m
    BY <1>2, <2>1, PhaseIsPoint
  <2>3. g \in 1..(m - 1) /\ g + 1 \in 1..m /\ g < g + 1 /\ ~(g + 1 <= g)
    BY <2>2
  <2>4. C[g + 1].x > x /\ C[g + 1].x \in Int /\ C[g].x \in Int
    BY <1>2, <1>4, <2>3, PhaseIsPoint
  <2>5. \A p \in ToSet(C) : p.x >= x => p.x >= C[g + 1].x
    <3> TAKE p \in ToSet(C)
    <3> HAVE p.x >= x
    <3>1. PICK i \in 1..m : p = C[i]
      BY <1>1
    <3>2. ~(i <= g)
      BY <1>2, <1>6, <2>1, <3>1, PhaseIsPoint
    <3>3. g + 1 <= i
      BY <3>2
    <3> QED
      BY <1>6, <2>3, <3>1, <3>3
  <2>6. NextRight(C[g + 1])
    BY <2>4, <2>5, PhaseIsPoint
  <2>7. OnChain(C, x) = Chord(C[g], C[g + 1], x)
    BY <1>7, <1>10, <1>11, <2>3, <2>6
  <2>8. ~ \E p \in ToSet(C) : p.x = x
    <3>1. ASSUME NEW p \in ToSet(C), p.x = x
          PROVE  FALSE
      <4>1. p.x >= x
        BY <3>1, PhaseIsPoint
      <4> QED
        BY <2>4, <2>5, <3>1, <4>1, PhaseIsPoint
    <3> QED
      BY <3>1
  <2>9. C[g].x <= x /\ x <= C[g + 1].x /\ C[g].x < C[g + 1].x
    BY <2>1, <2>4, PhaseIsPoint
  <2> QED
    BY <2>3, <2>7, <2>8, <2>9
<1> QED
  BY <1>12, <1>13

\* The k-th of the phases with these compositions and energies.
PhaseOf(xs, e, k) == [x |-> xs[k], e |-> e[k]]

\* Two entries support the hull at x: no entry is below their line.
Supports(xs, e, n, a, b, x) ==
  /\ xs[a] <= x /\ x <= xs[b] /\ xs[a] < xs[b]
  /\ \A k \in 1..n : Cross(PhaseOf(xs, e, a), PhaseOf(xs, e, b), PhaseOf(xs, e, k)) >= 0

\* The hull of all mixtures.
Envelope(xs, e, x) == Lowest(Decompositions(xs, x), e)

LEMMA SupportIsLowest ==
  ASSUME NEW n \in Nat, NEW xs \in [1..n -> Compositions], NEW e \in [1..n -> Int],
         NEW a \in 1..n, NEW b \in 1..n, NEW x \in Compositions, Supports(xs, e, n, a, b, x)
  PROVE  /\ Envelope(xs, e, x) = Chord(PhaseOf(xs, e, a), PhaseOf(xs, e, b), x)
         /\ Between(xs, a, b, x) \in Decompositions(xs, x)
         /\ DecompositionEnergy(Between(xs, a, b, x), e) = Envelope(xs, e, x)
         /\ \A d \in Decompositions(xs, x) :
              DecompositionEnergy(d, e) \in Int /\ Envelope(xs, e, x) <= DecompositionEnergy(d, e)
<1> DEFINE l == PhaseOf(xs, e, a)
           r == PhaseOf(xs, e, b)
<1>0. l = [x |-> xs[a], e |-> e[a]] /\ r = [x |-> xs[b], e |-> e[b]]
  BY DEF PhaseOf
<1>1. l \in PhaseRecord /\ r \in PhaseRecord
  BY <1>0 DEF PhaseRecord
<1> HIDE DEF l, r
<1>2. l \in Point /\ r \in Point /\ l.x <= x /\ x <= r.x /\ l.x < r.x
  BY <1>0, <1>1, PhaseIsPoint DEF Supports
<1>3. /\ Chord(l, r, x) = (Scale \div (r.x - l.x)) * LineAt(l, r, x) /\ Chord(l, r, x) \in Int
      /\ (r.x - l.x) * Chord(l, r, x) = Scale * LineAt(l, r, x)
  BY <1>1, <1>2, ChordFacts
<1>4. Between(xs, a, b, x) \in Decompositions(xs, x)
  <2>1. <<a, b>> \in Pairs(xs, x)
    BY DEF Supports, Pairs
  <2> QED
    BY <2>1, DecompositionsAre
<1>5. DecompositionEnergy(Between(xs, a, b, x), e) = Chord(l, r, x)
  <2>1. xs[a] <= x /\ x <= xs[b] /\ xs[a] < xs[b]
    BY DEF Supports
  <2>2. LET q == Scale \div (xs[b] - xs[a]) IN
          DecompositionEnergy(Between(xs, a, b, x), e) = q * ((xs[b] - x) * e[a] + (x - xs[a]) * e[b])
    BY <2>1, MixtureOfTwo, Zenon
  <2> QED
    BY <1>0, <1>3, <2>2 DEF LineAt
<1>6. ASSUME NEW d \in Decompositions(xs, x)
      PROVE  DecompositionEnergy(d, e) \in Int /\ Chord(l, r, x) <= DecompositionEnergy(d, e)
  <2>1. \A k \in 1..n : Cross(l, r, [x |-> xs[k], e |-> e[k]]) >= 0
    BY DEF Supports, PhaseOf, l, r
  <2>2. /\ DecompositionEnergy(d, e) \in Int
        /\ Scale * LineAt(l, r, x) <= (r.x - l.x) * DecompositionEnergy(d, e)
    BY <1>2, <2>1, LineBelowMixtures
  <2>3. PICK w \in Nat \ {0} : w = r.x - l.x
    BY <1>2 DEF Point
  <2>4. w * Chord(l, r, x) <= w * DecompositionEnergy(d, e)
    BY <1>3, <2>2, <2>3
  <2> QED
    BY <1>3, <2>2, <2>4, Cancels
<1>7. Envelope(xs, e, x) = Chord(l, r, x)
  <2> DEFINE V == {DecompositionEnergy(d, e) : d \in Decompositions(xs, x)}
  <2>1. V \in SUBSET Int /\ Chord(l, r, x) \in V /\ \A v \in V : Chord(l, r, x) <= v
    BY <1>4, <1>5, <1>6
  <2>2. IsFiniteSet(V)
    <3>1. IsFiniteSet(Decompositions(xs, x))
      BY DecompositionsFacts
    <3>2. [d \in Decompositions(xs, x) |-> DecompositionEnergy(d, e)] \in Surjection(Decompositions(xs, x), V)
      BY DEF Surjection
    <3> HIDE DEF V
    <3> QED
      BY <3>1, <3>2, FS_Surjection
  <2>3. Envelope(xs, e, x) = Min(V)
    BY DEF Envelope, Lowest
  <2> HIDE DEF V
  <2>4. Min(V) \in V /\ \A v \in V : Min(V) <= v
    BY <2>1, <2>2, LeastOf
  <2>5. Min(V) \in Int /\ Min(V) <= Chord(l, r, x) /\ Chord(l, r, x) <= Min(V)
    BY <2>1, <2>4
  <2> QED
    BY <1>3, <2>3, <2>5
<1> QED
  BY <1>4, <1>5, <1>6, <1>7 DEF l, r

\* For any entries with both elements among them: the hull energy that the chain
\* gives is the envelope of all decompositions, two winners support it, and
\* whoever is on the chain is worth as much as the hull.
THEOREM HullIsEnvelope ==
  ASSUME NEW n \in Nat, NEW t, IsTemplate(t, n), NEW e \in [1..n -> Int], NEW x \in Compositions
  PROVE  /\ OnChain(LowerChain(t, e), x) = Envelope(t.xs, e, x) /\ Envelope(t.xs, e, x) \in Int
         /\ \E a, b \in 1..n :
              /\ Supports(t.xs, e, n, a, b, x)
              /\ IF \E p \in ToSet(LowerChain(t, e)) : p.x = x
                 THEN \E k \in {a, b} : t.xs[k] = x /\ k = Winner(t, e, x) /\ Scale * e[k] = Envelope(t.xs, e, x)
                 ELSE t.xs[a] < x /\ x < t.xs[b]
<1> DEFINE C == LowerChain(t, e)
<1>1. PICK m \in Nat \ {0, 1} : HullOfTemplate(t, e, n, C, m)
  BY ChainOfTemplate
<1> HIDE DEF C
<1>2. /\ C \in [1..m -> PhaseRecord] /\ C[1].x = 0 /\ C[m].x = Grid
      /\ \A i, j \in 1..m : i < j => C[i].x < C[j].x
      /\ \A i \in 1..m : \E k \in 1..n : C[i] = EntryPhase(t, e, k) /\ k = Winner(t, e, C[i].x)
      /\ \A i \in 1..(m - 1), k \in 1..n : Cross(C[i], C[i + 1], EntryPhase(t, e, k)) >= 0
  BY <1>1 DEF HullOfTemplate
<1>3. PICK i \in 1..(m - 1) :
        /\ C[i].x <= x /\ x <= C[i + 1].x /\ C[i].x < C[i + 1].x
        /\ OnChain(C, x) = Chord(C[i], C[i + 1], x)
        /\ (\E p \in ToSet(C) : p.x = x) => C[i].x = x \/ C[i + 1].x = x
  BY <1>2, OnChainIs
<1>4. i \in 1..m /\ i + 1 \in 1..m /\ C[i] \in PhaseRecord /\ C[i + 1] \in PhaseRecord
  BY <1>2
<1>5. PICK a \in 1..n, b \in 1..n :
        /\ C[i] = EntryPhase(t, e, a) /\ a = Winner(t, e, C[i].x)
        /\ C[i + 1] = EntryPhase(t, e, b) /\ b = Winner(t, e, C[i + 1].x)
  BY <1>2, <1>4
<1>6. t.xs \in [1..n -> Compositions]
  BY DEF IsTemplate
<1>7. /\ C[i] = [x |-> t.xs[a], e |-> e[a]] /\ C[i + 1] = [x |-> t.xs[b], e |-> e[b]]
      /\ C[i].x = t.xs[a] /\ C[i].e = e[a] /\ C[i + 1].x = t.xs[b] /\ C[i + 1].e = e[b]
  BY <1>5 DEF EntryPhase
<1>8. Supports(t.xs, e, n, a, b, x)
  <2>1. \A k \in 1..n : Cross(C[i], C[i + 1], [x |-> t.xs[k], e |-> e[k]]) >= 0
    BY <1>2 DEF EntryPhase
  <2> QED
    BY <1>3, <1>7, <2>1 DEF Supports, PhaseOf
<1>9. Envelope(t.xs, e, x) = Chord(C[i], C[i + 1], x)
  <2>0. PICK xs \in [1..n -> Compositions] : xs = t.xs
    BY <1>6
  <2>a. Supports(xs, e, n, a, b, x)
    BY <1>8, <2>0
  <2>1. Envelope(xs, e, x) = Chord(PhaseOf(xs, e, a), PhaseOf(xs, e, b), x)
    BY <2>a, SupportIsLowest
  <2>2. PhaseOf(xs, e, a) = C[i] /\ PhaseOf(xs, e, b) = C[i + 1]
    BY <1>7, <2>0 DEF PhaseOf
  <2> QED
    BY <2>0, <2>1, <2>2
<1>10. /\ Chord(C[i], C[i + 1], x) \in Int
       /\ x = C[i].x => Chord(C[i], C[i + 1], x) = Scale * C[i].e
       /\ x = C[i + 1].x => Chord(C[i], C[i + 1], x) = Scale * C[i + 1].e
  BY <1>3, <1>4, ChordFacts
<1>11. CASE \E p \in ToSet(C) : p.x = x
  <2>1. \E k \in {a, b} : t.xs[k] = x /\ k = Winner(t, e, x) /\ Scale * e[k] = Envelope(t.xs, e, x)
    <3>1. CASE C[i].x = x
      BY <1>5, <1>7, <1>9, <1>10, <3>1
    <3>2. CASE C[i + 1].x = x
      BY <1>5, <1>7, <1>9, <1>10, <3>2
    <3> QED
      BY <1>3, <1>11, <3>1, <3>2
  <2> QED
    BY <1>3, <1>8, <1>9, <1>10, <1>11, <2>1 DEF C
<1>12. CASE ~ \E p \in ToSet(C) : p.x = x
  <2>1. C[i] \in ToSet(C) /\ C[i + 1] \in ToSet(C)
    BY <1>2, <1>4 DEF ToSet
  <2>2. C[i].x # x /\ C[i + 1].x # x
    BY <1>12, <2>1
  <2>3. x \in Int /\ C[i].x \in Int /\ C[i + 1].x \in Int
    BY <1>4, PhaseIsPoint DEF PhaseRecord
  <2>4. t.xs[a] < x /\ x < t.xs[b]
    BY <1>3, <1>7, <2>2, <2>3
  <2> QED
    BY <1>3, <1>8, <1>9, <1>10, <1>12, <2>4 DEF C
<1> QED
  BY <1>11, <1>12

-------------------------------------------------------------------------------
(* The hull of a sequence of phases, and that it sinks as phases are added. *)

\* Phases with both elements among them.
Complete(phases, n) ==
  /\ phases \in [1..n -> PhaseRecord]
  /\ \E a, b \in 1..n : phases[a].x = 0 /\ phases[b].x = Grid

XsOf(phases) == [k \in DOMAIN phases |-> phases[k].x]
EsOf(phases) == [k \in DOMAIN phases |-> phases[k].e]

LEMMA TableFacts ==
  ASSUME NEW n \in Nat, NEW phases, Complete(phases, n)
  PROVE  /\ DOMAIN phases = 1..n
         /\ XsOf(phases) \in [1..n -> Compositions] /\ EsOf(phases) \in [1..n -> Int]
         /\ \A k \in 1..n : /\ XsOf(phases)[k] = phases[k].x /\ EsOf(phases)[k] = phases[k].e
                            /\ PhaseOf(XsOf(phases), EsOf(phases), k) = phases[k]
<1>1. DOMAIN phases = 1..n /\ \A k \in 1..n : phases[k] \in PhaseRecord
  BY DEF Complete
<1>2. XsOf(phases) \in [1..n -> Compositions] /\ EsOf(phases) \in [1..n -> Int]
  BY <1>1 DEF XsOf, EsOf, PhaseRecord
<1>3. \A k \in 1..n : /\ XsOf(phases)[k] = phases[k].x /\ EsOf(phases)[k] = phases[k].e
                      /\ PhaseOf(XsOf(phases), EsOf(phases), k) = phases[k]
  BY <1>1 DEF XsOf, EsOf, PhaseOf, PhaseRecord
<1> QED
  BY <1>1, <1>2, <1>3

LEMMA CompleteFacts ==
  ASSUME NEW n \in Nat, NEW phases, Complete(phases, n), NEW references \in Nat
  PROVE  IsTemplate([xs |-> XsOf(phases), references |-> references], n)
<1>1. /\ XsOf(phases) \in [1..n -> Compositions]
      /\ \A k \in 1..n : XsOf(phases)[k] = phases[k].x
  BY TableFacts
<1>2. Len(XsOf(phases)) = n
  BY <1>1, IntervalIsSeq
<1>3. \A el \in Elements : \E k \in 1..n : XsOf(phases)[k] = el
  BY <1>1 DEF Complete, Elements
<1> QED
  BY <1>1, <1>2, <1>3 DEF IsTemplate

LEMMA HullOfPhases ==
  ASSUME NEW n \in Nat, NEW phases, Complete(phases, n), NEW x \in Compositions
  PROVE  /\ HullOf(phases, x) = Envelope(XsOf(phases), EsOf(phases), x) /\ HullOf(phases, x) \in Int
         /\ \E a, b \in 1..n : Supports(XsOf(phases), EsOf(phases), n, a, b, x)
<1> DEFINE t == [xs |-> XsOf(phases), references |-> 0]
<1>1. IsTemplate(t, n) /\ EsOf(phases) \in [1..n -> Int] /\ t.xs = XsOf(phases)
  BY CompleteFacts, TableFacts
<1>2. HullOf(phases, x) = OnChain(LowerChain(t, EsOf(phases)), x)
  BY DEF HullOf, XsOf, EsOf
<1> HIDE DEF t
<1>3. /\ OnChain(LowerChain(t, EsOf(phases)), x) = Envelope(t.xs, EsOf(phases), x)
      /\ Envelope(t.xs, EsOf(phases), x) \in Int
      /\ \E a, b \in 1..n : Supports(t.xs, EsOf(phases), n, a, b, x)
  BY <1>1, HullIsEnvelope
<1> QED
  BY <1>1, <1>2, <1>3

LEMMA HullSinks ==
  ASSUME NEW n \in Nat, NEW p, Complete(p, n), NEW m \in Nat, NEW q, Complete(q, m),
         \A i \in 1..n : \E j \in 1..m : p[i] = q[j], NEW x \in Compositions
  PROVE  HullOf(q, x) <= HullOf(p, x)
<1> DEFINE px == XsOf(p)
           pe == EsOf(p)
           qx == XsOf(q)
           qe == EsOf(q)
<1>1. px \in [1..n -> Compositions] /\ pe \in [1..n -> Int]
  BY TableFacts
<1>2. qx \in [1..m -> Compositions] /\ qe \in [1..m -> Int]
  BY TableFacts
<1>3. \A k \in 1..n : PhaseOf(px, pe, k) = p[k]
  BY TableFacts
<1>4. \A k \in 1..m : PhaseOf(qx, qe, k) = q[k]
  BY TableFacts
<1>5. HullOf(p, x) = Envelope(px, pe, x) /\ HullOf(p, x) \in Int
  BY HullOfPhases
<1>6. HullOf(q, x) = Envelope(qx, qe, x) /\ HullOf(q, x) \in Int
  BY HullOfPhases
<1>7. PICK i \in 1..n, j \in 1..n : Supports(px, pe, n, i, j, x)
  BY HullOfPhases
<1>8. PICK a \in 1..m, b \in 1..m : Supports(qx, qe, m, a, b, x)
  BY HullOfPhases
<1> HIDE DEF px, pe, qx, qe
<1>9. PICK d \in Decompositions(px, x) : DecompositionEnergy(d, pe) = Envelope(px, pe, x)
  <2>1. /\ Between(px, i, j, x) \in Decompositions(px, x)
        /\ DecompositionEnergy(Between(px, i, j, x), pe) = Envelope(px, pe, x)
    BY <1>1, <1>7, SupportIsLowest
  <2> QED
    BY <2>1
<1>10. Envelope(qx, qe, x) = Chord(PhaseOf(qx, qe, a), PhaseOf(qx, qe, b), x)
  BY <1>2, <1>8, SupportIsLowest
<1>11. PICK l \in PhaseRecord, r \in PhaseRecord : l = PhaseOf(qx, qe, a) /\ r = PhaseOf(qx, qe, b)
  BY <1>4 DEF Complete
<1>12. /\ l.x <= x /\ x <= r.x /\ l.x < r.x
       /\ \A k \in 1..m : Cross(l, r, q[k]) >= 0
  <2>1. l.x = qx[a] /\ r.x = qx[b]
    BY <1>11 DEF PhaseOf
  <2>2. \A k \in 1..m : Cross(l, r, PhaseOf(qx, qe, k)) >= 0
    BY <1>8, <1>11 DEF Supports
  <2>3. qx[a] <= x /\ x <= qx[b] /\ qx[a] < qx[b]
    BY <1>8 DEF Supports
  <2> QED
    BY <1>4, <2>1, <2>2, <2>3
<1>13. \A k \in 1..n : Cross(l, r, [x |-> px[k], e |-> pe[k]]) >= 0
  BY <1>3, <1>12 DEF PhaseOf
<1>14. l \in Point /\ r \in Point
  BY PhaseIsPoint
<1>15. Scale * LineAt(l, r, x) <= (r.x - l.x) * DecompositionEnergy(d, pe)
  BY <1>1, <1>12, <1>13, <1>14, LineBelowMixtures
<1>16. (r.x - l.x) * Chord(l, r, x) = Scale * LineAt(l, r, x)
  BY <1>12, ChordFacts
<1>17. PICK w \in Nat \ {0} : w = r.x - l.x
  BY <1>12, <1>14 DEF Point
<1>18. w * HullOf(q, x) <= w * HullOf(p, x)
  BY <1>5, <1>6, <1>9, <1>10, <1>11, <1>15, <1>16, <1>17
<1> QED
  BY <1>5, <1>6, <1>18, Cancels

-------------------------------------------------------------------------------
(* The evaluator never raises.                                              *)

LEMMA OraclePoolFacts ==
  ASSUME NEW s \in Evaluated
  PROVE  /\ Complete(s.references, Len(s.references))
         /\ Complete(OraclePool(s), Extent(s))
         /\ XsOf(OraclePool(s)) = PhaseXs(s) /\ EsOf(OraclePool(s)) = TrueEnergies(s)
         /\ \A i \in 1..Len(s.references) : i \in 1..Extent(s) /\ OraclePool(s)[i] = s.references[i]
         /\ \A k \in Pool(s) : /\ At(s, k) \in 1..Extent(s) /\ OraclePool(s)[At(s, k)] = Phase(s, k)
                               /\ Phase(s, k) \in PhaseRecord
<1> DEFINE r == Len(s.references)
           m == Len(s.xs)
           back == ComputedEntries(s.xs, s.truth)
<1>1. r \in Nat /\ m \in Nat /\ Extent(s) = r + m /\ Pool(s) = 1..m
  BY SystemFacts DEF Extent
<1>2. s.xs \in [1..m -> Compositions] /\ s.truth \in [1..m -> Int]
  BY <1>1, SystemFacts
<1>3. back \in [1..m -> PhaseRecord] /\ \A k \in 1..m : back[k] = Phase(s, k)
  BY <1>1, <1>2 DEF ComputedEntries, Phase, PhaseRecord
<1>4. s.references \in [1..r -> PhaseRecord]
  <2>1. s.references \in Seq(PhaseRecord)
    BY EvaluationAssumption DEF PhaseRecord
  <2> QED
    BY <2>1, LenProperties, ElementOfSeq
<1>5. OraclePool(s) = s.references \o back
  BY DEF OraclePool
<1> HIDE DEF r, m, back
<1>6. s.references \o back \in [1..(r + m) -> PhaseRecord]
  BY <1>1, <1>3, <1>4, JoinedSequence
<1>7. \A i \in 1..r : (s.references \o back)[i] = s.references[i]
  BY <1>1, <1>3, <1>4, JoinedSequence
<1>8. \A k \in 1..m : (s.references \o back)[r + k] = back[k]
  <2>1. r \in Nat /\ m \in Nat
    BY <1>1
  <2>2. back \in [1..m -> PhaseRecord]
    BY <1>3
  <2>3. PICK front \in [1..r -> PhaseRecord] : front = s.references
    BY <1>4
  <2>4. \A k \in 1..m : (front \o back)[r + k] = back[k]
    BY <2>1, <2>2, JoinedSequence
  <2> QED
    BY <2>3, <2>4
<1>9. PICK a \in 1..r, b \in 1..r : s.references[a].x = 0 /\ s.references[b].x = Grid
  <2>1. {0, Grid} \subseteq {s.references[i].x : i \in 1..r}
    BY EvaluationAssumption DEF Elements, r
  <2> QED
    BY <2>1
<1>10. \A i \in 1..r : i \in 1..(r + m)
  BY <1>1
<1>11. \A k \in 1..m : r + k \in 1..(r + m) /\ At(s, k) = r + k
  BY <1>1 DEF At, r
<1>12. Complete(s.references, r)
  BY <1>4, <1>9 DEF Complete
<1>13. Complete(OraclePool(s), Extent(s))
  BY <1>1, <1>5, <1>6, <1>7, <1>9, <1>10 DEF Complete
<1>14. /\ \A i \in 1..r : i \in 1..Extent(s) /\ OraclePool(s)[i] = s.references[i]
       /\ \A k \in Pool(s) : At(s, k) \in 1..Extent(s) /\ OraclePool(s)[At(s, k)] = Phase(s, k)
  BY <1>1, <1>3, <1>5, <1>7, <1>8, <1>10, <1>11
<1>15. \A i \in 1..Extent(s) : /\ OraclePool(s)[i].x = PhaseXs(s)[i]
                               /\ OraclePool(s)[i].e = TrueEnergies(s)[i]
  <2> TAKE i \in 1..Extent(s)
  <2>1. CASE i \in 1..r
    BY <1>14, <2>1, EnergiesFacts DEF r
  <2>2. CASE \E k \in Pool(s) : i = At(s, k)
    <3>1. PICK k \in Pool(s) : i = At(s, k)
      BY <2>2
    <3>3. OraclePool(s)[i] = Phase(s, k)
      BY <1>14, <3>1
    <3>2. OraclePool(s)[i].x = s.xs[k] /\ OraclePool(s)[i].e = s.truth[k]
      BY <3>3 DEF Phase
    <3> QED
      BY <3>1, <3>2, EnergiesFacts
  <2> QED
    BY <2>1, <2>2, PhaseIsOneOf DEF r
<1>16. PhaseXs(s) \in [1..Extent(s) -> Compositions] /\ TrueEnergies(s) \in [1..Extent(s) -> Int]
  BY EnergiesFacts
<1>17. DOMAIN OraclePool(s) = 1..Extent(s)
  BY <1>13 DEF Complete
<1>18. XsOf(OraclePool(s)) = PhaseXs(s) /\ EsOf(OraclePool(s)) = TrueEnergies(s)
  BY <1>15, <1>16, <1>17 DEF XsOf, EsOf
<1>19. \A k \in Pool(s) : Phase(s, k) \in PhaseRecord
  BY <1>1, <1>3
<1> QED
  BY <1>12, <1>13, <1>14, <1>18, <1>19 DEF r

\* The trace lists queries, the diagram is made of the references and of their
\* phases, and who is on its hull was so when selected.
TraceInvariant ==
  LET r == Len(pool.references) IN
  /\ pool \in Evaluated
  /\ AnySeq(selected) /\ AnySeq(rounds) /\ Len(rounds) = Len(selected)
  /\ \A q \in 1..Len(selected) : selected[q] \in Pool(pool)
  /\ entries \in [1..(r + Len(selected)) -> PhaseRecord]
  /\ \A i \in 1..r : entries[i] = pool.references[i]
  /\ \A q \in 1..Len(selected) :
       /\ entries[r + q] = Phase(pool, selected[q])
       /\ AboveHull(entries, Phase(pool, selected[q])) <= 0 => rounds[q].stable

LEMMA EntriesComplete ==
  ASSUME TraceInvariant
  PROVE  /\ Len(selected) \in Nat /\ Len(pool.references) \in Nat
         /\ Complete(entries, Len(pool.references) + Len(selected))
<1>1. Len(selected) \in Nat /\ Len(pool.references) \in Nat
  BY SystemFacts, LenProperties DEF TraceInvariant, AnySeq
<1>2. Complete(pool.references, Len(pool.references))
  BY OraclePoolFacts DEF TraceInvariant
<1>3. \A i \in 1..Len(pool.references) : i \in 1..(Len(pool.references) + Len(selected))
  BY <1>1
<1> QED
  BY <1>1, <1>2, <1>3 DEF TraceInvariant, Complete

LEMMA AboveHullRises ==
  ASSUME NEW n \in Nat, NEW p, Complete(p, n), NEW m \in Nat, NEW q, Complete(q, m),
         \A i \in 1..n : \E j \in 1..m : p[i] = q[j], NEW phase \in PhaseRecord
  PROVE  AboveHull(p, phase) <= AboveHull(q, phase)
<1>1. phase.x \in Compositions /\ Scale * phase.e \in Int
  BY GeometryAssumption DEF PhaseRecord
<1>2. HullOf(q, phase.x) <= HullOf(p, phase.x)
  BY <1>1, HullSinks
<1>3. HullOf(q, phase.x) \in Int /\ HullOf(p, phase.x) \in Int
  BY <1>1, HullOfPhases
<1> QED
  BY <1>1, <1>2, <1>3 DEF AboveHull

LEMMA TraceInvariantHolds == EvaluationSpec => []TraceInvariant
<1>1. EvaluationInit => TraceInvariant
  <2> SUFFICES ASSUME EvaluationInit
               PROVE  TraceInvariant
    OBVIOUS
  <2>1. /\ pool \in Evaluated /\ selected = <<>> /\ rounds = <<>> /\ entries = pool.references
    BY DEF EvaluationInit
  <2>2. AnySeq(selected) /\ AnySeq(rounds) /\ Len(selected) = 0 /\ Len(rounds) = 0
    BY <2>1, EmptyFacts
  <2>3. Len(pool.references) \in Nat /\ pool.references \in [1..Len(pool.references) -> PhaseRecord]
    BY <2>1, OraclePoolFacts, SystemFacts DEF Complete
  <2>4. Len(pool.references) + 0 = Len(pool.references)
    BY <2>3
  <2> QED
    BY <2>1, <2>2, <2>3, <2>4 DEF TraceInvariant
<1>2. ASSUME TraceInvariant, EvaluationNext
      PROVE  TraceInvariant'
  <2> DEFINE r == Len(pool.references)
             N == Len(selected)
  <2>1. PICK k : Replay(k)
    BY <1>2 DEF EvaluationNext
  <2>2. /\ k \in Pool(pool) /\ pool' = pool /\ selected' = Append(selected, k)
        /\ entries' = Append(entries, Phase(pool, k))
    BY <2>1 DEF Replay, Unselected
  <2>3. PICK round : /\ rounds' = Append(rounds, round)
                     /\ round.stable <=> AboveHull(entries, Phase(pool, k)) <= 0
    <3> DEFINE best == Min({AboveHull(entries, Phase(pool, j)) : j \in Unselected})
               now == [margin |-> AboveHull(entries, Phase(pool, k)), best |-> best,
                       stable |-> AboveHull(entries, Phase(pool, k)) <= 0]
    <3>1. rounds' = Append(rounds, now)
      BY <2>1 DEF Replay
    <3>2. now.stable <=> AboveHull(entries, Phase(pool, k)) <= 0
      OBVIOUS
    <3> QED
      BY <3>1, <3>2
  <2>4. /\ pool \in Evaluated /\ AnySeq(selected) /\ AnySeq(rounds) /\ Len(rounds) = N
        /\ \A q \in 1..N : selected[q] \in Pool(pool)
        /\ entries \in [1..(r + N) -> PhaseRecord]
        /\ \A i \in 1..r : entries[i] = pool.references[i]
        /\ \A q \in 1..N :
             /\ entries[r + q] = Phase(pool, selected[q])
             /\ AboveHull(entries, Phase(pool, selected[q])) <= 0 => rounds[q].stable
    BY <1>2 DEF TraceInvariant
  <2>5. N \in Nat /\ r \in Nat /\ Complete(entries, r + N)
    BY <1>2, EntriesComplete
  <2>6. Phase(pool, k) \in PhaseRecord
    BY <2>2, <2>4, OraclePoolFacts
  <2>7. /\ AnySeq(selected') /\ Len(selected') = N + 1 /\ selected'[N + 1] = k
        /\ \A q \in 1..N : selected'[q] = selected[q]
    BY <2>2, <2>4, AppendFacts
  <2>8. /\ AnySeq(rounds') /\ Len(rounds') = N + 1 /\ rounds'[N + 1] = round
        /\ \A q \in 1..N : rounds'[q] = rounds[q]
    BY <2>3, <2>4, AppendFacts
  <2>9. AnySeq(entries) /\ Len(entries) = r + N
    <3>1. r + N \in Nat /\ entries \in [1..(r + N) -> PhaseRecord]
      BY <2>4, <2>5
    <3> QED
      BY <3>1, IntervalIsSeq
  <2>10. /\ Len(entries') = r + N + 1 /\ entries'[r + N + 1] = Phase(pool, k)
         /\ \A i \in 1..(r + N) : entries'[i] = entries[i]
         /\ AnySeq(entries')
    <3>1. PICK phase : phase = Phase(pool, k) /\ entries' = Append(entries, phase)
      BY <2>2
    <3>2. /\ Len(entries') = Len(entries) + 1 /\ entries'[Len(entries) + 1] = phase
          /\ \A i \in 1..Len(entries) : entries'[i] = entries[i]
          /\ AnySeq(entries')
      BY <2>9, <3>1, AppendFacts
    <3> QED
      BY <2>9, <3>1, <3>2
  <2> HIDE DEF r, N
  <2>11. entries' \in [1..(r + (N + 1)) -> PhaseRecord]
    <3>1. r + N + 1 = r + (N + 1) /\ r + (N + 1) \in Nat
      BY <2>5
    <3>2. entries' \in [1..(r + (N + 1)) -> {entries'[i] : i \in 1..(r + (N + 1))}]
      <4>1. Len(entries') = r + (N + 1) /\ entries' \in Seq({entries'[i] : i \in 1..Len(entries')})
        BY <2>10, <3>1 DEF AnySeq
      <4>2. entries' \in [1..Len(entries') -> {entries'[i] : i \in 1..Len(entries')}]
        BY <4>1, LenProperties
      <4> QED
        BY <4>1, <4>2
    <3>3. \A i \in 1..(r + (N + 1)) : i \in 1..(r + N) \/ i = r + N + 1
      BY <2>5
    <3>4. \A i \in 1..(r + (N + 1)) : entries'[i] \in PhaseRecord
      BY <2>4, <2>6, <2>10, <3>3
    <3> QED
      BY <3>2, <3>4
  <2>12. \A i \in 1..r : entries'[i] = pool.references[i] /\ i \in 1..(r + N)
    <3>1. \A i \in 1..r : i \in 1..(r + N)
      BY <2>5
    <3> QED
      BY <2>4, <2>10, <3>1
  <2>13. \A q \in 1..(N + 1) : q \in 1..N \/ q = N + 1
    BY <2>5
  <2>14. \A q \in 1..(N + 1) : selected'[q] \in Pool(pool)
    BY <2>2, <2>4, <2>7, <2>13
  <2>15. \A q \in 1..(N + 1) : entries'[r + q] = Phase(pool, selected'[q])
    <3> TAKE q \in 1..(N + 1)
    <3>1. CASE q \in 1..N
      <4>1. r + q \in 1..(r + N)
        BY <2>5, <3>1
      <4> QED
        BY <2>4, <2>7, <2>10, <3>1, <4>1
    <3>2. CASE q = N + 1
      <4>1. r + q = r + N + 1
        BY <2>5, <3>2
      <4> QED
        BY <2>7, <2>10, <3>2, <4>1
    <3> QED
      BY <2>13, <3>1, <3>2
  <2>16. Complete(entries', r + (N + 1))
    <3>1. PICK a \in 1..(r + N), b \in 1..(r + N) : entries[a].x = 0 /\ entries[b].x = Grid
      BY <2>5 DEF Complete
    <3>2. a \in 1..(r + (N + 1)) /\ b \in 1..(r + (N + 1))
      BY <2>5
    <3> QED
      BY <2>10, <2>11, <3>1, <3>2 DEF Complete
  <2>17. \A phase \in PhaseRecord : AboveHull(entries, phase) <= AboveHull(entries', phase)
    <3>1. \A i \in 1..(r + N) : i \in 1..(r + (N + 1)) /\ entries[i] = entries'[i]
      BY <2>5, <2>10
    <3>2. \A i \in 1..(r + N) : \E j \in 1..(r + (N + 1)) : entries[i] = entries'[j]
      BY <3>1
    <3>3. r + N \in Nat /\ r + (N + 1) \in Nat
      BY <2>5
    <3> QED
      BY <2>5, <2>16, <3>2, <3>3, AboveHullRises
  <2>18. \A phase \in PhaseRecord : AboveHull(entries, phase) \in Int /\ AboveHull(entries', phase) \in Int
    <3> TAKE phase \in PhaseRecord
    <3>1. phase.x \in Compositions /\ Scale * phase.e \in Int
      BY GeometryAssumption DEF PhaseRecord
    <3>2. r + N \in Nat /\ r + (N + 1) \in Nat
      BY <2>5
    <3>3. HullOf(entries, phase.x) \in Int
      BY <2>5, <3>1, <3>2, HullOfPhases
    <3>4. HullOf(entries', phase.x) \in Int
      BY <2>16, <3>1, <3>2, HullOfPhases
    <3> QED
      BY <3>1, <3>3, <3>4 DEF AboveHull
  <2>19. \A q \in 1..(N + 1) : AboveHull(entries', Phase(pool, selected'[q])) <= 0 => rounds'[q].stable
    <3> TAKE q \in 1..(N + 1)
    <3>1. PICK phase \in PhaseRecord : phase = Phase(pool, selected'[q])
      BY <2>4, <2>14, OraclePoolFacts
    <3>2. AboveHull(entries', phase) <= 0 => AboveHull(entries, phase) <= 0
      BY <2>17, <2>18
    <3>3. CASE q \in 1..N
      BY <2>4, <2>7, <2>8, <3>1, <3>2, <3>3
    <3>4. CASE q = N + 1
      BY <2>3, <2>7, <2>8, <3>1, <3>2, <3>4
    <3> QED
      BY <2>13, <3>3, <3>4
  <2>20. r' = r
    BY <2>2 DEF r
  <2> QED
    BY <2>2, <2>4, <2>7, <2>8, <2>11, <2>12, <2>14, <2>15, <2>19, <2>20 DEF TraceInvariant, r, N
<1>3. TraceInvariant /\ UNCHANGED evaluationVars => TraceInvariant'
  BY DEF TraceInvariant, evaluationVars, AboveHull, HullOf, Phase, Pool
<1> QED
  BY <1>1, <1>2, <1>3, PTL DEF EvaluationSpec

LEMMA EvaluatorNeverRaises ==
  ASSUME TraceInvariant
  PROVE  NeverRaises
<1>1. FinalCausal \subseteq Causal
  <2>1. ASSUME NEW k \in FinalCausal
        PROVE  k \in Causal
    <3>1. PICK q \in 1..Len(selected) : k = selected[q] /\ AboveHull(entries, Phase(pool, k)) <= 0
      BY LenProperties DEF FinalCausal, ToSet, TraceInvariant, AnySeq
    <3>2. rounds[q].stable /\ q \in DOMAIN rounds
      BY <3>1, LenProperties DEF TraceInvariant, AnySeq
    <3> QED
      BY <3>1, <3>2 DEF Causal
  <2> QED
    BY <2>1
<1>2. OracleConfirmed \subseteq FinalCausal
  <2> DEFINE r == Len(pool.references)
             N == Len(selected)
  <2>1. N \in Nat /\ r \in Nat /\ Complete(entries, r + N) /\ r + N \in Nat
    BY EntriesComplete
  <2>2. pool \in Evaluated /\ Complete(OraclePool(pool), Extent(pool)) /\ Extent(pool) \in Nat
    BY OraclePoolFacts, SystemFacts DEF TraceInvariant
  <2>3. \A i \in 1..(r + N) : \E j \in 1..Extent(pool) : entries[i] = OraclePool(pool)[j]
    <3> TAKE i \in 1..(r + N)
    <3>1. CASE i \in 1..r
      BY <2>2, <3>1, OraclePoolFacts DEF TraceInvariant
    <3>2. CASE i \notin 1..r
      <4>1. i - r \in 1..N /\ i = r + (i - r)
        BY <2>1, <3>2
      <4>2. PICK q \in 1..N : i = r + q
        BY <4>1
      <4>3. selected[q] \in Pool(pool) /\ entries[i] = Phase(pool, selected[q])
        BY <4>2 DEF TraceInvariant
      <4> QED
        BY <2>2, <4>3, OraclePoolFacts
    <3> QED
      BY <3>1, <3>2
  <2>4. ASSUME NEW k \in ToSet(selected), AboveHull(OraclePool(pool), Phase(pool, k)) <= 0
        PROVE  AboveHull(entries, Phase(pool, k)) <= 0
    <3>1. k \in Pool(pool)
      BY LenProperties DEF ToSet, TraceInvariant, AnySeq
    <3>2. PICK phase \in PhaseRecord : phase = Phase(pool, k)
      BY <2>2, <3>1, OraclePoolFacts
    <3>3. AboveHull(entries, phase) <= AboveHull(OraclePool(pool), phase)
      BY <2>1, <2>2, <2>3, AboveHullRises
    <3>4. phase.x \in Compositions /\ Scale * phase.e \in Int
      BY GeometryAssumption DEF PhaseRecord
    <3>5. HullOf(entries, phase.x) \in Int
      BY <2>1, <3>4, HullOfPhases
    <3>6. HullOf(OraclePool(pool), phase.x) \in Int
      BY <2>2, <3>4, HullOfPhases
    <3> QED
      BY <2>4, <3>2, <3>3, <3>4, <3>5, <3>6 DEF AboveHull
  <2> QED
    BY <2>4 DEF OracleConfirmed, FinalCausal
<1> QED
  BY <1>1, <1>2 DEF NeverRaises, MetricsNested

-------------------------------------------------------------------------------
(* Who is on the hull, and who is strictly below the others.                *)

\* The mixture that is one phase alone.
Alone(k) == [i \in {k} |-> Scale]

LEMMA EnergyAlone ==
  ASSUME NEW n \in Nat, NEW e \in [1..n -> Int], NEW k \in 1..n
  PROVE  DecompositionEnergy(Alone(k), e) = Scale * e[k] /\ Scale * e[k] \in Int
<1> DEFINE F == [i \in {k} |-> Scale * e[i]]
<1>1. Scale \in Int /\ e[k] \in Int /\ Scale * e[k] \in Int
  BY GeometryAssumption
<1>2. F \in [{k} -> Int] /\ F[k] = Scale * e[k]
  BY <1>1
<1>3. IsFiniteSet({k}) /\ {k} \in SUBSET {k} /\ k \in {k} /\ {k} \ {k} = {}
  BY FS_Singleton
<1>4. DecompositionEnergy(Alone(k), e) = SumFunctionOnSet(F, {k})
  <2>1. DOMAIN Alone(k) = {k} /\ \A i \in {k} : Alone(k)[i] = Scale
    BY DEF Alone
  <2>2. [i \in DOMAIN Alone(k) |-> Alone(k)[i] * e[i]] = F
    BY <2>1
  <2> QED
    BY <2>1, <2>2 DEF DecompositionEnergy
<1> HIDE DEF F
<1>5. SumFunctionOnSet(F, {k}) = F[k] + SumFunctionOnSet(F, {k} \ {k})
  BY <1>2, <1>3, SumAdds
<1>6. SumFunctionOnSet(F, {}) = 0
  <2>1. IsFiniteSet({})
    BY FS_EmptySet
  <2> QED
    BY <2>1, SumStep
<1>7. SumFunctionOnSet(F, {k}) = Scale * e[k] + 0
  BY <1>2, <1>3, <1>5, <1>6
<1> QED
  BY <1>1, <1>4, <1>7

LEMMA AloneIsDecomposition ==
  ASSUME NEW n \in Nat, NEW t, IsTemplate(t, n), NEW k \in 1..n
  PROVE  Alone(k) \in Decompositions(t.xs, t.xs[k])
<1>1. t.xs \in [1..n -> Compositions]
  BY DEF IsTemplate
<1>2. PICK a \in 1..n, b \in 1..n : t.xs[a] = 0 /\ t.xs[b] = Grid
  BY DEF IsTemplate, Elements
<1>3. PICK xs \in [1..n -> Compositions] : xs = t.xs
  BY <1>1
<1>4. [i \in {k} |-> Scale] \in Decompositions(xs, xs[k])
  BY <1>2, <1>3, SingleIsDecomposition
<1> QED
  BY <1>3, <1>4 DEF Alone

\* An entry stands for its composition on the chain.
OnHull(t, e, k) ==
  (\E p \in ToSet(LowerChain(t, e)) : p.x = t.xs[k]) /\ Winner(t, e, t.xs[k]) = k

\* Whoever is on the hull has the energy of the hull, and whoever is strictly
\* below every mixture without it is on the hull.
LEMMA OnHullFacts ==
  ASSUME NEW n \in Nat, NEW t, IsTemplate(t, n), NEW e \in [1..n -> Int], NEW k \in 1..n
  PROVE  /\ OnHull(t, e, k) => Scale * e[k] = Envelope(t.xs, e, t.xs[k])
         /\ (\A d \in Decompositions(t.xs, t.xs[k]) :
               k \notin DOMAIN d => Scale * e[k] < DecompositionEnergy(d, e))
              => OnHull(t, e, k)
<1> DEFINE x == t.xs[k]
           on == \E p \in ToSet(LowerChain(t, e)) : p.x = x
<1>1. t.xs \in [1..n -> Compositions] /\ x \in Compositions
  BY DEF IsTemplate
<1>2. PICK a \in 1..n, b \in 1..n :
        /\ Supports(t.xs, e, n, a, b, x)
        /\ IF on
           THEN \E w \in {a, b} : t.xs[w] = x /\ w = Winner(t, e, x) /\ Scale * e[w] = Envelope(t.xs, e, x)
           ELSE t.xs[a] < x /\ x < t.xs[b]
  BY <1>1, HullIsEnvelope
<1>3. ASSUME OnHull(t, e, k)
      PROVE  Scale * e[k] = Envelope(t.xs, e, x)
  BY <1>2, <1>3 DEF OnHull
<1>4. ASSUME \A d \in Decompositions(t.xs, x) :
               k \notin DOMAIN d => Scale * e[k] < DecompositionEnergy(d, e)
      PROVE  OnHull(t, e, k)
  <2>1. CASE on
    <3>1. PICK w \in 1..n : t.xs[w] = x /\ w = Winner(t, e, x)
      BY <1>2, <2>1
    <3>2. w = k
      <4>1. SUFFICES ASSUME w # k
                     PROVE  FALSE
        OBVIOUS
      <4>2. Alone(w) \in Decompositions(t.xs, x) /\ k \notin DOMAIN Alone(w)
        <5>1. Alone(w) \in Decompositions(t.xs, t.xs[w])
          BY AloneIsDecomposition
        <5> QED
          BY <3>1, <4>1, <5>1 DEF Alone
      <4>3. Scale * e[k] < Scale * e[w] /\ Scale * e[k] \in Int /\ Scale * e[w] \in Int
        <5>1. Scale * e[k] < DecompositionEnergy(Alone(w), e)
          BY <1>4, <4>2
        <5>2. DecompositionEnergy(Alone(w), e) = Scale * e[w]
          BY EnergyAlone
        <5>3. Scale * e[k] \in Int /\ Scale * e[w] \in Int
          BY EnergyAlone
        <5> QED
          BY <5>1, <5>2, <5>3
      <4>4. e[w] <= e[k]
        BY <3>1, WinnerFacts
      <4>5. Scale * e[w] <= Scale * e[k]
        BY <4>4, GeometryAssumption, Multiplies
      <4> QED
        BY <4>3, <4>5
    <3> QED
      BY <2>1, <3>1, <3>2 DEF OnHull
  <2>2. CASE ~on
    <3>1. t.xs[a] < x /\ x < t.xs[b]
      BY <1>2, <2>2
    <3>2. /\ Between(t.xs, a, b, x) \in Decompositions(t.xs, x)
          /\ DecompositionEnergy(Between(t.xs, a, b, x), e) = Envelope(t.xs, e, x)
          /\ \A d \in Decompositions(t.xs, x) :
               DecompositionEnergy(d, e) \in Int /\ Envelope(t.xs, e, x) <= DecompositionEnergy(d, e)
      <4>1. PICK xs \in [1..n -> Compositions] : xs = t.xs
        BY <1>1
      <4>2. Supports(xs, e, n, a, b, x)
        BY <1>2, <4>1
      <4> HIDE DEF x
      <4>3. /\ Between(xs, a, b, x) \in Decompositions(xs, x)
            /\ DecompositionEnergy(Between(xs, a, b, x), e) = Envelope(xs, e, x)
            /\ \A d \in Decompositions(xs, x) :
                 DecompositionEnergy(d, e) \in Int /\ Envelope(xs, e, x) <= DecompositionEnergy(d, e)
        BY <1>1, <4>2, SupportIsLowest
      <4> QED
        BY <4>1, <4>3
    <3>3. k \notin DOMAIN Between(t.xs, a, b, x)
      <4>1. k # a /\ k # b
        <5>1. t.xs[k] \in Int /\ t.xs[a] < t.xs[k] /\ t.xs[k] < t.xs[b]
          BY <1>1, <3>1, PhaseIsPoint
        <5> QED
          BY <5>1
      <4>2. DOMAIN Between(t.xs, a, b, x) \subseteq {a, b}
        BY DEF Between
      <4> QED
        BY <4>1, <4>2
    <3>4. Scale * e[k] < Envelope(t.xs, e, x)
      BY <1>4, <3>2, <3>3
    <3>5. Envelope(t.xs, e, x) <= Scale * e[k]
      <4>1. Alone(k) \in Decompositions(t.xs, x)
        BY AloneIsDecomposition
      <4>2. DecompositionEnergy(Alone(k), e) = Scale * e[k]
        BY EnergyAlone
      <4> QED
        BY <3>2, <4>1, <4>2
    <3>6. Envelope(t.xs, e, x) \in Int /\ Scale * e[k] \in Int
      BY <3>2, EnergyAlone
    <3> QED
      BY <3>4, <3>5, <3>6
  <2> QED
    BY <2>1, <2>2
<1> QED
  BY <1>3, <1>4

-------------------------------------------------------------------------------
(* The final hull that a policy asks for.                                   *)

\* The template and the energies of a call with these queries and references.
CallTemplate(xs, references) == Template(xs, XsOf(references))
CallEnergies(energies, references) == EsOf(references) \o energies

LEMMA CallFacts ==
  ASSUME NEW r \in Nat, NEW references, Complete(references, r), NEW m \in Nat,
         NEW xs \in [1..m -> Compositions], NEW energies \in [1..m -> Int]
  PROVE  LET t == CallTemplate(xs, references)  e == CallEnergies(energies, references) IN
         /\ t.references = r /\ IsTemplate(t, r + m) /\ e \in [1..(r + m) -> Int]
         /\ \A i \in 1..r : t.xs[i] = references[i].x /\ e[i] = references[i].e
         /\ \A k \in 1..m : r + k \in 1..(r + m) /\ t.xs[r + k] = xs[k] /\ e[r + k] = energies[k]
         /\ \A k \in 1..m : k \in Membership(xs, energies, references) <=> OnHull(t, e, r + k)
<1> DEFINE rx == XsOf(references)
           re == EsOf(references)
           t == CallTemplate(xs, references)
           e == CallEnergies(energies, references)
<1>1. /\ rx \in [1..r -> Compositions] /\ re \in [1..r -> Int]
      /\ \A i \in 1..r : rx[i] = references[i].x /\ re[i] = references[i].e
  <2>1. rx \in [1..r -> Compositions] /\ re \in [1..r -> Int]
    BY TableFacts
  <2>2. \A i \in 1..r : rx[i] = references[i].x
    BY TableFacts
  <2>3. \A i \in 1..r : re[i] = references[i].e
    BY TableFacts
  <2> QED
    BY <2>1, <2>2, <2>3
<1>2. Len(rx) = r
  BY <1>1, IntervalIsSeq
<1>3. t = [xs |-> rx \o xs, references |-> r] /\ e = re \o energies
  BY <1>2 DEF CallTemplate, CallEnergies, Template
<1>4. PICK a \in 1..r, b \in 1..r : references[a].x = 0 /\ references[b].x = Grid
  BY DEF Complete
<1>m. \A k : k \in Membership(xs, energies, references)
               <=> k \in DOMAIN xs /\ k + t.references \in StableMask(t, e)
  BY DEF Membership, CallTemplate, CallEnergies, XsOf, EsOf
<1> HIDE DEF rx, re, t, e
<1>5. /\ rx \o xs \in [1..(r + m) -> Compositions]
      /\ \A i \in 1..r : (rx \o xs)[i] = rx[i]
      /\ \A k \in 1..m : (rx \o xs)[r + k] = xs[k]
  <2>1. rx \in [1..r -> Compositions]
    BY <1>1
  <2>2. rx \o xs \in [1..(r + m) -> Compositions]
    BY <2>1, JoinedSequence
  <2>3. \A i \in 1..r : (rx \o xs)[i] = rx[i]
    BY <2>1, JoinedSequence
  <2>4. \A k \in 1..m : (rx \o xs)[r + k] = xs[k]
    BY <2>1, JoinedSequence
  <2> QED
    BY <2>2, <2>3, <2>4
<1>6. /\ re \o energies \in [1..(r + m) -> Int]
      /\ \A i \in 1..r : (re \o energies)[i] = re[i]
      /\ \A k \in 1..m : (re \o energies)[r + k] = energies[k]
  <2>1. re \in [1..r -> Int]
    BY <1>1
  <2>2. re \o energies \in [1..(r + m) -> Int]
    BY <2>1, JoinedSequence
  <2>3. \A i \in 1..r : (re \o energies)[i] = re[i]
    BY <2>1, JoinedSequence
  <2>4. \A k \in 1..m : (re \o energies)[r + k] = energies[k]
    BY <2>1, JoinedSequence
  <2> QED
    BY <2>2, <2>3, <2>4
<1>7. Len(rx \o xs) = r + m
  <2>1. r + m \in Nat
    OBVIOUS
  <2> QED
    BY <1>5, <2>1, IntervalIsSeq
<1>8. \A i \in 1..r : i \in 1..(r + m)
  OBVIOUS
<1>9. \A k \in 1..m : r + k \in 1..(r + m) /\ r + k \in (r + 1)..(r + m) /\ k + r = r + k
  OBVIOUS
<1>10. t.xs = rx \o xs /\ t.references = r
  BY <1>3
<1>11. IsTemplate(t, r + m)
  <2>a. a \in 1..(r + m) /\ b \in 1..(r + m)
    OBVIOUS
  <2>b. t.xs[a] = 0 /\ t.xs[b] = Grid
    <3>1. t.xs[a] = rx[a] /\ t.xs[b] = rx[b]
      BY <1>5, <1>10
    <3> QED
      BY <1>1, <1>4, <3>1
  <2>1. \A el \in Elements : \E i \in 1..(r + m) : t.xs[i] = el
    BY <2>a, <2>b DEF Elements
  <2> QED
    BY <1>5, <1>7, <1>10, <2>1 DEF IsTemplate
<1>12. \A k \in 1..m : k \in Membership(xs, energies, references) <=> OnHull(t, e, r + k)
  <2> TAKE k \in 1..m
  <2>1. k + t.references = r + k /\ r + k \in Candidates(t)
    BY <1>7, <1>9, <1>10 DEF Candidates
  <2>2. r + k \in StableMask(t, e) <=> OnHull(t, e, r + k)
    BY <2>1 DEF StableMask, OnHull
  <2> QED
    BY <1>m, <2>1, <2>2
<1> QED
  BY <1>1, <1>3, <1>5, <1>6, <1>9, <1>10, <1>11, <1>12 DEF t, e

-------------------------------------------------------------------------------
LEMMA LowestIs ==
  ASSUME NEW n \in Nat, NEW M \in SUBSET Shared(n), IsFiniteSet(M), M # {},
         NEW e \in [1..n -> Int]
  PROVE  /\ Lowest(M, e) \in Int
         /\ \E d \in M : DecompositionEnergy(d, e) = Lowest(M, e)
         /\ \A d \in M : DecompositionEnergy(d, e) \in Int /\ Lowest(M, e) <= DecompositionEnergy(d, e)
<1> DEFINE V == {DecompositionEnergy(d, e) : d \in M}
<1>1. \A i \in 1..n : e[i] <= e[i]
  OBVIOUS
<1>2. \A d \in M : DecompositionEnergy(d, e) \in Int
  BY <1>1, MixtureEnergy
<1>3. [d \in M |-> DecompositionEnergy(d, e)] \in Surjection(M, V)
  BY DEF Surjection
<1>4. IsFiniteSet(V)
  BY <1>3, FS_Surjection
<1>5. V \in SUBSET Int /\ V # {} /\ \A d \in M : DecompositionEnergy(d, e) \in V
  BY <1>2
<1>6. \A v \in V : \E d \in M : v = DecompositionEnergy(d, e)
  OBVIOUS
<1>7. Lowest(M, e) = Min(V)
  BY DEF Lowest
<1> HIDE DEF V
<1>8. Min(V) \in V /\ \A v \in V : Min(V) <= v
  BY <1>4, <1>5, LeastOf
<1> QED
  BY <1>2, <1>5, <1>6, <1>7, <1>8

-------------------------------------------------------------------------------
(* The chain and the envelope give the same labels and energies.            *)

LEMMA FinalCallFacts ==
  ASSUME NEW s \in Evaluated
  PROVE  LET t == CallTemplate(s.xs, s.references)
             e == CallEnergies(s.truth, s.references) IN
         /\ t.xs = PhaseXs(s) /\ e = TrueEnergies(s) /\ t.references = Len(s.references)
         /\ IsTemplate(t, Extent(s)) /\ e \in [1..Extent(s) -> Int]
         /\ \A k \in Pool(s) :
              k \in Membership(s.xs, s.truth, s.references) <=> OnHull(t, e, At(s, k))
<1> DEFINE t == CallTemplate(s.xs, s.references)
           e == CallEnergies(s.truth, s.references)
<1>1. PICK r \in Nat, m \in Nat : r = Len(s.references) /\ m = Len(s.xs)
  BY SystemFacts
<1>2. /\ Complete(s.references, r) /\ Pool(s) = 1..m /\ Extent(s) = r + m
      /\ \A k \in Pool(s) : At(s, k) = r + k
  BY <1>1, OraclePoolFacts, SystemFacts DEF Extent, At
<1>3. s.xs \in [1..m -> Compositions] /\ s.truth \in [1..m -> Int]
  BY <1>2, SystemFacts
<1>4. t.xs = PhaseXs(s) /\ e = TrueEnergies(s)
  BY DEF CallTemplate, CallEnergies, Template, PhaseXs, TrueEnergies, XsOf, EsOf
<1> HIDE DEF t, e
<1>5. PICK references : references = s.references
  OBVIOUS
<1>6. PICK xs \in [1..m -> Compositions], answers \in [1..m -> Int] : xs = s.xs /\ answers = s.truth
  BY <1>3
<1>7. Complete(references, r)
  BY <1>2, <1>5
<1>8. LET u == CallTemplate(xs, references)  f == CallEnergies(answers, references) IN
        /\ u.references = r /\ IsTemplate(u, r + m) /\ f \in [1..(r + m) -> Int]
        /\ \A k \in 1..m : k \in Membership(xs, answers, references) <=> OnHull(u, f, r + k)
  BY <1>7, CallFacts, Zenon
<1>9. CallTemplate(xs, references) = t /\ CallEnergies(answers, references) = e
  BY <1>5, <1>6 DEF t, e
<1>10. /\ t.references = r /\ IsTemplate(t, r + m) /\ e \in [1..(r + m) -> Int]
       /\ \A k \in 1..m : k \in Membership(xs, answers, references) <=> OnHull(t, e, r + k)
  BY <1>8, <1>9
<1> QED
  BY <1>1, <1>2, <1>4, <1>5, <1>6, <1>10 DEF t, e

\* A member is worth as much as the complete hull, and whoever has a negative
\* margin is a member.
LEMMA MembersAndMargins ==
  ASSUME NEW s \in Evaluated, NEW k \in Pool(s)
  PROVE  LET member == Membership(s.xs, s.truth, s.references) IN
         /\ LeaveOneOutMargin(s.xs, s.truth, s.references, k) < 0 => k \in member
         /\ k \in member => LeaveOneOutMargin(s.xs, s.truth, s.references, k) <= 0
         /\ k \in member => Scale * s.truth[k] = HullOf(OraclePool(s), s.xs[k])
<1> DEFINE t == CallTemplate(s.xs, s.references)
           e == CallEnergies(s.truth, s.references)
           n == Extent(s)
           K == At(s, k)
           x == s.xs[k]
           member == Membership(s.xs, s.truth, s.references)
<1>1. /\ t.xs = PhaseXs(s) /\ e = TrueEnergies(s) /\ IsTemplate(t, n) /\ e \in [1..n -> Int]
      /\ k \in member <=> OnHull(t, e, K)
  BY FinalCallFacts
<1>2. n \in Nat /\ K \in 1..n /\ x \in Compositions
  BY SystemFacts
<1>3. t.xs[K] = x /\ e[K] = s.truth[k]
  BY <1>1, EnergiesFacts
<1>4. LeaveOneOutMargin(s.xs, s.truth, s.references, k) = Scale * e[K] - Lowest(Competing(s, k), e)
  BY <1>1, <1>3, MarginIs DEF Margin
<1>5. Competing(s, k) = {d \in Decompositions(t.xs, x) : K \notin DOMAIN d}
  BY <1>1 DEF Competing
<1>6. HullOf(OraclePool(s), x) = Envelope(t.xs, e, x)
  <2>1. Complete(OraclePool(s), n) /\ XsOf(OraclePool(s)) = PhaseXs(s) /\ EsOf(OraclePool(s)) = TrueEnergies(s)
    BY OraclePoolFacts
  <2>2. PICK phases : phases = OraclePool(s)
    OBVIOUS
  <2>3. HullOf(phases, x) = Envelope(XsOf(phases), EsOf(phases), x)
    BY <1>2, <2>1, <2>2, HullOfPhases
  <2> QED
    BY <1>1, <2>1, <2>2, <2>3
<1>7. Scale * e[K] \in Int
  BY <1>1, <1>2, EnergyAlone
<1>8. PICK M : M = Competing(s, k)
  OBVIOUS
<1>9. M \in SUBSET Shared(n) /\ IsFiniteSet(M) /\ M # {}
  BY <1>8, CompetingFacts
<1> HIDE DEF t, e, n, K, x, member
<1>10. /\ Lowest(M, e) \in Int
       /\ \E d \in M : DecompositionEnergy(d, e) = Lowest(M, e)
       /\ \A d \in M : DecompositionEnergy(d, e) \in Int /\ Lowest(M, e) <= DecompositionEnergy(d, e)
  BY <1>1, <1>2, <1>9, LowestIs
<1>11. OnHull(t, e, K) => Scale * e[K] = Envelope(t.xs, e, x)
  BY <1>1, <1>2, <1>3, OnHullFacts
<1>12. (\A d \in Decompositions(t.xs, x) :
          K \notin DOMAIN d => Scale * e[K] < DecompositionEnergy(d, e)) => OnHull(t, e, K)
  BY <1>1, <1>2, <1>3, OnHullFacts
<1>13. ASSUME LeaveOneOutMargin(s.xs, s.truth, s.references, k) < 0
       PROVE  k \in member
  <2>1. Scale * e[K] < Lowest(M, e)
    BY <1>4, <1>7, <1>8, <1>10, <1>13
  <2>2. \A d \in M : Scale * e[K] < DecompositionEnergy(d, e)
    BY <1>7, <1>10, <2>1
  <2> QED
    BY <1>1, <1>5, <1>8, <1>12, <2>2
<1>14. ASSUME k \in member
       PROVE  LeaveOneOutMargin(s.xs, s.truth, s.references, k) <= 0
  <2>1. Scale * e[K] = Envelope(t.xs, e, x)
    BY <1>1, <1>11, <1>14
  <2>2. PICK d \in M : DecompositionEnergy(d, e) = Lowest(M, e)
    BY <1>10
  <2>3. Envelope(t.xs, e, x) <= DecompositionEnergy(d, e)
    <3>1. PICK xs \in [1..n -> Compositions] : xs = t.xs
      BY <1>1 DEF IsTemplate
    <3>2. PICK a \in 1..n, b \in 1..n : Supports(xs, e, n, a, b, x)
      BY <1>1, <1>2, <3>1, HullIsEnvelope
    <3>3. \A q \in Decompositions(xs, x) : Envelope(xs, e, x) <= DecompositionEnergy(q, e)
      BY <1>1, <1>2, <3>2, SupportIsLowest
    <3> QED
      BY <1>5, <1>8, <2>2, <3>1, <3>3
  <2> QED
    BY <1>4, <1>7, <1>8, <1>10, <2>1, <2>2, <2>3
<1>15. ASSUME k \in member
       PROVE  Scale * s.truth[k] = HullOf(OraclePool(s), s.xs[k])
  BY <1>1, <1>3, <1>6, <1>11, <1>15 DEF x
<1> QED
  BY <1>13, <1>14, <1>15 DEF member

LEMMA OracleLabelsAreConfirmed ==
  ASSUME NEW s \in Evaluated, NEW k \in OracleLabels(s)
  PROVE  k \in Pool(s) /\ Scale * s.truth[k] = HullOf(OraclePool(s), s.xs[k])
<1> DEFINE phases == OraclePool(s)
           t == [xs |-> XsOf(phases), references |-> 0]
           n == Extent(s)
           K == At(s, k)
<1>1. k \in Pool(s) /\ K \in StableMask(t, EsOf(phases))
  BY DEF OracleLabels, StableEntries, XsOf, EsOf, At
<1>2. OnHull(t, EsOf(phases), K)
  BY <1>1 DEF StableMask, OnHull
<1>3. n \in Nat /\ K \in 1..n /\ Complete(phases, n) /\ phases[K] = Phase(s, k)
  BY <1>1, SystemFacts, OraclePoolFacts
<1>4. phases[K].x = s.xs[k] /\ phases[K].e = s.truth[k] /\ s.xs[k] \in Compositions
  BY <1>1, <1>3, SystemFacts DEF Phase
<1>5. t.xs = XsOf(phases)
  OBVIOUS
<1> HIDE DEF phases, n, K
<1>6. /\ EsOf(phases) \in [1..n -> Int] /\ IsTemplate(t, n)
      /\ XsOf(phases)[K] = phases[K].x /\ EsOf(phases)[K] = phases[K].e
  <2>1. IsTemplate(t, n)
    BY <1>3, CompleteFacts
  <2>2. EsOf(phases) \in [1..n -> Int]
    BY <1>3, TableFacts
  <2>3. XsOf(phases)[K] = phases[K].x /\ EsOf(phases)[K] = phases[K].e
    BY <1>3, TableFacts
  <2> QED
    BY <2>1, <2>2, <2>3
<1> HIDE DEF t
<1>7. Scale * EsOf(phases)[K] = Envelope(t.xs, EsOf(phases), t.xs[K])
  BY <1>2, <1>3, <1>6, OnHullFacts
<1>8. HullOf(phases, s.xs[k]) = Envelope(XsOf(phases), EsOf(phases), s.xs[k])
  BY <1>3, <1>4, HullOfPhases
<1> QED
  BY <1>1, <1>4, <1>5, <1>6, <1>7, <1>8 DEF phases

LEMMA AlgorithmsDoAgree ==
  ASSUME pool \in Evaluated, \A k \in ToSet(selected) : k \in Pool(pool)
  PROVE  AlgorithmsAgree
<1> DEFINE s == pool
           member == Membership(s.xs, s.truth, s.references)
<1>1. \A k \in Pool(s) : /\ LeaveOneOutMargin(s.xs, s.truth, s.references, k) < 0 => k \in member
                         /\ k \in member => LeaveOneOutMargin(s.xs, s.truth, s.references, k) <= 0
                         /\ k \in member => Scale * s.truth[k] = HullOf(OraclePool(s), s.xs[k])
  BY MembersAndMargins
<1>2. ASSUME NEW x \in EvaluationCompositions(s.xs, s.references)
      PROVE  FinalHull(s.xs, s.truth, s.references)[x] = CompetingHull(OraclePool(s), x)
  <2>1. x \in Compositions
    <3>1. ToSet(s.xs) \subseteq Compositions
      BY SystemFacts DEF ToSet, Pool
    <3>2. s.references \in [1..Len(s.references) -> PhaseRecord]
      BY OraclePoolFacts DEF Complete
    <3>3. \A p \in ToSet(s.references) : p.x \in Compositions
      BY <3>2 DEF ToSet, PhaseRecord
    <3> QED
      BY <3>1, <3>3 DEF EvaluationCompositions
  <2>2. FinalHull(s.xs, s.truth, s.references)[x] = HullOf(OraclePool(s), x)
    BY DEF FinalHull, OraclePool
  <2>3. Complete(OraclePool(s), Extent(s)) /\ Extent(s) \in Nat
    BY OraclePoolFacts, SystemFacts
  <2>4. PICK phases : phases = OraclePool(s)
    OBVIOUS
  <2>5. HullOf(phases, x) = Envelope(XsOf(phases), EsOf(phases), x)
    BY <2>1, <2>3, <2>4, HullOfPhases
  <2>6. CompetingHull(phases, x) = Envelope(XsOf(phases), EsOf(phases), x)
    BY DEF CompetingHull, Envelope, Lowest, XsOf, EsOf
  <2> QED
    BY <2>2, <2>4, <2>5, <2>6
<1>3. ASSUME NEW k \in ToSet(selected), k \in member \/ k \in OracleLabels(s)
      PROVE  k \in OracleConfirmed
  <2>1. k \in Pool(s)
    OBVIOUS
  <2>2. Scale * s.truth[k] = HullOf(OraclePool(s), s.xs[k])
    BY <1>1, <1>3, <2>1, OracleLabelsAreConfirmed
  <2>3. Scale * s.truth[k] \in Int
    BY <2>1, SystemFacts, GeometryAssumption
  <2>4. AboveHull(OraclePool(s), Phase(s, k)) = Scale * s.truth[k] - HullOf(OraclePool(s), s.xs[k])
    BY DEF AboveHull, Phase
  <2>5. AboveHull(OraclePool(s), Phase(s, k)) = 0
    BY <2>2, <2>3, <2>4
  <2> QED
    BY <2>5 DEF OracleConfirmed
<1> QED
  BY <1>1, <1>2, <1>3 DEF AlgorithmsAgree

-------------------------------------------------------------------------------
(* A reveal changes no other label.                                         *)

\* At every composition with an entry, the winner has the lowest energy.
WinnersAreLowest(t, e, n) ==
  \A x : (\E i \in 1..n : t.xs[i] = x) =>
           \E w \in 1..n : /\ w = Winner(t, e, x) /\ t.xs[w] = x
                           /\ \A k \in 1..n : t.xs[k] = x => e[w] <= e[k]

LEMMA LowestWins ==
  ASSUME NEW n \in Nat, NEW t, IsTemplate(t, n), NEW e \in [1..n -> Int]
  PROVE  WinnersAreLowest(t, e, n)
<1> SUFFICES ASSUME NEW x, \E i \in 1..n : t.xs[i] = x
             PROVE  \E w \in 1..n : /\ w = Winner(t, e, x) /\ t.xs[w] = x
                                    /\ \A k \in 1..n : t.xs[k] = x => e[w] <= e[k]
  BY DEF WinnersAreLowest
<1>1. /\ Winner(t, e, x) \in 1..n /\ t.xs[Winner(t, e, x)] = x
      /\ \A k \in 1..n : t.xs[k] = x => e[Winner(t, e, x)] <= e[k]
  BY WinnerFacts
<1> QED
  BY <1>1

\* Every entry of the first has a twin among the entries of the second.
Within(t, e, n, u, f, m) ==
  \A k \in 1..n : \E j \in 1..m : t.xs[k] = u.xs[j] /\ e[k] = f[j]

SamePhases(t, e, n, u, f, m) ==
  /\ n \in Nat /\ IsTemplate(t, n) /\ e \in [1..n -> Int]
  /\ m \in Nat /\ IsTemplate(u, m) /\ f \in [1..m -> Int]
  /\ Within(t, e, n, u, f, m) /\ Within(u, f, m, t, e, n)

LEMMA SameChain ==
  ASSUME NEW n, NEW t, NEW e, NEW m, NEW u, NEW f, SamePhases(t, e, n, u, f, m)
  PROVE  /\ LowerChain(t, e) = LowerChain(u, f)
         /\ \A k \in 1..n : e[Winner(t, e, t.xs[k])] = f[Winner(u, f, t.xs[k])]
<1> DEFINE X == {t.xs[k] : k \in 1..n}
<1> USE DEF SamePhases
<1>1. t.xs \in [1..n -> Compositions] /\ u.xs \in [1..m -> Compositions]
  BY DEF IsTemplate
<1>2. ToSet(t.xs) = X /\ ToSet(u.xs) = X
  <2>1. ToSet(t.xs) = X
    BY <1>1 DEF ToSet
  <2>2. ToSet(u.xs) = {u.xs[j] : j \in 1..m}
    BY <1>1 DEF ToSet
  <2>3. {u.xs[j] : j \in 1..m} = X
    <3>1. \A k \in 1..n : \E j \in 1..m : t.xs[k] = u.xs[j]
      BY DEF Within
    <3>2. \A j \in 1..m : \E k \in 1..n : u.xs[j] = t.xs[k]
      BY DEF Within
    <3>3. X \subseteq {u.xs[j] : j \in 1..m}
      BY <3>1
    <3>4. {u.xs[j] : j \in 1..m} \subseteq X
      BY <3>2
    <3> QED
      BY <3>3, <3>4
  <2> QED
    BY <2>1, <2>2, <2>3
<1>3. Elements \subseteq X
  BY DEF IsTemplate
<1>w. WinnersAreLowest(t, e, n) /\ WinnersAreLowest(u, f, m)
  BY LowestWins
<1>4. ASSUME NEW x \in X
      PROVE  e[Winner(t, e, x)] = f[Winner(u, f, x)] /\ e[Winner(t, e, x)] \in Int
  <2>1. PICK v \in 1..n : v = Winner(t, e, x) /\ t.xs[v] = x /\ \A k \in 1..n : t.xs[k] = x => e[v] <= e[k]
    <3>1. \E i \in 1..n : t.xs[i] = x
      BY <1>4
    <3> QED
      BY <1>w, <3>1 DEF WinnersAreLowest
  <2>2. \E j \in 1..m : u.xs[j] = x
    BY <2>1 DEF Within
  <2>3. PICK w \in 1..m : w = Winner(u, f, x) /\ u.xs[w] = x /\ \A k \in 1..m : u.xs[k] = x => f[w] <= f[k]
    BY <1>w, <2>2 DEF WinnersAreLowest
  <2>4. f[w] <= e[v]
    <3>1. PICK j \in 1..m : t.xs[v] = u.xs[j] /\ e[v] = f[j]
      BY DEF Within
    <3> QED
      BY <2>1, <2>3, <3>1
  <2>5. e[v] <= f[w]
    <3>1. PICK k \in 1..n : u.xs[w] = t.xs[k] /\ f[w] = e[k]
      BY DEF Within
    <3> QED
      BY <2>1, <2>3, <3>1
  <2>6. e[v] \in Int /\ f[w] \in Int
    OBVIOUS
  <2>7. e[v] = f[w]
    BY <2>4, <2>5, <2>6
  <2> QED
    BY <2>1, <2>3, <2>6, <2>7
<1>5. \A x \in X : Formation(t, e, x) = Formation(u, f, x)
  <2> TAKE x \in X
  <2>1. \A el \in Elements : e[Winner(t, e, el)] = f[Winner(u, f, el)]
    BY <1>3, <1>4
  <2>2. [el \in Elements |-> Amount(el, x) * e[Winner(t, e, el)]]
          = [el \in Elements |-> Amount(el, x) * f[Winner(u, f, el)]]
    BY <2>1
  <2> QED
    BY <1>4, <2>2 DEF Formation
<1> DEFINE A == ActiveCompositions(t, e)
<1>6. A = ActiveCompositions(u, f) /\ A \subseteq X
  BY <1>2, <1>3, <1>5 DEF ActiveCompositions
<1>7. A \in SUBSET Int /\ IsFiniteSet(A)
  <2>1. A \in SUBSET Compositions
    BY <1>1, <1>6
  <2>2. IsFiniteSet(Compositions)
    BY GeometryAssumption, FS_Interval DEF Compositions
  <2> HIDE DEF A
  <2> QED
    BY <2>1, <2>2, FS_Subset, PhaseIsPoint
<1> DEFINE ordered == InOrder(A)
<1>8. \A k \in DOMAIN ordered : ordered[k] \in X
  <2> HIDE DEF A
  <2>1. ordered \in [1..Cardinality(A) -> A]
    BY <1>7, InOrderFacts
  <2> HIDE DEF ordered
  <2> QED
    BY <1>6, <2>1
<1>9. LowerChain(t, e) = LowerChain(u, f)
  <2> DEFINE p == [k \in DOMAIN ordered |-> [x |-> ordered[k], e |-> e[Winner(t, e, ordered[k])]]]
             q == [k \in DOMAIN ordered |-> [x |-> ordered[k], e |-> f[Winner(u, f, ordered[k])]]]
  <2>1. LowerChain(t, e) = Chain(p)
    BY DEF LowerChain
  <2>2. LowerChain(u, f) = Chain(q)
    BY <1>6 DEF LowerChain
  <2> HIDE DEF ordered, A
  <2>3. p = q
    BY <1>4, <1>8
  <2> QED
    BY <2>1, <2>2, <2>3
<1> QED
  BY <1>4, <1>9

\* What decides between two entries of the same composition and energy.
LEMMA WinsAgainst ==
  ASSUME NEW n \in Nat, NEW t, IsTemplate(t, n), NEW e \in [1..n -> Int], NEW w \in 1..n,
         NEW j \in 1..n, j # w, t.xs[j] = t.xs[w], e[j] = e[w], w = Winner(t, e, t.xs[w])
  PROVE  NameBefore(t, w, j)
<1>1. \A k \in 1..n : t.xs[k] = t.xs[w] /\ k # w =>
        e[w] < e[k] \/ (e[w] = e[k] /\ NameBefore(t, w, k))
  <2>1. PICK x : x = t.xs[w]
    OBVIOUS
  <2>2. \E i \in 1..n : t.xs[i] = x
    BY <2>1
  <2>3. \A k \in 1..n : t.xs[k] = x /\ k # Winner(t, e, x) =>
          e[Winner(t, e, x)] < e[k] \/ (e[Winner(t, e, x)] = e[k] /\ NameBefore(t, Winner(t, e, x), k))
    BY <2>2, WinnerFacts, Zenon
  <2> QED
    BY <2>1, <2>3
<1>2. e[w] \in Int
  OBVIOUS
<1> QED
  BY <1>1, <1>2

LEMMA RevealsKeepLabels ==
  ASSUME TraceInvariant
  PROVE  RevealKeepsLabels
<1> DEFINE s == pool
           r == Len(s.references)
           N == Len(selected)
           rest == InOrder(Unselected)
           M == Cardinality(Unselected)
           n == Extent(s)
           t == CallTemplate(s.xs, s.references)
           e == CallEnergies(s.truth, s.references)
           xs == [i \in DOMAIN rest |-> s.xs[rest[i]]]
           es == [i \in DOMAIN rest |-> s.truth[rest[i]]]
           u == CallTemplate(xs, entries)
           f == CallEnergies(es, entries)
           B == r + N
<1>1. /\ s \in Evaluated /\ AnySeq(selected) /\ \A q \in 1..N : selected[q] \in Pool(s)
      /\ \A i \in 1..r : entries[i] = s.references[i]
      /\ \A q \in 1..N : entries[r + q] = Phase(s, selected[q])
  BY DEF TraceInvariant
<1>2. N \in Nat /\ r \in Nat /\ Complete(entries, B) /\ B \in Nat
  BY EntriesComplete
<1>3. /\ s.xs \in [Pool(s) -> Compositions] /\ s.truth \in [Pool(s) -> Int]
      /\ Pool(s) = 1..Len(s.xs) /\ Len(s.xs) \in Nat /\ n \in Nat
      /\ \A k \in Pool(s) : At(s, k) \in 1..n
  BY <1>1, SystemFacts
<1>4. ToSet(selected) = {selected[q] : q \in 1..N}
  BY <1>1, LenProperties DEF ToSet, AnySeq
<1>5. Unselected \in SUBSET Pool(s) /\ Unselected \in SUBSET Int /\ IsFiniteSet(Unselected)
  <2>1. Unselected \in SUBSET Pool(s)
    BY DEF Unselected
  <2>2. PICK m \in Nat : Pool(s) = 1..m
    BY <1>3
  <2>3. IsFiniteSet(1..m) /\ \A k \in 1..m : k \in Int
    BY FS_Interval
  <2>4. IsFiniteSet(Unselected)
    BY <2>1, <2>2, <2>3, FS_Subset
  <2> QED
    BY <2>1, <2>2, <2>3, <2>4
<1>6. /\ M \in Nat /\ rest \in [1..M -> Unselected]
      /\ \A i, j \in 1..M : i < j => rest[i] < rest[j]
      /\ \A k \in Unselected : \E i \in 1..M : rest[i] = k
  BY <1>5, InOrderFacts
<1>7. DOMAIN rest = 1..M
  BY <1>6
<1> HIDE DEF rest, M
<1>8. /\ xs \in [1..M -> Compositions] /\ es \in [1..M -> Int]
      /\ \A i \in 1..M : xs[i] = s.xs[rest[i]] /\ es[i] = s.truth[rest[i]]
  BY <1>3, <1>5, <1>6, <1>7
<1>9. /\ t.xs = PhaseXs(s) /\ e = TrueEnergies(s) /\ t.references = r
      /\ IsTemplate(t, n) /\ e \in [1..n -> Int]
      /\ \A k \in Pool(s) : k \in Membership(s.xs, s.truth, s.references) <=> OnHull(t, e, At(s, k))
  BY <1>1, FinalCallFacts
<1> DEFINE later == Membership(xs, es, entries)
<1> HIDE DEF xs, es, t, e, n, B, r, N
<1>10. /\ u.references = B /\ IsTemplate(u, B + M) /\ f \in [1..(B + M) -> Int]
       /\ \A i \in 1..B : u.xs[i] = entries[i].x /\ f[i] = entries[i].e
       /\ \A k \in 1..M : B + k \in 1..(B + M) /\ u.xs[B + k] = xs[k] /\ f[B + k] = es[k]
       /\ \A k \in 1..M : k \in later <=> OnHull(u, f, B + k)
  BY <1>2, <1>6, <1>8, CallFacts, Zenon
<1> HIDE DEF u, f, later
<1>11. \A i \in 1..r : i \in 1..n /\ t.xs[i] = s.references[i].x /\ e[i] = s.references[i].e
  BY <1>1, <1>9, EnergiesFacts, OraclePoolFacts DEF n, r
<1>12. \A k \in Pool(s) : At(s, k) \in 1..n /\ t.xs[At(s, k)] = s.xs[k] /\ e[At(s, k)] = s.truth[k]
  BY <1>1, <1>3, <1>9, EnergiesFacts
<1>13. \A q \in 1..N : /\ r + q \in 1..B /\ entries[r + q].x = s.xs[selected[q]]
                       /\ entries[r + q].e = s.truth[selected[q]]
  <2>1. \A q \in 1..N : r + q \in 1..B
    BY <1>2 DEF B
  <2>2. \A q \in 1..N : entries[r + q] = [x |-> s.xs[selected[q]], e |-> s.truth[selected[q]]]
    BY <1>1 DEF Phase
  <2>3. ASSUME NEW q \in 1..N
        PROVE  entries[r + q].x = s.xs[selected[q]] /\ entries[r + q].e = s.truth[selected[q]]
    <3>1. entries[r + q] = [x |-> s.xs[selected[q]], e |-> s.truth[selected[q]]]
      BY <2>2
    <3> QED
      BY <3>1
  <2> QED
    BY <2>1, <2>3
<1>14. \A i \in 1..r : i \in 1..B /\ entries[i] = s.references[i]
  <2>1. \A i \in 1..r : i \in 1..B
    BY <1>2 DEF B
  <2> QED
    BY <1>1, <2>1
<1>15. \A i \in 1..B : i \in 1..(B + M)
  BY <1>2, <1>6
<1>16. Within(u, f, B + M, t, e, n)
  <2> SUFFICES ASSUME NEW i \in 1..(B + M)
               PROVE  \E j \in 1..n : u.xs[i] = t.xs[j] /\ f[i] = e[j]
    BY DEF Within
  <2>1. CASE i \in 1..r
    BY <1>10, <1>11, <1>14, <2>1
  <2>2. CASE \E q \in 1..N : i = r + q
    BY <1>1, <1>10, <1>12, <1>13, <2>2
  <2>3. CASE \E k \in 1..M : i = B + k
    <3>1. PICK k \in 1..M : i = B + k
      BY <2>3
    <3>2. rest[k] \in Pool(s)
      BY <1>5, <1>6
    <3> QED
      BY <1>8, <1>10, <1>12, <3>1, <3>2
  <2>4. i \in 1..r \/ (\E q \in 1..N : i = r + q) \/ (\E k \in 1..M : i = B + k)
    <3>1. CASE i <= r
      BY <1>2, <1>6, <3>1
    <3>2. CASE r < i /\ i <= B
      <4>1. i - r \in 1..N /\ i = r + (i - r)
        BY <1>2, <3>2 DEF B
      <4> QED
        BY <4>1
    <3>3. CASE B < i
      <4>1. i - B \in 1..M /\ i = B + (i - B)
        BY <1>2, <1>6, <3>3
      <4> QED
        BY <4>1
    <3> QED
      BY <1>2, <3>1, <3>2, <3>3
  <2> QED
    BY <2>1, <2>2, <2>3, <2>4
<1>17. Within(t, e, n, u, f, B + M)
  <2> SUFFICES ASSUME NEW i \in 1..n
               PROVE  \E j \in 1..(B + M) : t.xs[i] = u.xs[j] /\ e[i] = f[j]
    BY DEF Within
  <2>1. CASE i \in 1..r
    BY <1>10, <1>11, <1>14, <1>15, <2>1
  <2>2. CASE \E k \in Pool(s) : i = At(s, k)
    <3>1. PICK k \in Pool(s) : i = At(s, k)
      BY <2>2
    <3>2. CASE k \in ToSet(selected)
      <4>1. PICK q \in 1..N : k = selected[q]
        BY <1>4, <3>2
      <4> QED
        BY <1>10, <1>12, <1>13, <1>15, <3>1, <4>1
    <3>3. CASE k \notin ToSet(selected)
      <4>1. k \in Unselected
        BY <3>3 DEF Unselected
      <4>2. PICK h \in 1..M : rest[h] = k
        BY <1>6, <4>1
      <4> QED
        BY <1>8, <1>10, <1>12, <3>1, <4>2
    <3> QED
      BY <3>2, <3>3
  <2>3. i \in 1..r \/ \E k \in Pool(s) : i = At(s, k)
    BY <1>1, PhaseIsOneOf DEF n, r
  <2> QED
    BY <2>1, <2>2, <2>3
<1>18. /\ LowerChain(t, e) = LowerChain(u, f)
       /\ \A k \in 1..n : e[Winner(t, e, t.xs[k])] = f[Winner(u, f, t.xs[k])]
  <2>1. B + M \in Nat
    BY <1>2, <1>6
  <2>2. SamePhases(t, e, n, u, f, B + M)
    BY <1>3, <1>9, <1>10, <1>16, <1>17, <2>1 DEF SamePhases
  <2> QED
    BY <2>2, SameChain
<1>w. WinnersAreLowest(u, f, B + M)
  <2>1. PICK m \in Nat : m = B + M
    BY <1>2, <1>6
  <2> QED
    BY <1>10, <2>1, LowestWins
<1>19. ASSUME NEW i \in 1..M
       PROVE  (i \in later) # (rest[i] \in Membership(s.xs, s.truth, s.references))
                => /\ \E j \in ToSet(selected) : s.xs[j] = s.xs[rest[i]] /\ s.truth[j] = s.truth[rest[i]]
                   /\ i \in later
  <2> DEFINE k == rest[i]
             K == At(s, k)
             L == B + i
             x == s.xs[k]
  <2>1. k \in Pool(s) /\ k \in Int
    BY <1>5, <1>6
  <2>2. /\ K \in 1..n /\ t.xs[K] = x /\ e[K] = s.truth[k]
        /\ L \in 1..(B + M) /\ u.xs[L] = x /\ f[L] = s.truth[k]
    BY <1>8, <1>10, <1>12, <2>1
  <2>3. (i \in later <=> OnHull(u, f, L)) /\ (k \in Membership(s.xs, s.truth, s.references) <=> OnHull(t, e, K))
    BY <1>9, <1>10, <2>1
  <2>4. K = r + k
    BY DEF At, r
  <2> HIDE DEF K, L, x, k
  <2>5. PICK w \in 1..n : /\ w = Winner(t, e, x) /\ t.xs[w] = x
                          /\ e[w] = f[Winner(u, f, x)]
    <3>1. \E h \in 1..n : t.xs[h] = x
      BY <2>2
    <3>2. Winner(t, e, x) \in 1..n /\ t.xs[Winner(t, e, x)] = x
      <4>1. IsTemplate(t, n) /\ e \in [1..n -> Int] /\ n \in Nat
        BY <1>3, <1>9
      <4> QED
        BY <3>1, <4>1, WinnerFacts
    <3> QED
      BY <1>18, <2>2, <3>2
  <2>6. PICK v \in 1..(B + M) : v = Winner(u, f, x) /\ u.xs[v] = x
    <3>1. \E h \in 1..(B + M) : u.xs[h] = x
      BY <2>2
    <3> QED
      BY <1>w, <3>1 DEF WinnersAreLowest
  <2>7. PICK on : /\ OnHull(t, e, K) <=> on /\ w = K
                  /\ OnHull(u, f, L) <=> on /\ v = L
    <3>1. OnHull(t, e, K) <=> (\E p \in ToSet(LowerChain(t, e)) : p.x = x) /\ w = K
      BY <2>2, <2>5 DEF OnHull
    <3>2. OnHull(u, f, L) <=> (\E p \in ToSet(LowerChain(t, e)) : p.x = x) /\ v = L
      BY <1>18, <2>2, <2>6 DEF OnHull
    <3> QED
      BY <3>1, <3>2
  <2>8. w = K => v = L
    <3> SUFFICES ASSUME w = K, v # L
                 PROVE  FALSE
      OBVIOUS
    <3>1. NameBefore(u, v, L)
      <4>1. B + M \in Nat /\ u.xs[L] = u.xs[v] /\ f[L] = f[v] /\ v = Winner(u, f, u.xs[v])
        BY <1>2, <1>6, <2>2, <2>5, <2>6
      <4> QED
        BY <1>10, <2>2, <4>1, WinsAgainst
    <3>2. L > B
      BY <1>2, <2>2 DEF L
    <3>3. v > B /\ v < L
      BY <1>10, <3>1, <3>2 DEF NameBefore
    <3>4. PICK h \in 1..M : v = B + h /\ h < i
      <4>1. v - B \in 1..M /\ v = B + (v - B) /\ v - B < i
        BY <1>2, <1>6, <3>3 DEF L
      <4> QED
        BY <4>1
    <3>5. rest[h] < k /\ rest[h] \in Pool(s) /\ rest[h] \in Int
      BY <1>5, <1>6, <3>4 DEF k
    <3>6. s.xs[rest[h]] = x /\ s.truth[rest[h]] = f[v]
      BY <1>8, <1>10, <2>6, <3>4
    <3>7. PICK H \in 1..n : H = At(s, rest[h]) /\ t.xs[H] = x /\ e[H] = f[v]
      BY <1>12, <3>5, <3>6
    <3>8. H = r + rest[h] /\ H < K
      BY <1>2, <2>1, <2>4, <3>5, <3>7 DEF At, r
    <3>9. NameBefore(t, K, H)
      <4>1. H # K /\ t.xs[H] = t.xs[K] /\ e[H] = e[K] /\ K = Winner(t, e, t.xs[K])
        BY <2>2, <2>5, <2>6, <3>7, <3>8
      <4> QED
        BY <1>3, <1>9, <2>2, <4>1, WinsAgainst
    <3>10. H > r /\ K > r
      BY <1>2, <1>3, <2>1, <2>4, <3>5, <3>8
    <3> QED
      BY <1>9, <3>8, <3>9, <3>10 DEF NameBefore
  <2>9. ASSUME v = L, w # K
        PROVE  \E j \in ToSet(selected) : s.xs[j] = s.xs[rest[i]] /\ s.truth[j] = s.truth[rest[i]]
    <3>1. NameBefore(t, w, K)
      <4>1. t.xs[K] = t.xs[w] /\ e[K] = e[w] /\ w = Winner(t, e, t.xs[w]) /\ K # w
        BY <2>2, <2>5, <2>6, <2>9
      <4> QED
        BY <1>3, <1>9, <2>2, <4>1, WinsAgainst
    <3>2. K > r
      BY <1>2, <1>3, <2>1, <2>4
    <3>3. w > r /\ w < K
      BY <1>9, <3>1, <3>2 DEF NameBefore
    <3>4. PICK j \in Pool(s) : w = At(s, j)
      <4>1. w \in 1..r \/ \E j \in Pool(s) : w = At(s, j)
        BY <1>1, PhaseIsOneOf DEF n, r
      <4> QED
        BY <1>2, <3>3, <4>1
    <3>5. j < k /\ j \in Int /\ s.xs[j] = x /\ s.truth[j] = s.truth[k]
      <4>1. w = r + j /\ j \in Int
        BY <1>3, <3>4 DEF At, r
      <4>2. s.xs[j] = t.xs[w] /\ s.truth[j] = e[w]
        BY <1>12, <3>4
      <4> QED
        BY <1>2, <2>1, <2>2, <2>4, <2>5, <2>6, <2>9, <3>3, <4>1, <4>2
    <3>6. j \in ToSet(selected)
      <4> SUFFICES ASSUME j \notin ToSet(selected)
                   PROVE  FALSE
        OBVIOUS
      <4>1. PICK h \in 1..M : rest[h] = j
        BY <1>6 DEF Unselected
      <4>2. h < i
        <5>1. i < h => k < j
          BY <1>6, <4>1 DEF k
        <5>2. i # h
          BY <2>1, <3>5, <4>1 DEF k
        <5> QED
          BY <1>6, <2>1, <3>5, <5>1, <5>2
      <4>3. PICK H \in 1..(B + M) : H = B + h /\ u.xs[H] = x /\ f[H] = s.truth[k]
        BY <1>8, <1>10, <3>5, <4>1
      <4>4. NameBefore(u, L, H)
        <5>1. H # L /\ u.xs[H] = u.xs[L] /\ f[H] = f[L] /\ L = Winner(u, f, u.xs[L])
          BY <1>2, <2>2, <2>6, <2>9, <4>2, <4>3 DEF L
        <5>2. B + M \in Nat
          BY <1>2, <1>6
        <5> QED
          BY <1>10, <2>2, <5>1, <5>2, WinsAgainst
      <4>5. H > B /\ L > B /\ H < L
        BY <1>2, <4>2, <4>3 DEF L
      <4>6. u.references = B /\ L \in Int /\ H \in Int /\ B \in Int
        BY <1>2, <1>10, <2>2, <4>3
      <4>7. (L > B) = (H > B)
        BY <4>5
      <4>8. L < H
        BY <4>4, <4>6, <4>7 DEF NameBefore
      <4> QED
        BY <4>5, <4>6, <4>8
    <3> QED
      BY <3>5, <3>6 DEF x, k
  <2> QED
    BY <2>3, <2>7, <2>8, <2>9 DEF k
<1>20. RevealKeepsLabels <=>
         \A i \in DOMAIN rest :
           (i \in later) # (rest[i] \in Membership(s.xs, s.truth, s.references))
             => /\ \E j \in ToSet(selected) : s.xs[j] = s.xs[rest[i]] /\ s.truth[j] = s.truth[rest[i]]
                /\ i \in later
  BY DEF RevealKeepsLabels, rest, later, xs, es
<1> QED
  BY <1>7, <1>19, <1>20

\* Whatever the trace of a campaign: the evaluator does not raise, the chain and
\* the envelope of all decompositions give the same labels and energies, and a
\* reveal changes the label of another query only where the two tie.
THEOREM EvaluationAgreesAlways == EvaluationSpec => []EvaluationAgrees
<1>1. TraceInvariant => EvaluationAgrees
  <2> SUFFICES ASSUME TraceInvariant
               PROVE  EvaluationAgrees
    OBVIOUS
  <2>1. pool \in Evaluated /\ \A k \in ToSet(selected) : k \in Pool(pool)
    BY LenProperties DEF TraceInvariant, AnySeq, ToSet
  <2> QED
    BY <2>1, EvaluatorNeverRaises, AlgorithmsDoAgree, RevealsKeepLabels DEF EvaluationAgrees
<1> QED
  BY <1>1, TraceInvariantHolds, PTL

===============================================================================

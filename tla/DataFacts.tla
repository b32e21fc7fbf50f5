------------------------------ MODULE DataFacts -------------------------------
(***************************************************************************)
(* Facts about data that the proofs of several components need: induction  *)
(* over the numbers and the sums of the community modules, and sequences   *)
(* whose elements have no set of their own to range over (records that     *)
(* carry digests of earlier records).                                      *)
(***************************************************************************)
EXTENDS Integers, Functions, FiniteSetsExt, FiniteSetTheorems, SequenceTheorems,
        WellFoundedInduction, TLAPS

\* The numbers have a smallest one.
LEMMA SmallestNumber ==
  ASSUME NEW T, T \subseteq Nat, T # {}
  PROVE  \E m \in T : \A k \in T : m <= k
<1> DEFINE R == {p \in Nat \X Nat : p[1] < p[2]}
<1>1. IsWellFoundedOn(R, Nat)
  BY NatLessThanWellFounded DEF OpToRel
<1>2. \A x, y \in Nat : x < y => <<x, y>> \in R
  OBVIOUS
<1> HIDE DEF R
<1>3. PICK x \in T : \A y \in T : ~ (<<y, x>> \in R)
  BY <1>1, WFMin
<1>4. ASSUME NEW y \in T
      PROVE  x <= y
  <2>1. x \in Nat /\ y \in Nat /\ ~(<<y, x>> \in R)
    BY <1>3
  <2>2. ~(y < x)
    BY <1>2, <2>1, Zenon
  <2> QED
    BY <2>1, <2>2
<1> QED
  BY <1>4

\* Induction, with the set of the numbers it holds for in place of a predicate.
LEMMA NumberInduction ==
  ASSUME NEW P, 0 \in P, \A n \in Nat : n \in P => n + 1 \in P
  PROVE  \A n \in Nat : n \in P
<1> SUFFICES ASSUME Nat \ P # {}
             PROVE  FALSE
  OBVIOUS
<1>1. PICK m \in Nat \ P : \A k \in Nat \ P : m <= k
  BY SmallestNumber
<1>2. m # 0
  OBVIOUS
<1>3. m - 1 \in Nat /\ ~(m <= m - 1) /\ (m - 1) + 1 = m
  BY <1>2
<1>4. m - 1 \in P
  BY <1>1, <1>3
<1> QED
  BY <1>3, <1>4

\* A function that is repeated on what it gives is defined at every number.
LEMMA RepeatExists ==
  ASSUME NEW S, NEW step \in [S -> S], NEW x \in S
  PROVE  \E g \in [Nat -> S] : g = [n \in Nat |-> IF n = 0 THEN x ELSE step[g[n - 1]]]
<1> DEFINE Starts(f, n) == f[0] = x /\ \A i \in 0..n : i # 0 => f[i] = step[f[i - 1]]
           P == {n \in Nat : \E f \in [0..n -> S] : Starts(f, n)}
           Q == {n \in Nat : \A f, h : Starts(f, n) /\ Starts(h, n) => f[n] = h[n]}
<1>1. \A n \in Nat : n \in P
  <2>1. 0 \in P
    <3>1. [i \in 0..0 |-> x] \in [0..0 -> S] /\ Starts([i \in 0..0 |-> x], 0)
      OBVIOUS
    <3> QED
      BY <3>1
  <2>2. ASSUME NEW n \in Nat, n \in P
        PROVE  n + 1 \in P
    <3>1. PICK f \in [0..n -> S] : Starts(f, n)
      BY <2>2
    <3> DEFINE h == [i \in 0..(n + 1) |-> IF i = n + 1 THEN step[f[n]] ELSE f[i]]
    <3>2. h \in [0..(n + 1) -> S]
      OBVIOUS
    <3>3. Starts(h, n + 1)
      BY <3>1
    <3> HIDE DEF h
    <3> QED
      BY <3>2, <3>3
  <2> HIDE DEF P
  <2> QED
    BY <2>1, <2>2, NumberInduction
<1>2. \A n \in Nat : n \in Q
  <2>1. 0 \in Q
    OBVIOUS
  <2>2. ASSUME NEW n \in Nat, n \in Q
        PROVE  n + 1 \in Q
    <3>1. ASSUME NEW f, NEW h, Starts(f, n + 1), Starts(h, n + 1)
          PROVE  f[n + 1] = h[n + 1]
      <4>1. Starts(f, n) /\ Starts(h, n)
        BY <3>1
      <4>2. f[n] = h[n]
        BY <2>2, <4>1
      <4>3. f[n + 1] = step[f[n]] /\ h[n + 1] = step[h[n]]
        BY <3>1
      <4> QED
        BY <4>2, <4>3
    <3> QED
      BY <3>1
  <2> HIDE DEF Q
  <2> QED
    BY <2>1, <2>2, NumberInduction
<1> DEFINE run(n) == CHOOSE f \in [0..n -> S] : Starts(f, n)
           g == [n \in Nat |-> run(n)[n]]
<1>3. \A n \in Nat : run(n) \in [0..n -> S] /\ Starts(run(n), n)
  BY <1>1
<1>4. ASSUME NEW n \in Nat, n # 0
      PROVE  g[n] = step[g[n - 1]]
  <2>1. n - 1 \in Nat
    BY <1>4
  <2>2. Starts(run(n), n) /\ Starts(run(n - 1), n - 1)
    BY <1>3, <2>1
  <2> HIDE DEF run
  <2>3. Starts(run(n), n - 1) /\ run(n)[n] = step[run(n)[n - 1]]
    BY <1>4, <2>2
  <2>4. run(n)[n - 1] = run(n - 1)[n - 1]
    BY <1>2, <2>1, <2>2, <2>3
  <2> QED
    BY <2>1, <2>3, <2>4
<1> HIDE DEF run
<1>5. g[0] = x /\ g \in [Nat -> S]
  BY <1>3
<1>6. g = [n \in Nat |-> IF n = 0 THEN x ELSE step[g[n - 1]]]
  BY <1>4, <1>5
<1> HIDE DEF g
<1> QED
  BY <1>5, <1>6

\* The element SumFunctionOnSet takes first.
Choice(s) == CHOOSE x \in s : TRUE

\* `g` sums F over every set of D, as SumFunctionOnSet does.
Sums(F, D, g) ==
  g = [s \in D |-> IF s = {} THEN 0 ELSE F[Choice(s)] + g[s \ {Choice(s)}]]

\* What SumFunctionOnSet means in these terms.
LEMMA SumDef ==
  ASSUME NEW F, NEW S
  PROVE  SumFunctionOnSet(F, S) = (CHOOSE g : Sums(F, SUBSET S, g))[S]
  BY DEF SumFunctionOnSet, FoldFunctionOnSet, MapThenFoldSet, Sums, Choice

\* A set without one of its elements is smaller by one.
LEMMA Without ==
  ASSUME NEW s, IsFiniteSet(s), s # {}
  PROVE  /\ Choice(s) \in s /\ IsFiniteSet(s \ {Choice(s)})
         /\ Cardinality(s \ {Choice(s)}) = Cardinality(s) - 1
         /\ Cardinality(s) \in Nat \ {0}
<1>1. Choice(s) \in s
  BY DEF Choice
<1>2. Cardinality(s) \in Nat /\ (Cardinality(s) = 0 <=> s = {})
  BY FS_EmptySet, FS_CardinalityType
<1>3. /\ IsFiniteSet(s \ {Choice(s)})
      /\ Cardinality(s \ {Choice(s)}) = Cardinality(s) - 1
  BY <1>1, FS_RemoveElement
<1> QED
  BY <1>1, <1>2, <1>3

\* SumFunctionOnSet is defined on every finite set.
LEMMA SumExists ==
  ASSUME NEW F, NEW S, IsFiniteSet(S)
  PROVE  \E g : Sums(F, SUBSET S, g)
<1> DEFINE D(n) == {s \in SUBSET S : Cardinality(s) <= n}
           P == {n \in Nat : \E g : Sums(F, D(n), g)}
<1>1. 0 \in P
  <2>1. \A s \in D(0) : s = {}
    BY FS_Subset, FS_EmptySet, FS_CardinalityType
  <2>2. Sums(F, D(0), [s \in D(0) |-> 0])
    BY <2>1 DEF Sums
  <2> QED
    BY <2>2
<1>2. ASSUME NEW n \in Nat, n \in P
      PROVE  n + 1 \in P
  <2>1. PICK g : Sums(F, D(n), g)
    BY <1>2
  <2> DEFINE h == [s \in D(n + 1) |-> IF s = {} THEN 0
                                      ELSE F[Choice(s)] + g[s \ {Choice(s)}]]
  <2>2. ASSUME NEW s \in D(n + 1), s # {}
        PROVE  h[s \ {Choice(s)}] = g[s \ {Choice(s)}]
    <3> DEFINE t == s \ {Choice(s)}
    <3>1. IsFiniteSet(s) /\ Cardinality(s) <= n + 1
      BY FS_Subset
    <3>2. Cardinality(t) = Cardinality(s) - 1 /\ Cardinality(s) \in Nat
      BY <2>2, <3>1, Without
    <3>3. t \in D(n) /\ t \in D(n + 1)
      BY <3>1, <3>2
    <3>4. g[t] = IF t = {} THEN 0 ELSE F[Choice(t)] + g[t \ {Choice(t)}]
      BY <2>1, <3>3 DEF Sums
    <3> HIDE DEF t
    <3>5. h[t] = IF t = {} THEN 0 ELSE F[Choice(t)] + g[t \ {Choice(t)}]
      BY <3>3
    <3> QED
      BY <3>4, <3>5 DEF t
  <2> HIDE DEF D
  <2>3. h = [s \in D(n + 1) |-> IF s = {} THEN 0 ELSE F[Choice(s)] + h[s \ {Choice(s)}]]
    BY <2>2
  <2>4. Sums(F, D(n + 1), h)
    <3> HIDE DEF h
    <3> QED
      BY <2>3 DEF Sums
  <2> QED
    BY <2>4
<1> HIDE DEF P
<1>3. \A n \in Nat : n \in P
  BY <1>1, <1>2, NumberInduction
<1>4. Cardinality(S) \in Nat /\ D(Cardinality(S)) = SUBSET S
  BY FS_CardinalityType, FS_Subset
<1> HIDE DEF D
<1>5. Cardinality(S) \in P
  BY <1>3, <1>4
<1> QED
  BY <1>4, <1>5 DEF P

\* What it sums does not depend on the set it was defined over.
LEMMA SumsAgree ==
  ASSUME NEW F, NEW S, NEW T, NEW g, NEW h, IsFiniteSet(S), T \subseteq S,
         Sums(F, SUBSET S, g), Sums(F, SUBSET T, h)
  PROVE  \A s \in SUBSET T : g[s] = h[s]
<1> DEFINE P == {n \in Nat : \A s \in SUBSET T : Cardinality(s) = n => g[s] = h[s]}
<1>1. ASSUME NEW s \in SUBSET T
      PROVE  /\ IsFiniteSet(s) /\ Cardinality(s) \in Nat /\ (Cardinality(s) = 0 <=> s = {})
             /\ g[s] = (IF s = {} THEN 0 ELSE F[Choice(s)] + g[s \ {Choice(s)}])
             /\ h[s] = (IF s = {} THEN 0 ELSE F[Choice(s)] + h[s \ {Choice(s)}])
  <2>1. IsFiniteSet(s) /\ Cardinality(s) \in Nat /\ (Cardinality(s) = 0 <=> s = {})
    BY FS_Subset, FS_CardinalityType, FS_EmptySet
  <2>2. s \in SUBSET S
    OBVIOUS
  <2> QED
    BY <2>1, <2>2 DEF Sums
<1>2. 0 \in P
  BY <1>1
<1>3. ASSUME NEW n \in Nat, n \in P
      PROVE  n + 1 \in P
  <2> SUFFICES ASSUME NEW s \in SUBSET T, Cardinality(s) = n + 1
               PROVE  g[s] = h[s]
    OBVIOUS
  <2>1. IsFiniteSet(s) /\ s # {}
    <3>1. IsFiniteSet(s) /\ (Cardinality(s) = 0 <=> s = {})
      BY <1>1
    <3>2. Cardinality(s) # 0
      OBVIOUS
    <3> QED
      BY <3>1, <3>2
  <2>2. Cardinality(s \ {Choice(s)}) = n /\ s \ {Choice(s)} \in SUBSET T
    <3>1. Cardinality(s \ {Choice(s)}) = Cardinality(s) - 1
      BY <2>1, Without
    <3> QED
      BY <3>1
  <2>3. g[s \ {Choice(s)}] = h[s \ {Choice(s)}]
    BY <1>3, <2>2
  <2> QED
    BY <1>1, <2>1, <2>3
<1> HIDE DEF P
<1>4. \A n \in Nat : n \in P
  BY <1>2, <1>3, NumberInduction
<1> QED
  BY <1>1, <1>4 DEF P

\* Summing the rest of a set takes nothing but the rest.
LEMMA RestAgrees ==
  ASSUME NEW F, NEW S, NEW T, NEW g, NEW h, IsFiniteSet(S), T \subseteq S,
         Sums(F, SUBSET S, g), Sums(F, SUBSET T, h)
  PROVE  g[T] = h[T]
<1>1. T \in SUBSET T
  OBVIOUS
<1>2. \A s \in SUBSET T : g[s] = h[s]
  BY SumsAgree
<1> QED
  BY <1>1, <1>2

\* A sum adds the elements one by one, the chosen one first.
LEMMA SumStep ==
  ASSUME NEW F, NEW S, IsFiniteSet(S)
  PROVE  SumFunctionOnSet(F, S) =
           IF S = {} THEN 0
           ELSE F[Choice(S)] + SumFunctionOnSet(F, S \ {Choice(S)})
<1>1. PICK rest : rest = S \ {Choice(S)} /\ rest \subseteq S
  OBVIOUS
<1>2. IsFiniteSet(rest)
  BY <1>1, FS_Subset
<1>3. PICK g : Sums(F, SUBSET S, g) /\ SumFunctionOnSet(F, S) = g[S]
  BY SumExists, SumDef
<1>4. PICK h : Sums(F, SUBSET rest, h) /\ SumFunctionOnSet(F, rest) = h[rest]
  BY <1>2, SumExists, SumDef
<1>5. g[S] = IF S = {} THEN 0 ELSE F[Choice(S)] + g[rest]
  BY <1>1, <1>3 DEF Sums
<1>6. g[rest] = h[rest]
  <2>1. rest \subseteq S /\ IsFiniteSet(S) /\ Sums(F, SUBSET S, g) /\ Sums(F, SUBSET rest, h)
    BY <1>1, <1>3, <1>4
  <2> QED
    BY <2>1, RestAgrees
<1> QED
  BY <1>1, <1>3, <1>4, <1>5, <1>6

\* A sum is a number, and one more element adds its value.
LEMMA SumAdds ==
  ASSUME NEW D, NEW F \in [D -> Int], NEW S \in SUBSET D, IsFiniteSet(S)
  PROVE  /\ SumFunctionOnSet(F, S) \in Int
         /\ \A x \in S : SumFunctionOnSet(F, S) = F[x] + SumFunctionOnSet(F, S \ {x})
<1> DEFINE Sum(T) == SumFunctionOnSet(F, T)
           Good(T) == Sum(T) \in Int /\ \A x \in T : Sum(T) = F[x] + Sum(T \ {x})
           P == {n \in Nat : \A T \in SUBSET S : Cardinality(T) = n => Good(T)}
<1>1. ASSUME NEW T \in SUBSET S
      PROVE  /\ IsFiniteSet(T) /\ Cardinality(T) \in Nat /\ (Cardinality(T) = 0 <=> T = {})
             /\ Sum(T) = IF T = {} THEN 0 ELSE F[Choice(T)] + Sum(T \ {Choice(T)})
  BY FS_Subset, FS_CardinalityType, FS_EmptySet, SumStep
<1> HIDE DEF Sum
<1>5. \A T \in SUBSET S : Sum(T) \in Int
  <2> DEFINE Q == {n \in Nat : \A T \in SUBSET S : Cardinality(T) = n => Sum(T) \in Int}
  <2>1. 0 \in Q
    <3>1. ASSUME NEW T \in SUBSET S, Cardinality(T) = 0
          PROVE  Sum(T) \in Int
      <4>1. T = {} /\ Sum(T) = 0
        BY <1>1, <3>1
      <4> QED
        BY <4>1
    <3> QED
      BY <3>1
  <2>2. ASSUME NEW n \in Nat, n \in Q, NEW T \in SUBSET S, Cardinality(T) = n + 1
        PROVE  Sum(T) \in Int
    <3>1. IsFiniteSet(T) /\ T # {}
      <4>1. IsFiniteSet(T) /\ (Cardinality(T) = 0 <=> T = {})
        BY <1>1
      <4>2. Cardinality(T) # 0
        BY <2>2
      <4> QED
        BY <4>1, <4>2
    <3>2. Choice(T) \in T /\ Cardinality(T \ {Choice(T)}) = Cardinality(T) - 1
      BY <3>1, Without
    <3>3. Cardinality(T \ {Choice(T)}) = n /\ T \ {Choice(T)} \in SUBSET S
      BY <2>2, <3>2
    <3>4. Sum(T \ {Choice(T)}) \in Int /\ F[Choice(T)] \in Int
      BY <2>2, <3>2, <3>3
    <3>5. Sum(T) = F[Choice(T)] + Sum(T \ {Choice(T)})
      BY <1>1, <3>1
    <3> QED
      BY <3>4, <3>5
  <2>3. \A n \in Nat : n \in Q => n + 1 \in Q
    BY <2>2
  <2> HIDE DEF Q
  <2>4. \A n \in Nat : n \in Q
    BY <2>1, <2>3, NumberInduction
  <2> QED
    BY <1>1, <2>4 DEF Q
<1>2. 0 \in P
  <2>1. ASSUME NEW T \in SUBSET S, Cardinality(T) = 0
        PROVE  Good(T)
    <3>1. T = {} /\ Sum(T) = 0
      BY <1>1, <2>1
    <3> QED
      BY <3>1
  <2> QED
    BY <2>1
<1>3. ASSUME NEW n \in Nat, n \in P
      PROVE  n + 1 \in P
  <2> SUFFICES ASSUME NEW T \in SUBSET S, Cardinality(T) = n + 1
               PROVE  Good(T)
    OBVIOUS
  <2> DEFINE c == Choice(T)
  <2>1. IsFiniteSet(T) /\ T # {}
    <3>1. IsFiniteSet(T) /\ (Cardinality(T) = 0 <=> T = {})
      BY <1>1
    <3>2. Cardinality(T) # 0
      OBVIOUS
    <3> QED
      BY <3>1, <3>2
  <2>2. c \in T /\ Cardinality(T \ {c}) = n /\ T \ {c} \in SUBSET S
    <3>1. c \in T /\ Cardinality(T \ {c}) = Cardinality(T) - 1
      BY <2>1, Without
    <3> QED
      BY <3>1
  <2>3. Sum(T) = F[c] + Sum(T \ {c})
    BY <1>1, <2>1
  <2>4. Good(T \ {c})
    BY <1>3, <2>2
  <2> HIDE DEF c
  <2>5. F[c] \in Int /\ Sum(T \ {c}) \in Int /\ Sum(T) \in Int
    BY <1>5, <2>2, <2>4
  <2>6. ASSUME NEW x \in T, x # c
        PROVE  Sum(T) = F[x] + Sum(T \ {x})
    <3>1. Sum(T \ {c}) = F[x] + Sum((T \ {c}) \ {x})
      BY <2>4, <2>6
    <3>2. Cardinality(T \ {x}) = n /\ T \ {x} \in SUBSET S
      <4>1. Cardinality(T \ {x}) = Cardinality(T) - 1
        BY <2>1, FS_RemoveElement
      <4> QED
        BY <4>1
    <3>3. Good(T \ {x})
      BY <1>3, <3>2
    <3>4. Sum(T \ {x}) = F[c] + Sum((T \ {x}) \ {c})
      BY <2>2, <2>6, <3>3
    <3>5. (T \ {x}) \ {c} = (T \ {c}) \ {x}
      OBVIOUS
    <3>6. Sum((T \ {c}) \ {x}) \in Int /\ F[x] \in Int
      <4>1. /\ Cardinality((T \ {c}) \ {x}) \in Nat /\ (T \ {c}) \ {x} \in SUBSET S
            /\ IsFiniteSet(T \ {c})
        BY <1>1, <2>2
      <4>2. Sum((T \ {c}) \ {x}) \in Int
        BY <1>5, <4>1
      <4> QED
        BY <4>2
    <3>7. Sum(T \ {x}) = F[c] + Sum((T \ {c}) \ {x})
      BY <3>4, <3>5
    <3> HIDE DEF Good
    <3> QED
      BY <2>3, <2>5, <3>1, <3>6, <3>7
  <2>7. \A x \in T : Sum(T) = F[x] + Sum(T \ {x})
    BY <2>3, <2>6
  <2> QED
    BY <2>5, <2>7
<1> HIDE DEF P
<1>4. \A n \in Nat : n \in P
  BY <1>2, <1>3, NumberInduction
<1>6. Good(S)
  BY <1>1, <1>4 DEF P
<1> QED
  BY <1>6 DEF Sum

\* A sum is made of the values on its set, whatever the functions do elsewhere.
LEMMA SumSame ==
  ASSUME NEW F, NEW G, NEW S, IsFiniteSet(S), \A x \in S : F[x] = G[x]
  PROVE  SumFunctionOnSet(F, S) = SumFunctionOnSet(G, S)
<1>1. PICK g : Sums(F, SUBSET S, g) /\ SumFunctionOnSet(F, S) = g[S]
  BY SumExists, SumDef
<1>2. PICK h : Sums(G, SUBSET S, h) /\ SumFunctionOnSet(G, S) = h[S]
  BY SumExists, SumDef
<1>3. \A s \in SUBSET S : s # {} => F[Choice(s)] = G[Choice(s)]
  <2> TAKE s \in SUBSET S
  <2> HAVE s # {}
  <2>1. Choice(s) \in s
    BY DEF Choice
  <2> QED
    BY <2>1
<1>4. Sums(F, SUBSET S, h)
  BY <1>2, <1>3 DEF Sums
<1>5. S \subseteq S
  OBVIOUS
<1> QED
  BY <1>1, <1>2, <1>4, <1>5, RestAgrees

\* The sum over a set and one more element, by functions of their own.
LEMMA SumGrows ==
  ASSUME NEW D, NEW F \in [D -> Int], NEW E, NEW G \in [E -> Int], NEW S \in SUBSET E,
         NEW x \in D \ S, S \subseteq D, IsFiniteSet(S), \A y \in S : F[y] = G[y]
  PROVE  SumFunctionOnSet(F, S \union {x}) = F[x] + SumFunctionOnSet(G, S)
<1> DEFINE T == S \union {x}
<1>1. x \in T /\ T \in SUBSET D /\ T \ {x} = S
  OBVIOUS
<1>2. IsFiniteSet(T)
  BY FS_AddElement
<1> HIDE DEF T
<1>3. SumFunctionOnSet(F, T) = F[x] + SumFunctionOnSet(F, T \ {x})
  BY <1>1, <1>2, SumAdds
<1>4. SumFunctionOnSet(F, S) = SumFunctionOnSet(G, S)
  BY SumSame
<1>5. SumFunctionOnSet(F, T) = F[x] + SumFunctionOnSet(G, S)
  BY <1>1, <1>3, <1>4, Zenon
<1> QED
  BY <1>5 DEF T

\* Multiplication distributes; stated apart, for sums to be multiplied.
LEMMA Distributes == \A a, b, c \in Int : a * (b + c) = a * b + a * c /\ a * b \in Int
  OBVIOUS

\* A comparison of the terms, weighted, is one of the sums.
LEMMA SumCompares ==
  ASSUME NEW D, NEW F \in [D -> Int], NEW G \in [D -> Int], NEW H \in [D -> Int],
         NEW a \in Int, NEW b \in Int, NEW S \in SUBSET D, IsFiniteSet(S),
         \A x \in S : a * F[x] <= G[x] + b * H[x]
  PROVE  a * SumFunctionOnSet(F, S) <= SumFunctionOnSet(G, S) + b * SumFunctionOnSet(H, S)
<1> DEFINE f(T) == SumFunctionOnSet(F, T)
           g(T) == SumFunctionOnSet(G, T)
           h(T) == SumFunctionOnSet(H, T)
           P == {n \in Nat : \A T \in SUBSET S :
                               Cardinality(T) = n => a * f(T) <= g(T) + b * h(T)}
<1>1. ASSUME NEW T \in SUBSET S
      PROVE  /\ IsFiniteSet(T) /\ Cardinality(T) \in Nat /\ (Cardinality(T) = 0 <=> T = {})
             /\ f(T) \in Int /\ g(T) \in Int /\ h(T) \in Int
             /\ \A x \in T : /\ f(T) = F[x] + f(T \ {x})
                             /\ g(T) = G[x] + g(T \ {x})
                             /\ h(T) = H[x] + h(T \ {x})
  <2>1. IsFiniteSet(T) /\ Cardinality(T) \in Nat /\ (Cardinality(T) = 0 <=> T = {})
    BY FS_Subset, FS_CardinalityType, FS_EmptySet
  <2>2. T \in SUBSET D
    OBVIOUS
  <2> QED
    BY <2>1, <2>2, SumAdds
<1>2. 0 \in P
  <2>1. ASSUME NEW T \in SUBSET S, Cardinality(T) = 0
        PROVE  a * f(T) <= g(T) + b * h(T)
    <3>1. T = {} /\ IsFiniteSet(T)
      BY <1>1, <2>1
    <3>2. f(T) = 0 /\ g(T) = 0 /\ h(T) = 0
      BY <3>1, SumStep
    <3> HIDE DEF f, g, h
    <3> QED
      BY <3>2
  <2> QED
    BY <2>1
<1>3. ASSUME NEW n \in Nat, n \in P
      PROVE  n + 1 \in P
  <2> SUFFICES ASSUME NEW T \in SUBSET S, Cardinality(T) = n + 1
               PROVE  a * f(T) <= g(T) + b * h(T)
    OBVIOUS
  <2>1. PICK x : x \in T
    <3>1. Cardinality(T) # 0
      OBVIOUS
    <3> QED
      BY <1>1, <3>1
  <2>2. PICK U : U = T \ {x} /\ U \in SUBSET S
    OBVIOUS
  <2>3. Cardinality(U) = n
    <3>1. IsFiniteSet(T)
      BY <1>1
    <3>2. Cardinality(T \ {x}) = Cardinality(T) - 1
      BY <2>1, <3>1, FS_RemoveElement
    <3> QED
      BY <2>2, <3>2
  <2>4. a * f(U) <= g(U) + b * h(U)
    BY <1>3, <2>2, <2>3
  <2>5. f(T) = F[x] + f(U) /\ g(T) = G[x] + g(U) /\ h(T) = H[x] + h(U)
    BY <1>1, <2>1, <2>2
  <2>6. f(U) \in Int /\ g(U) \in Int /\ h(U) \in Int
    BY <1>1, <2>2
  <2>7. /\ F[x] \in Int /\ G[x] \in Int /\ H[x] \in Int
        /\ a * F[x] <= G[x] + b * H[x]
    BY <2>1
  <2> HIDE DEF f, g, h
  <2>8. /\ a * f(T) = a * F[x] + a * f(U) /\ b * h(T) = b * H[x] + b * h(U)
        /\ a * F[x] \in Int /\ a * f(U) \in Int /\ b * H[x] \in Int /\ b * h(U) \in Int
    BY <2>5, <2>6, <2>7, Distributes
  <2>9. \A p, q, r, s, t, u \in Int : p <= t + r /\ q <= u + s => p + q <= (t + u) + (r + s)
    OBVIOUS
  <2> QED
    BY <2>4, <2>5, <2>6, <2>7, <2>8, <2>9
<1> HIDE DEF P
<1>4. \A n \in Nat : n \in P
  BY <1>2, <1>3, NumberInduction
<1>5. Cardinality(S) \in P
  BY <1>1, <1>4
<1> QED
  BY <1>5 DEF P

\* The sum of ones counts.
LEMMA SumCounts ==
  ASSUME NEW D, NEW F \in [D -> Int], NEW S \in SUBSET D, IsFiniteSet(S), \A x \in S : F[x] = 1
  PROVE  SumFunctionOnSet(F, S) = Cardinality(S)
<1> DEFINE P == {n \in Nat : \A T \in SUBSET S :
                               Cardinality(T) = n => SumFunctionOnSet(F, T) = n}
<1>1. ASSUME NEW T \in SUBSET S
      PROVE  /\ IsFiniteSet(T) /\ Cardinality(T) \in Nat /\ (Cardinality(T) = 0 <=> T = {})
             /\ \A x \in T : SumFunctionOnSet(F, T) = 1 + SumFunctionOnSet(F, T \ {x})
  <2>1. IsFiniteSet(T) /\ Cardinality(T) \in Nat /\ (Cardinality(T) = 0 <=> T = {})
    BY FS_Subset, FS_CardinalityType, FS_EmptySet
  <2>2. T \in SUBSET D
    OBVIOUS
  <2> QED
    BY <2>1, <2>2, SumAdds
<1>2. 0 \in P
  <2>1. ASSUME NEW T \in SUBSET S, Cardinality(T) = 0
        PROVE  SumFunctionOnSet(F, T) = 0
    <3>1. T = {} /\ IsFiniteSet(T)
      BY <1>1, <2>1
    <3> QED
      BY <3>1, SumStep
  <2> QED
    BY <2>1
<1>3. ASSUME NEW n \in Nat, n \in P
      PROVE  n + 1 \in P
  <2> SUFFICES ASSUME NEW T \in SUBSET S, Cardinality(T) = n + 1
               PROVE  SumFunctionOnSet(F, T) = n + 1
    OBVIOUS
  <2>1. PICK x : x \in T
    <3>1. Cardinality(T) # 0
      OBVIOUS
    <3> QED
      BY <1>1, <3>1
  <2>2. PICK U : U = T \ {x} /\ U \in SUBSET S
    OBVIOUS
  <2>3. Cardinality(U) = n
    <3>1. IsFiniteSet(T)
      BY <1>1
    <3>2. Cardinality(T \ {x}) = Cardinality(T) - 1
      BY <2>1, <3>1, FS_RemoveElement
    <3> QED
      BY <2>2, <3>2
  <2>4. SumFunctionOnSet(F, U) = n
    BY <1>3, <2>2, <2>3
  <2>5. SumFunctionOnSet(F, T) = 1 + SumFunctionOnSet(F, U)
    BY <1>1, <2>1, <2>2
  <2> QED
    BY <2>4, <2>5
<1> HIDE DEF P
<1>4. \A n \in Nat : n \in P
  BY <1>2, <1>3, NumberInduction
<1>5. Cardinality(S) \in P
  BY <1>1, <1>4
<1> QED
  BY <1>5 DEF P

\* A finite set that is not empty has an element with the least value.
LEMMA LeastValue ==
  ASSUME NEW S, IsFiniteSet(S), S # {}, NEW F \in [S -> Int]
  PROVE  \E x \in S : \A y \in S : F[x] <= F[y]
<1> DEFINE Has(T) == \E x \in T : \A y \in T : F[x] <= F[y]
           P == {n \in Nat : \A T \in SUBSET S : Cardinality(T) = n /\ T # {} => Has(T)}
<1>1. ASSUME NEW T \in SUBSET S
      PROVE  IsFiniteSet(T) /\ Cardinality(T) \in Nat /\ (Cardinality(T) = 0 <=> T = {})
  BY FS_Subset, FS_CardinalityType, FS_EmptySet
<1>2. 0 \in P
  BY <1>1
<1>3. ASSUME NEW n \in Nat, n \in P
      PROVE  n + 1 \in P
  <2> SUFFICES ASSUME NEW T \in SUBSET S, Cardinality(T) = n + 1, T # {}
               PROVE  Has(T)
    OBVIOUS
  <2>1. PICK x : x \in T
    OBVIOUS
  <2>2. PICK U : U = T \ {x} /\ U \in SUBSET S
    OBVIOUS
  <2>3. Cardinality(U) = n
    <3>1. IsFiniteSet(T)
      BY <1>1
    <3>2. Cardinality(T \ {x}) = Cardinality(T) - 1
      BY <2>1, <3>1, FS_RemoveElement
    <3> QED
      BY <2>2, <3>2
  <2>4. \A y \in T : y = x \/ y \in U
    BY <2>2
  <2>5. CASE U = {}
    <3>1. \A y \in T : F[x] <= F[y]
      BY <2>1, <2>4, <2>5
    <3> QED
      BY <2>1, <3>1
  <2>6. CASE U # {}
    <3>1. PICK z \in U : \A y \in U : F[z] <= F[y]
      BY <1>3, <2>2, <2>3, <2>6
    <3>2. F[x] \in Int /\ z \in T /\ \A y \in T : F[y] \in Int
      BY <2>1, <2>2
    <3>3. CASE F[x] <= F[z]
      <4>1. \A y \in T : F[x] <= F[y]
        BY <2>4, <3>1, <3>2, <3>3
      <4> QED
        BY <2>1, <4>1
    <3>4. CASE ~(F[x] <= F[z])
      <4>1. \A y \in T : F[z] <= F[y]
        BY <2>4, <3>1, <3>2, <3>4
      <4> QED
        BY <3>2, <4>1
    <3> QED
      BY <3>3, <3>4
  <2> QED
    BY <2>5, <2>6
<1> HIDE DEF P
<1>4. \A n \in Nat : n \in P
  BY <1>2, <1>3, NumberInduction
<1>5. Cardinality(S) \in P
  BY <1>1, <1>4
<1> QED
  BY <1>5 DEF P

\* A finite set of numbers that is not empty has a greatest and a least element.
LEMMA GreatestOf ==
  ASSUME NEW S \in SUBSET Int, IsFiniteSet(S), S # {}
  PROVE  Max(S) \in S /\ \A x \in S : Max(S) >= x
<1> DEFINE F == [x \in S |-> 0 - x]
<1>1. F \in [S -> Int]
  OBVIOUS
<1>2. PICK m \in S : \A x \in S : F[m] <= F[x]
  <2> HIDE DEF F
  <2> QED
    BY <1>1, LeastValue
<1>3. \A x \in S : m >= x
  BY <1>2
<1> QED
  BY <1>3 DEF Max

LEMMA LeastOf ==
  ASSUME NEW S \in SUBSET Int, IsFiniteSet(S), S # {}
  PROVE  Min(S) \in S /\ \A x \in S : Min(S) <= x
<1> DEFINE F == [x \in S |-> x]
<1>1. F \in [S -> Int]
  OBVIOUS
<1>2. PICK m \in S : \A x \in S : F[m] <= F[x]
  <2> HIDE DEF F
  <2> QED
    BY <1>1, LeastValue
<1>3. \A x \in S : m <= x
  BY <1>2
<1> QED
  BY <1>3 DEF Min

-------------------------------------------------------------------------------
\* `s` is a sequence, of whatever it contains.
AnySeq(s) == s \in Seq({s[i] : i \in 1..Len(s)})

\* A sequence over some set is a sequence of what it contains.
LEMMA SeqIsAnySeq ==
  ASSUME NEW S, NEW s \in Seq(S)
  PROVE  AnySeq(s) /\ Len(s) \in Nat
<1>1. Len(s) \in Nat
  BY LenProperties
<1>2. \A i \in 1..Len(s) : s[i] \in {s[j] : j \in 1..Len(s)}
  OBVIOUS
<1>3. s = SubSeq(s, 1, Len(s))
  BY SubSeqFull
<1>4. SubSeq(s, 1, Len(s)) \in Seq({s[j] : j \in 1..Len(s)})
  BY <1>1, <1>2, SubSeqProperties
<1> QED
  BY <1>1, <1>3, <1>4 DEF AnySeq

\* Two sequences range over a common set.
LEMMA CommonSet ==
  ASSUME NEW s, AnySeq(s), NEW t, AnySeq(t), NEW e
  PROVE  \E S : s \in Seq(S) /\ t \in Seq(S) /\ e \in S
<1> DEFINE A == {s[i] : i \in 1..Len(s)}
           B == {t[i] : i \in 1..Len(t)}
           S == (A \union B) \union {e}
<1>1. s \in Seq(A) /\ t \in Seq(B)
  BY DEF AnySeq
<1>2. A \subseteq S /\ B \subseteq S /\ e \in S
  OBVIOUS
<1> HIDE DEF A, B, S
<1>3. s \in Seq(S) /\ t \in Seq(S)
  BY <1>1, <1>2, SeqMonotonic
<1> QED
  BY <1>2, <1>3

\* Append keeps the elements of a sequence and adds one.
LEMMA AppendFacts ==
  ASSUME NEW s, AnySeq(s), NEW e
  PROVE  /\ AnySeq(Append(s, e))
         /\ Len(Append(s, e)) = Len(s) + 1
         /\ Len(s) \in Nat
         /\ \A i \in 1..Len(s) : Append(s, e)[i] = s[i]
         /\ Append(s, e)[Len(s) + 1] = e
         /\ Append(s, e) # <<>>
<1>1. PICK S : s \in Seq(S) /\ e \in S
  BY CommonSet
<1>2. /\ Append(s, e) \in Seq(S)
      /\ Append(s, e) # <<>>
      /\ Len(Append(s, e)) = Len(s) + 1
      /\ \A i \in 1..Len(s) : Append(s, e)[i] = s[i]
      /\ Append(s, e)[Len(s) + 1] = e
  BY <1>1, AppendProperties
<1>3. AnySeq(Append(s, e)) /\ Len(s) \in Nat
  BY <1>1, <1>2, SeqIsAnySeq
<1> QED
  BY <1>2, <1>3

\* A sequence with the elements of another and one more.
LEMMA SameAsAppend ==
  ASSUME NEW s, AnySeq(s), NEW t, AnySeq(t), Len(t) = Len(s) + 1,
         \A i \in 1..Len(s) : t[i] = s[i]
  PROVE  t = Append(s, t[Len(s) + 1])
<1> DEFINE e == t[Len(s) + 1]
<1>1. /\ AnySeq(Append(s, e)) /\ Len(Append(s, e)) = Len(s) + 1 /\ Len(s) \in Nat
      /\ \A i \in 1..Len(s) : Append(s, e)[i] = s[i]
      /\ Append(s, e)[Len(s) + 1] = e
  BY AppendFacts
<1>2. PICK S : Append(s, e) \in Seq(S) /\ t \in Seq(S)
  BY <1>1, CommonSet
<1>3. \A i \in 1..Len(t) : t[i] = Append(s, e)[i]
  BY <1>1
<1> HIDE DEF e
<1>4. t = Append(s, e)
  BY <1>1, <1>2, <1>3, SeqEqual
<1> QED
  BY <1>4 DEF e

\* Concatenation keeps the elements of both sequences.
LEMMA ConcatFacts ==
  ASSUME NEW s, AnySeq(s), NEW t, AnySeq(t)
  PROVE  /\ AnySeq(s \o t)
         /\ Len(s \o t) = Len(s) + Len(t)
         /\ Len(s) \in Nat /\ Len(t) \in Nat
         /\ \A i \in 1..Len(s) : (s \o t)[i] = s[i]
         /\ \A i \in 1..Len(t) : (s \o t)[Len(s) + i] = t[i]
<1>1. PICK S : s \in Seq(S) /\ t \in Seq(S)
  BY CommonSet
<1>2. Len(s) \in Nat /\ Len(t) \in Nat
  BY <1>1, LenProperties
<1>3. s \o t \in Seq(S) /\ Len(s \o t) = Len(s) + Len(t)
  BY <1>1, ConcatProperties
<1>4. \A i \in 1..(Len(s) + Len(t)) :
         (s \o t)[i] = IF i <= Len(s) THEN s[i] ELSE t[i - Len(s)]
  BY <1>1, ConcatProperties
<1>5. \A i \in 1..Len(s) : (s \o t)[i] = s[i]
  BY <1>2, <1>4
<1>6. \A i \in 1..Len(t) : (s \o t)[Len(s) + i] = t[i]
  <2> TAKE i \in 1..Len(t)
  <2>1. /\ Len(s) + i \in 1..(Len(s) + Len(t))
        /\ ~(Len(s) + i <= Len(s))
        /\ (Len(s) + i) - Len(s) = i
    BY <1>2
  <2> QED
    BY <1>4, <2>1
<1> QED
  BY <1>2, <1>3, <1>5, <1>6, SeqIsAnySeq

\* A prefix keeps the elements it has.
LEMMA PrefixFacts ==
  ASSUME NEW s, AnySeq(s), NEW n \in 0..Len(s)
  PROVE  /\ AnySeq(SubSeq(s, 1, n))
         /\ Len(SubSeq(s, 1, n)) = n
         /\ \A i \in 1..n : SubSeq(s, 1, n)[i] = s[i]
<1> DEFINE S == {s[i] : i \in 1..Len(s)}
<1>1. s \in Seq(S)
  BY DEF AnySeq
<1>2. Len(s) \in Nat
  BY <1>1, LenProperties
<1>3. \A i \in 1..n : s[i] \in S
  BY <1>2
<1> HIDE DEF S
<1>4. /\ SubSeq(s, 1, n) \in Seq(S)
      /\ Len(SubSeq(s, 1, n)) = IF 1 <= n THEN n - 1 + 1 ELSE 0
      /\ \A i \in 1..(n - 1 + 1) : SubSeq(s, 1, n)[i] = s[1 + i - 1]
  BY <1>2, <1>3, SubSeqProperties
<1>5. Len(SubSeq(s, 1, n)) = n
  BY <1>2, <1>4
<1>6. \A i \in 1..n : SubSeq(s, 1, n)[i] = s[i]
  BY <1>2, <1>4
<1> QED
  BY <1>4, <1>5, <1>6, SeqIsAnySeq

\* A sequence without its elements m + 1..n.
LEMMA CutFacts ==
  ASSUME NEW s, AnySeq(s), NEW m \in Nat, NEW n \in Nat, m <= n, n <= Len(s)
  PROVE  LET t == SubSeq(s, 1, m) \o SubSeq(s, n + 1, Len(s)) IN
         /\ AnySeq(t) /\ Len(t) = m + Len(s) - n
         /\ \A i \in 1..m : t[i] = s[i]
         /\ \A i \in (m + 1)..(m + Len(s) - n) : t[i] = s[i - m + n]
<1> DEFINE S == {s[i] : i \in 1..Len(s)}
           u == SubSeq(s, 1, m)
           v == SubSeq(s, n + 1, Len(s))
<1>1. s \in Seq(S)
  BY DEF AnySeq
<1>2. Len(s) \in Nat
  BY <1>1, LenProperties
<1>3. AnySeq(u) /\ Len(u) = m /\ \A i \in 1..m : u[i] = s[i]
  BY <1>2, PrefixFacts
<1>4. \A i \in (n + 1)..Len(s) : s[i] \in S
  BY <1>2
<1> HIDE DEF S
<1>5. /\ v \in Seq(S) /\ Len(v) = IF n + 1 <= Len(s) THEN Len(s) - (n + 1) + 1 ELSE 0
      /\ \A i \in 1..(Len(s) - (n + 1) + 1) : v[i] = s[(n + 1) + i - 1]
  BY <1>2, <1>4, SubSeqProperties
<1> HIDE DEF u, v
<1>6. AnySeq(v) /\ Len(v) = Len(s) - n /\ \A i \in 1..(Len(s) - n) : v[i] = s[n + i]
  <2>1. Len(v) = Len(s) - n /\ Len(s) - (n + 1) + 1 = Len(s) - n
    BY <1>2, <1>5
  <2>2. \A i \in 1..(Len(s) - n) : (n + 1) + i - 1 = n + i
    BY <1>2
  <2> QED
    BY <1>5, <2>1, <2>2, SeqIsAnySeq
<1>7. /\ AnySeq(u \o v) /\ Len(u \o v) = m + (Len(s) - n)
      /\ \A i \in 1..m : (u \o v)[i] = s[i]
      /\ \A i \in 1..(Len(s) - n) : (u \o v)[m + i] = s[n + i]
  <2>1. AnySeq(u) /\ AnySeq(v)
    BY <1>3, <1>6
  <2>2. /\ AnySeq(u \o v) /\ Len(u \o v) = Len(u) + Len(v)
        /\ \A i \in 1..Len(u) : (u \o v)[i] = u[i]
        /\ \A i \in 1..Len(v) : (u \o v)[Len(u) + i] = v[i]
    BY <2>1, ConcatFacts
  <2> QED
    BY <1>3, <1>6, <2>2
<1>8. ASSUME NEW i \in (m + 1)..(m + Len(s) - n)
      PROVE  (u \o v)[i] = s[i - m + n]
  <2>1. i - m \in 1..(Len(s) - n) /\ m + (i - m) = i /\ n + (i - m) = i - m + n
    BY <1>2
  <2> QED
    BY <1>7, <2>1
<1> QED
  BY <1>2, <1>7, <1>8 DEF u, v

\* A function on the indices of a sequence is a sequence of the same length.
LEMMA SameIndices ==
  ASSUME NEW s, AnySeq(s), NEW t, t = [k \in 1..Len(s) |-> t[k]]
  PROVE  AnySeq(t) /\ Len(t) = Len(s)
<1> DEFINE T == {t[k] : k \in 1..Len(s)}
<1>1. Len(s) \in Nat
  BY LenProperties DEF AnySeq
<1>2. t \in [1..Len(s) -> T] /\ DOMAIN t = 1..Len(s)
  OBVIOUS
<1> HIDE DEF T
<1>3. t \in Seq(T)
  BY <1>1, <1>2, SeqDef
<1>4. Len(t) \in Nat /\ 1..Len(t) = 1..Len(s)
  BY <1>2, <1>3, LenProperties
<1> QED
  BY <1>1, <1>3, <1>4, SeqIsAnySeq

\* The empty sequence is a sequence.
LEMMA EmptyFacts == AnySeq(<<>>) /\ Len(<<>>) = 0
  BY EmptySeq DEF AnySeq

-------------------------------------------------------------------------------
(* Products, sums and finite families of integers, and sequences of them.   *)

\* A finite sum of numbers is a number.
LEMMA SumIsInt ==
  ASSUME NEW D, IsFiniteSet(D), NEW F \in [D -> Int]
  PROVE  SumFunctionOnSet(F, D) \in Int
<1>1. D \in SUBSET D
  OBVIOUS
<1> QED
  BY <1>1, SumAdds

\* A family of integers over a non-empty pool has a least and a greatest one.
LEMMA ExtremesOfFamily ==
  ASSUME NEW D, IsFiniteSet(D), D # {}, NEW f \in [D -> Int]
  PROVE  /\ \E j \in D : Min({f[k] : k \in D}) = f[j] /\ \A k \in D : f[j] <= f[k]
         /\ \E j \in D : Max({f[k] : k \in D}) = f[j] /\ \A k \in D : f[j] >= f[k]
<1> DEFINE V == {f[k] : k \in D}
<1>1. f \in Surjection(D, V)
  BY DEF Surjection
<1>2. IsFiniteSet(V) /\ V \in SUBSET Int /\ V # {}
  BY <1>1, FS_Surjection
<1>3. \A k \in D : f[k] \in V
  OBVIOUS
<1>4. \A v \in V : \E k \in D : v = f[k]
  OBVIOUS
<1> HIDE DEF V
<1>5. Min(V) \in V /\ \A v \in V : Min(V) <= v
  BY <1>2, LeastOf
<1>6. Max(V) \in V /\ \A v \in V : Max(V) >= v
  BY <1>2, GreatestOf
<1>7. \E j \in D : Min(V) = f[j] /\ \A k \in D : f[j] <= f[k]
  BY <1>3, <1>4, <1>5
<1>8. \E j \in D : Max(V) = f[j] /\ \A k \in D : f[j] >= f[k]
  BY <1>3, <1>4, <1>6
<1> QED
  BY <1>7, <1>8 DEF V

\* Products that keep an order.
LEMMA Multiplies ==
  ASSUME NEW k \in Nat, NEW a \in Int, NEW b \in Int, a <= b
  PROVE  k * a \in Int /\ k * b \in Int /\ k * a <= k * b
  OBVIOUS

LEMMA Cancels ==
  ASSUME NEW k \in Nat \ {0}, NEW a \in Int, NEW b \in Int
  PROVE  /\ k * a <= k * b => a <= b
         /\ k * a < k * b => a < b
  OBVIOUS

\* The slope of u does not exceed that of v, nor that of v the one of w.
LEMMA SlopesInOrder ==
  ASSUME NEW ux \in Nat \ {0}, NEW vx \in Nat \ {0}, NEW wx \in Nat \ {0},
         NEW ue \in Int, NEW ve \in Int, NEW we \in Int,
         ue * vx <= ux * ve, ve * wx <= vx * we
  PROVE  /\ ue * wx <= ux * we
         /\ ue * vx < ux * ve \/ ve * wx < vx * we => ue * wx < ux * we
<1>1. wx * (ue * vx) <= wx * (ux * ve) /\ ux * (ve * wx) <= ux * (vx * we)
  <2>1. ue * vx \in Int /\ ux * ve \in Int /\ ve * wx \in Int /\ vx * we \in Int
    OBVIOUS
  <2> QED
    BY <2>1, Multiplies
<1>2. /\ wx * (ue * vx) = vx * (ue * wx) /\ ux * (vx * we) = vx * (ux * we)
      /\ wx * (ux * ve) = ux * (ve * wx)
  OBVIOUS
<1>3. vx * (ue * wx) <= vx * (ux * we)
  BY <1>1, <1>2
<1>4. ue * wx \in Int /\ ux * we \in Int
  OBVIOUS
<1>5. ue * wx <= ux * we
  BY <1>3, <1>4, Cancels
<1> QED
  BY <1>5

\* A finite family has a member with the greatest value and, among those, the
\* least rank.
LEMMA BestExists ==
  ASSUME NEW D, IsFiniteSet(D), D # {}, NEW f \in [D -> Int], NEW g \in [D -> Int]
  PROVE  \E a \in D : \A b \in D : f[a] > f[b] \/ (f[a] = f[b] /\ g[a] <= g[b])
<1> DEFINE F == [a \in D |-> 0 - f[a]]
<1>1. F \in [D -> Int]
  OBVIOUS
<1>2. PICK m \in D : \A b \in D : F[m] <= F[b]
  <2> HIDE DEF F
  <2> QED
    BY <1>1, LeastValue
<1>3. \A b \in D : f[m] >= f[b]
  BY <1>2
<1> DEFINE M == {a \in D : f[a] = f[m]}
           G == [a \in M |-> g[a]]
<1>4. IsFiniteSet(M) /\ M # {} /\ G \in [M -> Int]
  <2>1. M \in SUBSET D
    OBVIOUS
  <2>2. IsFiniteSet(M)
    BY <2>1, FS_Subset
  <2> QED
    BY <2>2
<1>5. PICK a \in M : \A b \in M : G[a] <= G[b]
  <2> HIDE DEF G, M
  <2> QED
    BY <1>4, LeastValue
<1>6. \A b \in D : f[a] > f[b] \/ (f[a] = f[b] /\ g[a] <= g[b])
  <2> TAKE b \in D
  <2>1. f[a] \in Int /\ f[b] \in Int /\ f[a] = f[m] /\ f[m] >= f[b]
    BY <1>3
  <2>2. f[b] = f[a] => g[a] <= g[b]
    BY <1>5, <2>1
  <2> QED
    BY <2>1, <2>2
<1> QED
  BY <1>6

LEMMA SumOfTwo ==
  ASSUME NEW D, NEW F \in [D -> Int], NEW i \in D, NEW j \in D, i # j
  PROVE  /\ SumFunctionOnSet(F, {}) = 0
         /\ SumFunctionOnSet(F, {i}) = F[i]
         /\ SumFunctionOnSet(F, {i, j}) = F[i] + F[j]
<1>1. IsFiniteSet({}) /\ IsFiniteSet({i}) /\ IsFiniteSet({j}) /\ IsFiniteSet({i, j})
  <2>1. {i, j} = {i} \union {j}
    OBVIOUS
  <2>2. IsFiniteSet({}) /\ IsFiniteSet({i}) /\ IsFiniteSet({j})
    BY FS_EmptySet, FS_Singleton
  <2>3. IsFiniteSet({i} \union {j})
    BY <2>2, FS_Union
  <2> QED
    BY <2>1, <2>2, <2>3
<1>2. SumFunctionOnSet(F, {}) = 0
  BY <1>1, SumStep
<1>3. \A k \in D : SumFunctionOnSet(F, {k}) = F[k]
  <2> TAKE k \in D
  <2>1. {k} \in SUBSET D /\ IsFiniteSet({k}) /\ k \in {k} /\ {k} \ {k} = {}
    BY FS_Singleton
  <2>2. SumFunctionOnSet(F, {k}) = F[k] + SumFunctionOnSet(F, {k} \ {k})
    BY <2>1, SumAdds
  <2>3. SumFunctionOnSet(F, {k}) = F[k] + 0 /\ F[k] \in Int
    BY <1>2, <2>1, <2>2
  <2> QED
    BY <2>3
<1>4. SumFunctionOnSet(F, {i, j}) = F[i] + SumFunctionOnSet(F, {i, j} \ {i})
  <2>1. {i, j} \in SUBSET D /\ i \in {i, j}
    OBVIOUS
  <2> QED
    BY <1>1, <2>1, SumAdds
<1>5. {i, j} \ {i} = {j}
  OBVIOUS
<1> QED
  BY <1>2, <1>3, <1>4, <1>5

LEMMA SumOfPair ==
  ASSUME NEW D, NEW F \in [D -> Int], NEW i \in D, NEW j \in D, i # j, NEW S, S = {i, j}
  PROVE  SumFunctionOnSet(F, S) = F[i] + F[j]
<1>1. SumFunctionOnSet(F, {i, j}) = F[i] + F[j]
  BY SumOfTwo
<1> QED
  BY <1>1

\* A function over an interval is a sequence.
LEMMA IntervalIsSeq ==
  ASSUME NEW S, NEW n \in Nat, NEW s \in [1..n -> S]
  PROVE  s \in Seq(S) /\ Len(s) = n /\ AnySeq(s)
<1>1. s \in Seq(S)
  BY IsASeq
<1>2. Len(s) = n
  BY <1>1
<1> QED
  BY <1>1, <1>2, SeqIsAnySeq

\* Two sequences of numbers behind each other, element by element.
LEMMA JoinedSequence ==
  ASSUME NEW r \in Nat, NEW m \in Nat, NEW S, NEW a \in [1..r -> S], NEW b \in [1..m -> S]
  PROVE  /\ a \o b \in [1..(r + m) -> S]
         /\ \A i \in 1..r : (a \o b)[i] = a[i]
         /\ \A k \in 1..m : (a \o b)[r + k] = b[k]
<1>1. a \in Seq(S) /\ Len(a) = r /\ AnySeq(a) /\ b \in Seq(S) /\ Len(b) = m /\ AnySeq(b)
  BY IntervalIsSeq
<1>2. a \o b \in Seq(S) /\ Len(a \o b) = r + m
  BY <1>1, ConcatFacts, ConcatProperties
<1>3. a \o b \in [1..(r + m) -> S]
  BY <1>2, ElementOfSeq, LenProperties
<1>4. \A i \in 1..(r + m) : (a \o b)[i] = IF i <= r THEN a[i] ELSE b[i - r]
  BY <1>1, ConcatProperties
<1>5. ASSUME NEW k \in 1..m
      PROVE  (a \o b)[r + k] = b[k]
  <2>1. r + k \in 1..(r + m) /\ ~(r + k <= r) /\ (r + k) - r = k
    OBVIOUS
  <2> QED
    BY <1>4, <2>1
<1>6. \A i \in 1..r : i \in 1..(r + m) /\ i <= r
  OBVIOUS
<1> QED
  BY <1>3, <1>4, <1>5, <1>6

\* A sum above zero has a term above zero.
LEMMA SomeTermIsPositive ==
  ASSUME NEW D, IsFiniteSet(D), NEW F \in [D -> Int], SumFunctionOnSet(F, D) > 0
  PROVE  \E b \in D : F[b] > 0
<1> DEFINE Zero == [b \in D |-> 0]
<1>1. D \in SUBSET D /\ Zero \in [D -> Int] /\ \A b \in D : Zero[b] = 0
  OBVIOUS
<1> HIDE DEF Zero
<1>2. SumFunctionOnSet(F, D) \in Int /\ SumFunctionOnSet(Zero, D) \in Int
  BY <1>1, SumAdds
<1>3. SUFFICES ASSUME \A b \in D : F[b] <= 0
               PROVE  FALSE
  OBVIOUS
<1>4. \A b \in D : 2 * Zero[b] <= Zero[b] + 0 * Zero[b] /\ 1 * F[b] <= Zero[b] + 0 * Zero[b]
  BY <1>1, <1>3
<1>5. 0 \in Int /\ 1 \in Int /\ 2 \in Int
  OBVIOUS
<1>6. 2 * SumFunctionOnSet(Zero, D) <= SumFunctionOnSet(Zero, D) + 0 * SumFunctionOnSet(Zero, D)
  BY <1>1, <1>4, <1>5, SumCompares
<1>7. 1 * SumFunctionOnSet(F, D) <= SumFunctionOnSet(Zero, D) + 0 * SumFunctionOnSet(Zero, D)
  BY <1>1, <1>4, <1>5, SumCompares
<1> QED
  BY <1>2, <1>6, <1>7

LEMMA FirstNumbers ==
  ASSUME NEW n \in Nat
  PROVE  IsFiniteSet(1..n) /\ Cardinality(1..n) = n
<1>1. IsFiniteSet(1..n)
  BY FS_Interval
<1>2. Cardinality(1..n) = n
  BY FS_Interval
<1> QED
  BY <1>1, <1>2

LEMMA LeastOfTwo ==
  ASSUME NEW a \in Int, NEW b \in Int
  PROVE  Min({a, b}) \in {a, b} /\ Min({a, b}) <= a /\ Min({a, b}) <= b
<1>1. {a, b} \in SUBSET Int /\ {a, b} # {}
  OBVIOUS
<1>2. IsFiniteSet({a, b})
  <2>1. IsFiniteSet({b})
    BY FS_Singleton
  <2>2. IsFiniteSet({b} \union {a})
    BY <2>1, FS_AddElement
  <2>3. {b} \union {a} = {a, b}
    OBVIOUS
  <2> QED
    BY <2>2, <2>3
<1>3. Min({a, b}) \in {a, b} /\ \A x \in {a, b} : Min({a, b}) <= x
  BY <1>1, <1>2, LeastOf
<1> QED
  BY <1>3

\* Some set has every smaller number of elements.
LEMMA SubsetsOfSize ==
  ASSUME NEW A, IsFiniteSet(A)
  PROVE  \A k \in Nat : k <= Cardinality(A) => \E T \in SUBSET A : IsFiniteSet(T) /\ Cardinality(T) = k
<1> DEFINE P == {k \in Nat : k <= Cardinality(A) => \E T \in SUBSET A : IsFiniteSet(T) /\ Cardinality(T) = k}
<1>1. 0 \in P
  <2>1. IsFiniteSet({}) /\ Cardinality({}) = 0 /\ {} \in SUBSET A
    BY FS_EmptySet
  <2> QED
    BY <2>1
<1>2. ASSUME NEW k \in Nat, k \in P
      PROVE  k + 1 \in P
  <2> SUFFICES ASSUME k + 1 <= Cardinality(A)
               PROVE  \E T \in SUBSET A : IsFiniteSet(T) /\ Cardinality(T) = k + 1
    OBVIOUS
  <2>0. Cardinality(A) \in Nat
    BY FS_CardinalityType
  <2>1. PICK T \in SUBSET A : IsFiniteSet(T) /\ Cardinality(T) = k
    BY <1>2, <2>0
  <2>2. T # A
    BY <2>0, <2>1
  <2>3. PICK x \in A : x \notin T
    BY <2>2
  <2>4. IsFiniteSet(T \union {x}) /\ Cardinality(T \union {x}) = Cardinality(T) + 1
    BY <2>1, <2>3, FS_AddElement
  <2>5. T \union {x} \in SUBSET A
    BY <2>3
  <2> QED
    BY <2>1, <2>4, <2>5
<1>3. \A k \in Nat : k \in P
  <2> HIDE DEF P
  <2> QED
    BY <1>1, <1>2, NumberInduction
<1> QED
  BY <1>3

\* The spread of finitely many numbers is not negative: between any of them and
\* the sum B of all n, 2nB x <= B B + n n x x.
LEMMA SpreadIsNat ==
  ASSUME NEW D, IsFiniteSet(D), NEW F \in [D -> Int], NEW Q \in [D -> Int],
         \A s \in D : Q[s] = F[s] * F[s]
  PROVE  Cardinality(D) * SumFunctionOnSet(Q, D)
           - SumFunctionOnSet(F, D) * SumFunctionOnSet(F, D) \in Nat
<1>1. SumFunctionOnSet(Q, D) \in Int /\ SumFunctionOnSet(F, D) \in Int
  <2>1. SumFunctionOnSet(Q, D) \in Int
    BY SumIsInt
  <2>2. SumFunctionOnSet(F, D) \in Int
    BY SumIsInt
  <2> QED
    BY <2>1, <2>2
<1>2. PICK n \in Nat, B \in Int, q \in Int :
        n = Cardinality(D) /\ B = SumFunctionOnSet(F, D) /\ q = SumFunctionOnSet(Q, D)
  BY <1>1, FS_CardinalityType
<1>3. CASE n = 0
  <2>1. D = {}
    BY <1>2, <1>3, FS_EmptySet
  <2>2. B = 0
    BY <1>2, <2>1, SumStep, FS_EmptySet
  <2> QED
    BY <1>1, <1>2, <1>3, <2>2
<1>4. CASE n > 0
  <2> DEFINE G == [s \in D |-> n * n * Q[s]]
             ones == [s \in D |-> 1]
  <2>1. n * n \in Int /\ B * B \in Int /\ 2 * n * B \in Int /\ n * n - 1 \in Int
    BY <1>2
  <2>2. PICK nn \in Int, bb \in Int, nb \in Int : nn = n * n /\ bb = B * B /\ nb = 2 * n * B
    BY <2>1
  <2>3. \A s \in D : nn * Q[s] \in Int
    <3> TAKE s \in D
    <3>1. PICK y \in Int : y = Q[s]
      OBVIOUS
    <3> QED
      BY <3>1
  <2>4. G \in [D -> Int] /\ \A s \in D : G[s] = nn * Q[s]
    BY <2>2, <2>3
  <2>5. ones \in [D -> Int] /\ \A s \in D : ones[s] = 1
    OBVIOUS
  <2> HIDE DEF G, ones
  <2>6. SumFunctionOnSet(ones, D) = n
    BY <1>2, <2>5, SumCounts
  <2>7. \A s \in D : nb * F[s] <= G[s] + bb * ones[s]
    <3> TAKE s \in D
    <3>1. PICK x \in Int : x = F[s]
      OBVIOUS
    <3>2. (n * x - B) * (n * x - B) >= 0
      <4>1. PICK z \in Int : z = n * x - B
        BY <1>2
      <4>2. z * z >= 0
        OBVIOUS
      <4> QED
        BY <4>1, <4>2
    <3>3. (n * x - B) * (n * x - B) = n * n * (x * x) - 2 * n * B * x + B * B
      BY <1>2
    <3>4. G[s] = nn * (x * x) /\ ones[s] = 1
      BY <2>4, <2>5, <3>1
    <3>5. nn * (x * x) \in Int /\ nb * x \in Int
      OBVIOUS
    <3> QED
      BY <2>2, <3>1, <3>2, <3>3, <3>4, <3>5
  <2>8. nb * B <= SumFunctionOnSet(G, D) + bb * n
    <3>1. D \in SUBSET D
      OBVIOUS
    <3>2. nb * SumFunctionOnSet(F, D) <= SumFunctionOnSet(G, D) + bb * SumFunctionOnSet(ones, D)
      BY <2>4, <2>5, <2>7, <3>1, SumCompares
    <3> QED
      BY <1>2, <2>6, <3>2
  <2>9. SumFunctionOnSet(G, D) <= q + (nn - 1) * q
    <3>1. \A s \in D : 1 * G[s] <= Q[s] + (nn - 1) * Q[s]
      <4> TAKE s \in D
      <4>1. PICK y \in Int : y = Q[s]
        OBVIOUS
      <4>2. nn * y = y + (nn - 1) * y
        OBVIOUS
      <4>3. nn * y \in Int
        OBVIOUS
      <4> QED
        BY <2>4, <4>1, <4>2, <4>3
    <3>2. 1 * SumFunctionOnSet(G, D) <= SumFunctionOnSet(Q, D) + (nn - 1) * SumFunctionOnSet(Q, D)
      <4>1. PICK one \in Int, more \in Int : one = 1 /\ more = nn - 1
        OBVIOUS
      <4>2. D \in SUBSET D
        OBVIOUS
      <4>3. \A s \in D : one * G[s] <= Q[s] + more * Q[s]
        BY <3>1, <4>1
      <4>4. one * SumFunctionOnSet(G, D) <= SumFunctionOnSet(Q, D) + more * SumFunctionOnSet(Q, D)
        BY <2>4, <4>2, <4>3, SumCompares
      <4> QED
        BY <4>1, <4>4
    <3>3. SumFunctionOnSet(G, D) \in Int
      BY <2>4, SumIsInt
    <3> QED
      BY <1>2, <3>2, <3>3
  <2>10. SumFunctionOnSet(G, D) \in Int
    BY <2>4, SumIsInt
  <2>11. 2 * (n * (B * B)) <= n * (n * q) + n * (B * B)
    <3>1. nb * B = 2 * (n * (B * B)) /\ bb * n = n * (B * B) /\ q + (nn - 1) * q = n * (n * q)
      BY <2>2
    <3>2. PICK u \in Int, v \in Int : u = n * (B * B) /\ v = n * (n * q)
      OBVIOUS
    <3> QED
      BY <2>8, <2>9, <2>10, <3>1, <3>2
  <2>12. n * (B * B) <= n * (n * q)
    <3>1. PICK u \in Int, v \in Int : u = n * (B * B) /\ v = n * (n * q)
      OBVIOUS
    <3> QED
      BY <2>11, <3>1
  <2>13. B * B <= n * q
    <3>1. PICK u \in Int, v \in Int : u = B * B /\ v = n * q
      OBVIOUS
    <3>2. n * u <= n * v
      BY <2>12, <3>1
    <3> QED
      BY <1>4, <3>1, <3>2, Cancels
  <2>14. n * q - B * B \in Nat
    <3>1. PICK u \in Int, v \in Int : u = B * B /\ v = n * q
      OBVIOUS
    <3> QED
      BY <2>13, <3>1
  <2> QED
    BY <1>1, <1>2, <2>14
<1> QED
  BY <1>2, <1>3, <1>4

\* A finite family that is ordered strictly and totally has a foremost member:
\* the one with the fewest before it.
LEMMA ForemostExists ==
  ASSUME NEW S, IsFiniteSet(S), S # {}, NEW R \in SUBSET (S \X S),
         \A a \in S : <<a, a>> \notin R,
         \A a, b \in S : a # b => <<a, b>> \in R \/ <<b, a>> \in R,
         \A a, b, d \in S : <<a, b>> \in R /\ <<b, d>> \in R => <<a, d>> \in R
  PROVE  \E a \in S : \A b \in S \ {a} : <<a, b>> \in R
<1> DEFINE before(a) == {b \in S : <<b, a>> \in R}
           f == [a \in S |-> Cardinality(before(a))]
<1>1. \A a \in S : IsFiniteSet(before(a))
  <2> TAKE a \in S
  <2>1. before(a) \subseteq S
    OBVIOUS
  <2> HIDE DEF before
  <2> QED
    BY <2>1, FS_Subset
<1>2. \A a \in S : Cardinality(before(a)) \in Int
  <2> HIDE DEF before
  <2> TAKE a \in S
  <2>1. Cardinality(before(a)) \in Nat
    BY <1>1, FS_CardinalityType
  <2> QED
    BY <2>1
<1>3. f \in [S -> Int]
  BY <1>2
<1> HIDE DEF f
<1>4. PICK a \in S : \A b \in S : f[a] <= f[b]
  BY <1>3, LeastValue
<1>5. ASSUME NEW b \in S \ {a}, <<a, b>> \notin R
      PROVE  FALSE
  <2>1. <<b, a>> \in R
    BY <1>5
  <2>2. before(b) \subseteq before(a)
    BY <2>1
  <2>3. b \in before(a) /\ b \notin before(b)
    BY <2>1
  <2>4. f[a] = Cardinality(before(a)) /\ f[b] = Cardinality(before(b))
    BY DEF f
  <2> HIDE DEF before
  <2>5. Cardinality(before(b)) < Cardinality(before(a))
    <3>1. IsFiniteSet(before(a))
      BY <1>1
    <3>2. before(b) # before(a)
      BY <2>3
    <3>3. PICK A, B : A = before(a) /\ B = before(b)
      OBVIOUS
    <3>4. Cardinality(B) <= Cardinality(A) /\ (Cardinality(B) = Cardinality(A) => B = A)
      BY <2>2, <3>1, <3>3, FS_Subset
    <3> QED
      BY <1>2, <3>2, <3>3, <3>4
  <2>6. f[a] <= f[b]
    BY <1>4
  <2> QED
    BY <1>2, <2>4, <2>5, <2>6
<1> QED
  BY <1>5

\* Fractions are compared by their cross products.
LEMMA FractionsInOrder ==
  ASSUME NEW u \in Int, NEW v \in Int, NEW w \in Int,
         NEW d \in Nat \ {0}, NEW e \in Nat \ {0}, NEW f \in Nat \ {0},
         u * e >= v * d, v * f >= w * e
  PROVE  /\ u * f >= w * d
         /\ u * e > v * d \/ v * f > w * e => u * f > w * d
<1>1. w * e <= f * v /\ v * d <= e * u
  <2>1. f * v = v * f /\ e * u = u * e
    OBVIOUS
  <2> QED
    BY <2>1
<1>2. /\ w * d <= f * u
      /\ w * e < f * v \/ v * d < e * u => w * d < f * u
  BY <1>1, SlopesInOrder
<1>3. f * v = v * f /\ e * u = u * e /\ f * u = u * f
  OBVIOUS
<1>4. u * f \in Int /\ w * d \in Int /\ u * e \in Int /\ v * d \in Int /\ v * f \in Int /\ w * e \in Int
  OBVIOUS
<1> QED
  BY <1>2, <1>3, <1>4

-------------------------------------------------------------------------------
(* Sums of sums.                                                            *)

\* Induction over the finite subsets of a set, one more element at a time.
LEMMA SubsetInduction ==
  ASSUME NEW S, IsFiniteSet(S), NEW P, {} \in P,
         \A T \in SUBSET S : T \in P => \A x \in S \ T : T \union {x} \in P
  PROVE  S \in P
<1> DEFINE Q == {n \in Nat : \A T \in SUBSET S : Cardinality(T) = n => T \in P}
<1>1. \A T \in SUBSET S : IsFiniteSet(T) /\ Cardinality(T) \in Nat /\ (Cardinality(T) = 0 <=> T = {})
  BY FS_Subset, FS_CardinalityType, FS_EmptySet
<1>2. 0 \in Q
  BY <1>1
<1>3. ASSUME NEW n \in Nat, n \in Q
      PROVE  n + 1 \in Q
  <2> SUFFICES ASSUME NEW T \in SUBSET S, Cardinality(T) = n + 1
               PROVE  T \in P
    OBVIOUS
  <2>1. PICK x : x \in T
    <3>1. Cardinality(T) # 0
      OBVIOUS
    <3> QED
      BY <1>1, <3>1
  <2> DEFINE U == T \ {x}
  <2>2. U = T \ {x} /\ U \in SUBSET S /\ x \in S \ U /\ T = U \union {x}
    BY <2>1
  <2> HIDE DEF U
  <2>3. Cardinality(U) = n
    <3>1. Cardinality(T \ {x}) = Cardinality(T) - 1
      BY <1>1, <2>1, FS_RemoveElement
    <3> QED
      BY <2>2, <3>1
  <2>4. U \in P
    BY <1>3, <2>2, <2>3
  <2> QED
    BY <2>2, <2>4
<1> HIDE DEF Q
<1>4. \A n \in Nat : n \in Q
  BY <1>2, <1>3, NumberInduction
<1>5. Cardinality(S) \in Q
  BY <1>1, <1>4
<1> QED
  BY <1>5 DEF Q

\* One more element adds its value, and an empty sum is zero.
LEMMA SumPlus ==
  ASSUME NEW D, NEW F \in [D -> Int], NEW S \in SUBSET D, IsFiniteSet(S), NEW x \in D \ S
  PROVE  /\ SumFunctionOnSet(F, S \union {x}) = F[x] + SumFunctionOnSet(F, S)
         /\ SumFunctionOnSet(F, S) \in Int /\ F[x] \in Int
<1> DEFINE T == S \union {x}
<1>1. T = S \union {x} /\ T \in SUBSET D /\ x \in T /\ T \ {x} = S
  OBVIOUS
<1> HIDE DEF T
<1>2. IsFiniteSet(T)
  BY <1>1, FS_AddElement
<1>3. SumFunctionOnSet(F, T) = F[x] + SumFunctionOnSet(F, T \ {x})
  BY <1>1, <1>2, SumAdds
<1>4. SumFunctionOnSet(F, S) \in Int
  BY SumAdds
<1> QED
  BY <1>1, <1>3, <1>4

LEMMA SumOfNone == \A F : SumFunctionOnSet(F, {}) = 0
<1> TAKE F
<1>1. IsFiniteSet({})
  BY FS_EmptySet
<1> QED
  BY <1>1, SumStep

\* Term by term: sums grow with their terms, and add up.
LEMMA SumGrowsWithTerms ==
  ASSUME NEW S, IsFiniteSet(S), NEW F \in [S -> Int], NEW G \in [S -> Int], \A x \in S : F[x] <= G[x]
  PROVE  SumFunctionOnSet(F, S) <= SumFunctionOnSet(G, S)
<1> DEFINE P == {T \in SUBSET S : SumFunctionOnSet(F, T) <= SumFunctionOnSet(G, T)}
<1>1. {} \in P
  BY SumOfNone
<1>2. ASSUME NEW T \in SUBSET S, T \in P, NEW x \in S \ T
      PROVE  T \union {x} \in P
  <2>1. IsFiniteSet(T)
    BY FS_Subset
  <2>2. /\ SumFunctionOnSet(F, T \union {x}) = F[x] + SumFunctionOnSet(F, T)
        /\ SumFunctionOnSet(F, T) \in Int /\ F[x] \in Int
    BY <2>1, SumPlus
  <2>3. /\ SumFunctionOnSet(G, T \union {x}) = G[x] + SumFunctionOnSet(G, T)
        /\ SumFunctionOnSet(G, T) \in Int /\ G[x] \in Int
    BY <2>1, SumPlus
  <2>4. SumFunctionOnSet(F, T) <= SumFunctionOnSet(G, T) /\ F[x] <= G[x]
    BY <1>2
  <2> QED
    BY <2>2, <2>3, <2>4
<1> HIDE DEF P
<1>3. S \in P
  BY <1>1, <1>2, SubsetInduction
<1> QED
  BY <1>3 DEF P

LEMMA SumOfSums ==
  ASSUME NEW S, IsFiniteSet(S), NEW F \in [S -> Int], NEW G \in [S -> Int], NEW H \in [S -> Int],
         \A x \in S : F[x] = G[x] + H[x]
  PROVE  SumFunctionOnSet(F, S) = SumFunctionOnSet(G, S) + SumFunctionOnSet(H, S)
<1> DEFINE P == {T \in SUBSET S : SumFunctionOnSet(F, T) = SumFunctionOnSet(G, T) + SumFunctionOnSet(H, T)}
<1>1. {} \in P
  BY SumOfNone
<1>2. ASSUME NEW T \in SUBSET S, T \in P, NEW x \in S \ T
      PROVE  T \union {x} \in P
  <2>1. IsFiniteSet(T)
    BY FS_Subset
  <2>2. /\ SumFunctionOnSet(F, T \union {x}) = F[x] + SumFunctionOnSet(F, T)
        /\ SumFunctionOnSet(F, T) \in Int /\ F[x] \in Int
    BY <2>1, SumPlus
  <2>3. /\ SumFunctionOnSet(G, T \union {x}) = G[x] + SumFunctionOnSet(G, T)
        /\ SumFunctionOnSet(G, T) \in Int /\ G[x] \in Int
    BY <2>1, SumPlus
  <2>4. /\ SumFunctionOnSet(H, T \union {x}) = H[x] + SumFunctionOnSet(H, T)
        /\ SumFunctionOnSet(H, T) \in Int /\ H[x] \in Int
    BY <2>1, SumPlus
  <2>5. SumFunctionOnSet(F, T) = SumFunctionOnSet(G, T) + SumFunctionOnSet(H, T) /\ F[x] = G[x] + H[x]
    BY <1>2
  <2> QED
    BY <2>2, <2>3, <2>4, <2>5
<1> HIDE DEF P
<1>3. S \in P
  BY <1>1, <1>2, SubsetInduction
<1> QED
  BY <1>3 DEF P

\* A factor comes out of a sum.
LEMMA SumOfMultiples ==
  ASSUME NEW S, IsFiniteSet(S), NEW F \in [S -> Int], NEW G \in [S -> Int], NEW k \in Int,
         \A x \in S : F[x] = k * G[x]
  PROVE  SumFunctionOnSet(F, S) = k * SumFunctionOnSet(G, S)
<1> DEFINE P == {T \in SUBSET S : SumFunctionOnSet(F, T) = k * SumFunctionOnSet(G, T)}
<1>1. {} \in P
  BY SumOfNone
<1>2. ASSUME NEW T \in SUBSET S, T \in P, NEW x \in S \ T
      PROVE  T \union {x} \in P
  <2>1. IsFiniteSet(T)
    BY FS_Subset
  <2>2. /\ SumFunctionOnSet(F, T \union {x}) = F[x] + SumFunctionOnSet(F, T)
        /\ SumFunctionOnSet(F, T) \in Int /\ F[x] \in Int
    BY <2>1, SumPlus
  <2>3. /\ SumFunctionOnSet(G, T \union {x}) = G[x] + SumFunctionOnSet(G, T)
        /\ SumFunctionOnSet(G, T) \in Int /\ G[x] \in Int
    BY <2>1, SumPlus
  <2>4. SumFunctionOnSet(F, T) = k * SumFunctionOnSet(G, T) /\ F[x] = k * G[x]
    BY <1>2
  <2>5. k * (G[x] + SumFunctionOnSet(G, T)) = k * G[x] + k * SumFunctionOnSet(G, T)
    BY <2>3, Distributes
  <2>6. SumFunctionOnSet(F, T \union {x}) = k * SumFunctionOnSet(G, T \union {x})
    BY <2>2, <2>3, <2>4, <2>5
  <2> QED
    BY <2>6
<1> HIDE DEF P
<1>3. S \in P
  BY <1>1, <1>2, SubsetInduction
<1> QED
  BY <1>3 DEF P

\* `rows` sums f over B, and `sums` sums its `columns` over A.
Tabled(A, B, f, rows, columns, sums) ==
  /\ f \in [A -> [B -> Int]] /\ rows \in [A -> Int]
  /\ columns \in [B -> [A -> Int]] /\ sums \in [B -> Int]
  /\ \A x \in A : rows[x] = SumFunctionOnSet(f[x], B)
  /\ \A x \in A, y \in B : columns[y][x] = f[x][y]
  /\ \A y \in B : sums[y] = SumFunctionOnSet(columns[y], A)

\* The column sums of the first rows.
PartSums(B, columns, T) == [y \in B |-> SumFunctionOnSet(columns[y], T)]

LEMMA PartSumsFacts ==
  ASSUME NEW A, IsFiniteSet(A), NEW B, IsFiniteSet(B), NEW columns \in [B -> [A -> Int]], NEW T \in SUBSET A
  PROVE  /\ IsFiniteSet(T) /\ PartSums(B, columns, T) \in [B -> Int]
         /\ \A y \in B : PartSums(B, columns, T)[y] = SumFunctionOnSet(columns[y], T)
<1>1. IsFiniteSet(T)
  BY FS_Subset
<1>2. ASSUME NEW y \in B
      PROVE  SumFunctionOnSet(columns[y], T) \in Int
  <2>1. PICK F \in [A -> Int] : F = columns[y]
    OBVIOUS
  <2>2. SumFunctionOnSet(F, T) \in Int
    BY <1>1, SumAdds
  <2> QED
    BY <2>1, <2>2
<1> QED
  BY <1>1, <1>2 DEF PartSums

LEMMA PartSumsOfNone ==
  ASSUME NEW A, IsFiniteSet(A), NEW B, IsFiniteSet(B), NEW columns \in [B -> [A -> Int]]
  PROVE  SumFunctionOnSet(PartSums(B, columns, {}), B) = 0
<1>0. {} \in SUBSET A
  OBVIOUS
<1>1. PICK G : G = PartSums(B, columns, {})
  OBVIOUS
<1>2. G \in [B -> Int] /\ \A y \in B : G[y] = SumFunctionOnSet(columns[y], {})
  BY <1>0, <1>1, PartSumsFacts
<1>3. \A y \in B : G[y] = 0
  BY <1>2, SumOfNone
<1> PICK zero \in Int : zero = 0
  OBVIOUS
<1>4. \A y \in B : G[y] = zero * G[y]
  BY <1>2, <1>3
<1>5. G \in [B -> Int]
  BY <1>2
<1>6. SumFunctionOnSet(G, B) = zero * SumFunctionOnSet(G, B)
  BY <1>4, <1>5, SumOfMultiples
<1>7. SumFunctionOnSet(G, B) \in Int
  BY <1>5, SumIsInt
<1> QED
  BY <1>1, <1>6, <1>7

LEMMA PartSumsGrow ==
  ASSUME NEW A, IsFiniteSet(A), NEW B, IsFiniteSet(B), NEW columns \in [B -> [A -> Int]],
         NEW T \in SUBSET A, NEW x \in A \ T, NEW K \in [B -> Int], \A y \in B : columns[y][x] = K[y]
  PROVE  SumFunctionOnSet(PartSums(B, columns, T \union {x}), B)
           = SumFunctionOnSet(K, B) + SumFunctionOnSet(PartSums(B, columns, T), B)
<1> DEFINE U == T \union {x}
<1>1. U = T \union {x} /\ U \in SUBSET A
  OBVIOUS
<1> HIDE DEF U
<1>2. PICK G : G = PartSums(B, columns, T)
  OBVIOUS
<1>3. PICK H : H = PartSums(B, columns, U)
  OBVIOUS
<1>4. G \in [B -> Int] /\ \A y \in B : G[y] = SumFunctionOnSet(columns[y], T)
  BY <1>2, PartSumsFacts
<1>5. H \in [B -> Int] /\ \A y \in B : H[y] = SumFunctionOnSet(columns[y], U)
  BY <1>1, <1>3, PartSumsFacts
<1>6. IsFiniteSet(T)
  BY FS_Subset
<1>7. \A y \in B : H[y] = K[y] + G[y]
  <2> TAKE y \in B
  <2>1. PICK F \in [A -> Int] : F = columns[y]
    OBVIOUS
  <2>2. SumFunctionOnSet(F, T \union {x}) = F[x] + SumFunctionOnSet(F, T)
    BY <1>6, SumPlus
  <2>3. H[y] = SumFunctionOnSet(F, T \union {x}) /\ G[y] = SumFunctionOnSet(F, T) /\ F[x] = K[y]
    BY <1>1, <1>4, <1>5, <2>1
  <2> QED
    BY <2>2, <2>3
<1>8. G \in [B -> Int] /\ H \in [B -> Int]
  BY <1>4, <1>5
<1>9. SumFunctionOnSet(H, B) = SumFunctionOnSet(K, B) + SumFunctionOnSet(G, B)
  BY <1>7, <1>8, SumOfSums
<1> QED
  BY <1>1, <1>2, <1>3, <1>9

\* The order of two sums can be exchanged.
LEMMA SumsExchange ==
  ASSUME NEW A, IsFiniteSet(A), NEW B, IsFiniteSet(B), NEW f, NEW rows, NEW columns, NEW sums,
         Tabled(A, B, f, rows, columns, sums)
  PROVE  SumFunctionOnSet(rows, A) = SumFunctionOnSet(sums, B)
<1> DEFINE P == {T \in SUBSET A : SumFunctionOnSet(rows, T) = SumFunctionOnSet(PartSums(B, columns, T), B)}
<1>0. columns \in [B -> [A -> Int]] /\ rows \in [A -> Int]
  BY DEF Tabled
<1>1. {} \in P
  BY <1>0, PartSumsOfNone, SumOfNone
<1>2. ASSUME NEW T \in SUBSET A, T \in P, NEW x \in A \ T
      PROVE  T \union {x} \in P
  <2>1. SumFunctionOnSet(rows, T) = SumFunctionOnSet(PartSums(B, columns, T), B)
    BY <1>2
  <2> HIDE DEF P
  <2>2. PICK K : K = f[x] /\ K \in [B -> Int] /\ rows[x] = SumFunctionOnSet(K, B) /\ \A y \in B : columns[y][x] = K[y]
    BY DEF Tabled
  <2>3. SumFunctionOnSet(PartSums(B, columns, T \union {x}), B)
          = SumFunctionOnSet(K, B) + SumFunctionOnSet(PartSums(B, columns, T), B)
    BY <1>0, <2>2, PartSumsGrow
  <2>4. IsFiniteSet(T)
    BY FS_Subset
  <2>5. SumFunctionOnSet(rows, T \union {x}) = rows[x] + SumFunctionOnSet(rows, T)
    BY <1>0, <2>4, SumPlus
  <2> QED
    BY <2>1, <2>2, <2>3, <2>5 DEF P
<1> HIDE DEF P
<1>3. A \in P
  BY <1>1, <1>2, SubsetInduction
<1>4. PICK G : G = PartSums(B, columns, A)
  OBVIOUS
<1>5. G \in [B -> Int] /\ \A y \in B : G[y] = SumFunctionOnSet(columns[y], A)
  BY <1>0, <1>4, PartSumsFacts
<1>6. G = sums
  <2>1. sums \in [B -> Int] /\ \A y \in B : G[y] = sums[y]
    BY <1>5 DEF Tabled
  <2> QED
    BY <1>5, <2>1
<1> QED
  BY <1>3, <1>4, <1>6 DEF P

\* Terms that are zero can be left out.
LEMMA SumRestricts ==
  ASSUME NEW D, IsFiniteSet(D), NEW G \in [D -> Int], NEW T \in SUBSET D, \A x \in D \ T : G[x] = 0
  PROVE  SumFunctionOnSet(G, D) = SumFunctionOnSet(G, T)
<1> DEFINE R == D \ T
           P == {U \in SUBSET R : SumFunctionOnSet(G, T \union U) = SumFunctionOnSet(G, T)}
<1>1. {} \in P
  <2>1. T \union {} = T
    OBVIOUS
  <2> QED
    BY <2>1
<1>2. ASSUME NEW U \in SUBSET R, U \in P, NEW x \in R \ U
      PROVE  U \union {x} \in P
  <2> DEFINE V == T \union U
  <2>1. V \in SUBSET D /\ x \in D \ V /\ T \union (U \union {x}) = V \union {x}
    OBVIOUS
  <2>2. SumFunctionOnSet(G, V) = SumFunctionOnSet(G, T) /\ G[x] = 0
    BY <1>2
  <2> HIDE DEF V, P
  <2>3. IsFiniteSet(V)
    BY <2>1, FS_Subset
  <2>4. /\ SumFunctionOnSet(G, V \union {x}) = G[x] + SumFunctionOnSet(G, V)
        /\ SumFunctionOnSet(G, V) \in Int
    BY <2>1, <2>3, SumPlus
  <2>5. SumFunctionOnSet(G, V \union {x}) = SumFunctionOnSet(G, T)
    BY <2>2, <2>4
  <2> QED
    BY <2>1, <2>5 DEF P
<1>3. IsFiniteSet(R)
  <2>1. R \subseteq D
    OBVIOUS
  <2> QED
    BY <2>1, FS_Subset
<1> HIDE DEF P
<1>4. R \in P
  <2> HIDE DEF R
  <2> QED
    BY <1>1, <1>2, <1>3, SubsetInduction
<1>5. SumFunctionOnSet(G, T \union R) = SumFunctionOnSet(G, T)
  BY <1>4 DEF P
<1>6. T \union R = D
  OBVIOUS
<1> QED
  BY <1>5, <1>6

\* How many of them have a property, as a sum.
LEMMA CountIsSum ==
  ASSUME NEW D, IsFiniteSet(D), NEW G \in [D -> Int], NEW T \in SUBSET D,
         \A x \in D : G[x] = IF x \in T THEN 1 ELSE 0
  PROVE  SumFunctionOnSet(G, D) = Cardinality(T)
<1>1. IsFiniteSet(T)
  BY FS_Subset
<1>2. \A x \in D \ T : G[x] = 0
  OBVIOUS
<1>3. \A x \in T : G[x] = 1
  OBVIOUS
<1>4. SumFunctionOnSet(G, D) = SumFunctionOnSet(G, T)
  BY <1>2, SumRestricts
<1>5. SumFunctionOnSet(G, T) = Cardinality(T)
  BY <1>1, <1>3, SumCounts
<1> QED
  BY <1>4, <1>5

LEMMA SumOfOne ==
  ASSUME NEW D, NEW G \in [D -> Int], NEW y \in D
  PROVE  SumFunctionOnSet(G, {y}) = G[y]
<1>1. PICK none : none = {}
  OBVIOUS
<1>2. none \in SUBSET D /\ y \in D \ none /\ none \union {y} = {y} /\ IsFiniteSet(none)
  BY <1>1, FS_EmptySet
<1>3. SumFunctionOnSet(G, none \union {y}) = G[y] + SumFunctionOnSet(G, none)
  BY <1>2, SumPlus
<1>4. SumFunctionOnSet(G, none) = 0
  BY <1>1, SumOfNone
<1>5. none \union {y} = {y}
  BY <1>2
<1>6. SumFunctionOnSet(G, {y}) = G[y] + 0
  BY <1>3, <1>4, <1>5, Zenon
<1>7. G[y] \in Int
  OBVIOUS
<1> QED
  BY <1>6, <1>7

\* `parts` sums F over the elements with the same value of p.
Parted(D, F, E, p, parts) ==
  /\ F \in [D -> Int] /\ p \in [D -> E] /\ parts \in [E -> Int]
  /\ \A e \in E : parts[e] = SumFunctionOnSet(F, {x \in D : p[x] = e})

\* A sum is the sum of the sums of its parts.
LEMMA SumOfParts ==
  ASSUME NEW D, IsFiniteSet(D), NEW E, IsFiniteSet(E), NEW F, NEW p, NEW parts, Parted(D, F, E, p, parts)
  PROVE  SumFunctionOnSet(F, D) = SumFunctionOnSet(parts, E)
<1> DEFINE f == [x \in D |-> [e \in E |-> IF p[x] = e THEN F[x] ELSE 0]]
           columns == [e \in E |-> [x \in D |-> IF p[x] = e THEN F[x] ELSE 0]]
<1>1. F \in [D -> Int] /\ p \in [D -> E] /\ parts \in [E -> Int]
  BY DEF Parted
<1>2. f \in [D -> [E -> Int]] /\ columns \in [E -> [D -> Int]] /\ \A x \in D, e \in E : columns[e][x] = f[x][e]
  BY <1>1
<1>3. ASSUME NEW x \in D
      PROVE  F[x] = SumFunctionOnSet(f[x], E)
  <2>1. PICK G : G = f[x]
    OBVIOUS
  <2>2. G \in [E -> Int] /\ G[p[x]] = F[x] /\ p[x] \in E /\ \A e \in E \ {p[x]} : G[e] = 0
    BY <1>1, <2>1
  <2>3. PICK y \in E : y = p[x]
    BY <2>2
  <2> HIDE DEF f, columns
  <2>4. {y} \in SUBSET E /\ \A e \in E \ {y} : G[e] = 0
    BY <2>2, <2>3
  <2>5. SumFunctionOnSet(G, E) = SumFunctionOnSet(G, {y})
    BY <2>2, <2>4, SumRestricts
  <2>6. SumFunctionOnSet(G, {y}) = G[y]
    <3>1. G \in [E -> Int]
      BY <2>2
    <3> QED
      BY <3>1, SumOfOne
  <2> QED
    BY <2>1, <2>2, <2>3, <2>5, <2>6
<1>4. ASSUME NEW e \in E
      PROVE  parts[e] = SumFunctionOnSet(columns[e], D)
  <2>1. PICK G : G = columns[e]
    OBVIOUS
  <2>2. PICK T : T = {x \in D : p[x] = e}
    OBVIOUS
  <2>3. G \in [D -> Int] /\ T \in SUBSET D /\ (\A x \in D \ T : G[x] = 0) /\ (\A x \in T : F[x] = G[x])
    BY <1>1, <2>1, <2>2
  <2> HIDE DEF f, columns
  <2>4. SumFunctionOnSet(G, D) = SumFunctionOnSet(G, T)
    BY <2>3, SumRestricts
  <2>5. IsFiniteSet(T)
    BY <2>3, FS_Subset
  <2>6. SumFunctionOnSet(F, T) = SumFunctionOnSet(G, T)
    BY <2>3, <2>5, SumSame
  <2>7. parts[e] = SumFunctionOnSet(F, T)
    BY <2>2 DEF Parted
  <2> QED
    BY <2>1, <2>4, <2>6, <2>7
<1> HIDE DEF f, columns
<1>5. \A x \in D : F[x] = SumFunctionOnSet(f[x], E)
  BY <1>3
<1>6. \A e \in E : parts[e] = SumFunctionOnSet(columns[e], D)
  BY <1>4
<1>7. Tabled(D, E, f, F, columns, parts)
  BY <1>1, <1>2, <1>5, <1>6 DEF Tabled
<1> QED
  BY <1>7, SumsExchange

\* The squares of the parts of a sum, each over the size of its part, are no less
\* than the square of the sum over the whole size; K is a multiple of all sizes.
Squares(E, N, M, A, Q, K) ==
  /\ N \in [E -> Int] /\ M \in [E -> Nat] /\ A \in [E -> Int] /\ Q \in [E -> Int]
  /\ \A e \in E : M[e] * N[e] = K /\ Q[e] = M[e] * A[e] * A[e]

LEMMA SquareOfDifference ==
  ASSUME NEW M \in Nat, NEW N \in Int, NEW A \in Int, NEW n \in Int, NEW B \in Int, NEW K \in Int, M * N = K
  PROVE  (2 * n * K * B) * A <= n * n * (M * A * A) + (K * B * B) * N
<1>1. PICK d \in Int : d = n * A - N * B
  OBVIOUS
<1>2. d * d >= 0
  OBVIOUS
<1>3. M * (d * d) >= 0
  <2>1. PICK y \in Nat : y = d * d
    BY <1>2
  <2>2. M * y >= 0
    OBVIOUS
  <2> QED
    BY <2>1, <2>2
<1>4. d * d = n * n * A * A - 2 * n * N * A * B + N * N * B * B
  BY <1>1
<1>5. M * (d * d) = n * n * (M * A * A) - 2 * n * (M * N) * A * B + (M * N) * N * B * B
  BY <1>4
<1>6. M * (d * d) = n * n * (M * A * A) - 2 * n * K * A * B + K * N * B * B
  BY <1>5
<1>7. PICK u \in Int, v \in Int, w \in Int : u = n * n * (M * A * A) /\ v = 2 * n * K * A * B /\ w = K * N * B * B
  OBVIOUS
<1>8. v <= u + w
  BY <1>3, <1>6, <1>7
<1>9. v = (2 * n * K * B) * A /\ w = (K * B * B) * N
  BY <1>7
<1> QED
  BY <1>7, <1>8, <1>9

LEMMA SquaresOfParts ==
  ASSUME NEW E, IsFiniteSet(E), NEW N, NEW M, NEW A, NEW Q, NEW K \in Int, Squares(E, N, M, A, Q, K),
         NEW n \in Nat \ {0}, n = SumFunctionOnSet(N, E), NEW k \in Int, k * n = K
  PROVE  k * SumFunctionOnSet(A, E) * SumFunctionOnSet(A, E) <= SumFunctionOnSet(Q, E)
<1>1. /\ N \in [E -> Int] /\ M \in [E -> Nat] /\ A \in [E -> Int] /\ Q \in [E -> Int]
      /\ \A e \in E : M[e] * N[e] = K /\ Q[e] = M[e] * A[e] * A[e]
  BY DEF Squares
<1>2. SumFunctionOnSet(A, E) \in Int
  BY <1>1, SumIsInt
<1>3. PICK B \in Int : B = SumFunctionOnSet(A, E)
  BY <1>2
<1>4. SumFunctionOnSet(Q, E) \in Int
  BY <1>1, SumIsInt
<1>5. PICK q \in Int : q = SumFunctionOnSet(Q, E)
  BY <1>4
<1>6. PICK x \in Int, y \in Int, z \in Int : x = 2 * n * K * B /\ y = K * B * B /\ z = n * n
  OBVIOUS
<1> DEFINE G == [e \in E |-> z * Q[e]]
<1>7. G \in [E -> Int] /\ \A e \in E : G[e] = z * Q[e]
  <2>1. \A e \in E : Q[e] \in Int
    BY <1>1
  <2>2. \A e \in E : z * Q[e] \in Int
    BY <2>1
  <2> QED
    BY <2>2
<1>8. \A e \in E : x * A[e] <= G[e] + y * N[e]
  <2> TAKE e \in E
  <2>1. PICK Me \in Nat, Ne \in Int, Ae \in Int : Me = M[e] /\ Ne = N[e] /\ Ae = A[e]
    BY <1>1
  <2>2. Me * Ne = K /\ Q[e] = Me * Ae * Ae
    BY <1>1, <2>1
  <2>3. (2 * n * K * B) * Ae <= n * n * (Me * Ae * Ae) + (K * B * B) * Ne
    <3>1. n \in Int
      OBVIOUS
    <3> QED
      BY <2>2, <3>1, SquareOfDifference
  <2>4. x * Ae <= z * Q[e] + y * Ne
    BY <1>6, <2>2, <2>3, Zenon
  <2> QED
    BY <1>7, <2>1, <2>4
<1>9. SumFunctionOnSet(G, E) = z * SumFunctionOnSet(Q, E)
  <2> HIDE DEF G
  <2> QED
    BY <1>1, <1>7, SumOfMultiples
<1>10. x * SumFunctionOnSet(A, E) <= SumFunctionOnSet(G, E) + y * SumFunctionOnSet(N, E)
  <2> HIDE DEF G
  <2>1. E \in SUBSET E /\ A \in [E -> Int] /\ G \in [E -> Int] /\ N \in [E -> Int]
    BY <1>1, <1>7
  <2> QED
    BY <1>8, <2>1, SumCompares
<1>11. x * B <= z * q + y * n
  BY <1>3, <1>5, <1>9, <1>10
<1>12. (2 * n * K * B) * B <= (n * n) * q + (K * B * B) * n
  BY <1>6, <1>11
<1>13. PICK v \in Int : v = K * B * B * n
  OBVIOUS
<1>14. (2 * n * K * B) * B = 2 * v /\ (K * B * B) * n = v
  BY <1>13
<1>15. v <= (n * n) * q
  <2>1. (n * n) * q \in Int
    OBVIOUS
  <2> QED
    BY <1>12, <1>14, <2>1
<1>16. v = (n * n) * (k * B * B)
  <2>1. v = (k * n) * B * B * n
    BY <1>13
  <2>2. (k * n) * B * B * n = (n * n) * (k * B * B)
    OBVIOUS
  <2> QED
    BY <2>1, <2>2
<1>17. PICK N2 \in Nat \ {0} : N2 = n * n
  OBVIOUS
<1>18. k * B * B <= q
  <2>1. k * B * B \in Int
    OBVIOUS
  <2>2. N2 * (k * B * B) <= N2 * q
    BY <1>15, <1>16, <1>17
  <2> QED
    BY <2>1, <2>2, Cancels
<1> QED
  BY <1>3, <1>5, <1>18

===============================================================================

-------------------------- MODULE PairedRandomization --------------------------
(***************************************************************************)
(* paired_randomization.py, for samples that are small enough to enumerate *)
(* all signs: the test of a zero mean of paired differences by sign flips, *)
(* and the interval that inverts the same test.  Differences are integers  *)
(* and arrive one system at a time; hypotheses theta are in units of       *)
(* 1/Unit, p-values are counts out of all sign patterns.                   *)
(***************************************************************************)
EXTENDS Integers, Sequences, FiniteSets, FiniteSetsExt, Functions

CONSTANTS
  Effects,   \* the paired differences that a system can have
  MaxPairs,  \* exact_max_pairs: the bound on the sample
  Unit,      \* hypotheses are multiples of 1/Unit
  Reach,     \* and lie between -Reach and Reach
  Alpha      \* one minus the confidence, in percent

ASSUME RandomizationAssumption ==
  /\ Effects \subseteq Int /\ MaxPairs \in Nat \ {0}
  /\ Unit \in Nat \ {0} /\ Reach \in Nat /\ Alpha \in 1..99

VARIABLE differences

pairedVars == <<differences>>

Hypotheses == (0 - Reach)..Reach

\* _sign_matrix, one row per function; effective_draws is the number of rows.
Signs(n) == [1..n -> {-1, 1}]
Draws(n) == Cardinality(Signs(n))

Magnitude(x) == IF x < 0 THEN 0 - x ELSE x

\* The flipped mean of the differences less theta, times Unit and n.
Flipped(d, s, theta) ==
  SumFunctionOnSet([k \in DOMAIN d |-> s[k] * (Unit * d[k] - theta)], DOMAIN d)

\* No sign is flipped: what the sample itself shows.
AsSeen(d, theta) == Flipped(d, [k \in DOMAIN d |-> 1], theta)

Observed(d, theta) == Magnitude(AsSeen(d, theta))

\* Faulty variant: the flips of the data are compared with the shifted mean.
ExceedancesUncentred(d, theta) ==
  Cardinality({s \in Signs(Len(d)) : Magnitude(Flipped(d, s, 0)) >= Observed(d, theta)})

\* p_value, as a count
Exceedances(d, theta) ==
  Cardinality({s \in Signs(Len(d)) : Magnitude(Flipped(d, s, theta)) >= Observed(d, theta)})

AllTies(d) == \A k \in DOMAIN d : d[k] = 0

\* Ties only are a result of their own, with p-value one.
PValue(d) == IF AllTies(d) THEN Draws(Len(d)) ELSE Exceedances(d, 0)

Significant(count, n) == 100 * count < Alpha * Draws(n)

\* accepted
Accepted(d, theta) == ~Significant(Exceedances(d, theta), Len(d))

\* One half of the bisection from a rejected hypothesis to the mean, here over
\* the multiples of the unit; without a rejected hypothesis the end is open.
LowEnd(d) ==
  LET below == {theta \in Hypotheses : AsSeen(d, theta) >= 0}
      rejected == {theta \in below : ~Accepted(d, theta)}
  IN  IF rejected = {} THEN 0 - Reach ELSE Max(rejected) + 1

HighEnd(d) ==
  LET above == {theta \in Hypotheses : AsSeen(d, theta) <= 0}
      rejected == {theta \in above : ~Accepted(d, theta)}
  IN  IF rejected = {} THEN Reach ELSE Min(rejected) - 1

PairedInit == differences = <<>>

\* Another paired system.
Add ==
  /\ Len(differences) < MaxPairs
  /\ \E e \in Effects : differences' = Append(differences, e)

PairedSpec == PairedInit /\ [][Add]_pairedVars

-------------------------------------------------------------------------------
(* Properties.                                                              *)

\* If the signs of the differences are nothing but chance, the share of sign
\* patterns that the test calls significant does not exceed alpha.
LevelIsKept ==
  LET n == Len(differences)
      pattern(s) == [k \in 1..n |-> s[k] * differences[k]]
  IN  n > 0 =>
        100 * Cardinality({s \in Signs(n) : Significant(PValue(pattern(s)), n)}) <= Alpha * Draws(n)

\* The interval says what the test says: bisection is sound because the
\* accepted hypotheses have no gap, the interval leaves out zero exactly when
\* the p-value is significant, and it moves with the data.
IntervalInvertsTest ==
  LET d == differences
      moved == [k \in DOMAIN d |-> d[k] + 1]
  IN  d # <<>> /\ ~AllTies(d) =>
        /\ \A theta \in Hypotheses : Accepted(d, theta) <=> theta \in LowEnd(d)..HighEnd(d)
        /\ (0 \in LowEnd(d)..HighEnd(d)) <=> ~Significant(PValue(d), Len(d))
        /\ \A theta \in Hypotheses : Accepted(d, theta) <=> Accepted(moved, theta + Unit)

\* The sign-flip test is significant for at most its level of the sign
\* patterns, and its interval holds the hypotheses that the test accepts.
TestKeepsItsLevel == LevelIsKept /\ IntervalInvertsTest

===============================================================================

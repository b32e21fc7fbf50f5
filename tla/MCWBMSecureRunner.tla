-------------------------- MODULE MCWBMSecureRunner --------------------------
(* A small instance for TLC, a binary system: the elements at 0 and 4 with *)
(* energy 0, compositions at 1, 2 and 3.  `a` is a discovery that `b`      *)
(* invalidates, `d` lies one tolerance above `b`, `c` lies below both, was *)
(* observed before the others and is missing from the universe, the vault  *)
(* disagrees with `e`, and `f` is in the universe only.                    *)
EXTENDS FIFOEmulation

CONSTANTS a, b, c, d, e, f

MCQueries == {a, b, c, d, e}
MCMatching == {a, b, c, d}
MCUniverse == {a, b, d, f}
MCCost == [q \in MCQueries |-> IF q = c THEN 2 ELSE 1]
MCEnergy == [q \in MCQueries |->
  IF q = a THEN -12 ELSE IF q = b THEN -24 ELSE IF q = d THEN -23 ELSE IF q = c THEN -36 ELSE 0]
MCThreshold == [q \in MCQueries |-> 0]
MCAsOf == [q \in MCQueries |-> 0]
MCObservedAt == [q \in MCQueries |-> IF q = c THEN 1 ELSE 2]

\* The lower hull of points of composition 0..4, exact to a unit.
Place(p) == IF p = a THEN 2 ELSE IF p \in {b, c, d} THEN 1 ELSE 3
Points(S) ==
  {<<0, 0>>, <<4, 0>>} \union
    {<<Place(p), IF p = f THEN -24 ELSE MCEnergy[p]>> : p \in S}
Lower(points, x) ==
  LET at == {p[2] : p \in {p \in points : p[1] = x}}
      between == {((r[1] - x) * l[2] + (x - l[1]) * r[2]) \div (r[1] - l[1]) :
                    <<l, r>> \in {w \in points \X points : w[1][1] < x /\ x < w[2][1]}}
  IN  CHOOSE y \in at \union between : \A z \in at \union between : y <= z
MCHullAt ==
  [S \in SUBSET (MCQueries \union MCUniverse) |-> [q \in MCQueries |-> Lower(Points(S), Place(q))]]

===============================================================================

-------------------------- MODULE MCStreamingMemories --------------------------
(* Four cards for two places and two queries.  The tables are families of  *)
(* arithmetic patterns: they need no order among sets of cards, and they    *)
(* contain ties, ineffective cards and cards that only help together.      *)
EXTENDS StreamingMemories

CONSTANTS q1, q2

MCCards == 1..4
MCQueries == {q1, q2}
MCBoundary == [q \in MCQueries |-> IF q = q1 THEN 2 ELSE 1]
MCPools == {{q1}, {q1, q2}}

Code(S) == Total(LAMBDA c : 2^(c - 1), S)
Place(q) == IF q = q1 THEN 1 ELSE 2
MCPosteriors ==
  {[S \in SUBSET MCCards |-> [q \in MCQueries |-> (3 + a * Code(S) + b * Place(q) * Cardinality(S)) % 7]] :
     a \in 0..3, b \in 0..3}
MCVariances ==
  {[S \in SUBSET MCCards |-> [q \in MCQueries |-> 20 - 3 * Cardinality(S) - ((a * Code(S) * Place(q)) % 5)]] :
     a \in 1..2}
MCSimilarity == [q \in MCQueries |-> [c \in MCCards |-> (c * Place(q)) % 4]]
MCDivergence == [w \in (0..6) \X (0..6) |-> (w[1] - w[2]) * (w[1] - w[2])]
MCLogDivergence ==
  [w \in (0..6) \X (0..6) |-> IF w[1] < w[2] THEN w[2] - w[1] ELSE w[1] - w[2]]
===============================================================================

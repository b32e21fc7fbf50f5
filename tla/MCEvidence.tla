------------------------------- MODULE MCEvidence -------------------------------
(* What counts as evidence inside a campaign, and which outcomes reach one:    *)
(* EvidenceFlow and TaskLineage under one specification.  A behaviour belongs  *)
(* to one of them and leaves the variables of the other as they were.          *)
EXTENDS EvidenceFlow, TaskLineage, TLC

VARIABLE side

-------------------------------------------------------------------------------
(* Eight pairs of seven structures of five systems, the fifth structure        *)
(* matched twice; groupings that fit, that overlap in a structure, that leak   *)
(* and that have too few structures; cards of two protocols and of a third,    *)
(* one inconsistent, one of a relaxed structure, one that cites a later hull.  *)

MCProtocols == {"pbe", "r2scan"}
MCStructureOf == <<1, 2, 3, 4, 5, 6, 7, 5>>
MCPairSystem == <<1, 1, 2, 3, 3, 4, 5, 3>>
MCErrorTables ==
  {<<0, 1, 0, 1, b, c, 1, 0>> : b \in {0, 2}, c \in {0, 3}} \union {<<0, 1, 0, 0, 2, 3, 1, 2>>}
MCGroupings ==
  {[fit |-> {1, 2, 3}, radius |-> {4, 5, 6, 7, 8}, held |-> {}],
   [fit |-> {1, 2, 3}, radius |-> {4, 6, 7}, held |-> {5}],
   [fit |-> {2, 3, 8}, radius |-> {4, 5, 7}, held |-> {}],
   [fit |-> {1, 2, 3}, radius |-> {5, 6, 7}, held |-> {3}],
   [fit |-> {1, 2, 3}, radius |-> {5, 7, 8}, held |-> {}]}

Initial == [stage |-> "initial", field |-> "org", available |-> TRUE]
LowFidelity == [stage |-> "low_fidelity_relaxed", field |-> "external_low_fidelity", available |-> TRUE]
Relaxed == [stage |-> "relaxed", field |-> "opt", available |-> FALSE]
Hull == [known |-> 1, built |-> 2, energy |-> -1]

Card(id, protocol, embedding, residual, artifact, observed) ==
  [id |-> id, protocol |-> protocol, embedding |-> embedding, residual |-> residual,
   energy |-> residual - 1, base |-> -1, artifact |-> artifact, hull |-> Hull, observed |-> observed]

MCRaw ==
  {Card(1, "r2scan", "a", -1, Initial, 2), Card(2, "pbe", "a", -4, LowFidelity, 2),
   Card(3, "hse", "b", 1, Initial, 3), Card(4, "r2scan", "b", 0, Initial, 3), Card(8, "pbe", "b", 0, Initial, 3),
   Card(5, "r2scan", "b", -2, Relaxed, 3), Card(6, "pbe", "a", 1, Initial, 1),
   [Card(7, "r2scan", "a", 1, Initial, 3) EXCEPT !.energy = 2]}

MCQueries ==
  {[protocol |-> p, embedding |-> e, base |-> 0, threshold |-> t, hull |-> Hull,
    artifact |-> Initial, asOf |-> 2] : p \in {"r2scan", "pbe"}, e \in {"a", "b"}, t \in {0, 1}}

ASSUME QueriesAssumption == \A q \in MCQueries : QueryIsCausal(q)

MCResiduals == -4..4

MCSimilarity == [p \in {"a", "b"} \X {"a", "b"} |-> IF p[1] = p[2] THEN 3 ELSE IF p[1] = "a" THEN 1 ELSE 0]

-------------------------------------------------------------------------------
(* A MatPES release of four binary and four ternary systems with two to four   *)
(* pairs each, one with two pairs of a parent, one with two of a composition;  *)
(* a MAD release with a changed pair; a JARVIS release with elemental          *)
(* references.  Systems 9 to 11 are elements; the pairs of system k are        *)
(* 100k + 1, 100k + 2 and so on.                                               *)

LElementsOf ==
  <<{"B", "C"}, {"A", "B", "E"}, {"A", "D"}, {"A", "B", "C"}, {"A", "C"}, {"B", "C", "E"},
    {"A", "B"}, {"A", "C", "D"}, {"A"}, {"B"}, {"C"}>>

Size == <<4, 3, 3, 4, 3, 3, 3, 2, 1, 1, 1>>
LPairs == UNION {{100 * k + i : i \in 1..Size[k]} : k \in 1..11}
LSystemOf == [p \in LPairs |-> p \div 100]
LParentOf == [p \in LPairs |-> IF p = 102 THEN 101 ELSE p]
LCompositionOf == [p \in LPairs |-> IF p = 303 THEN 302 ELSE p]

\* Another order for every salt: a multiplication modulo a prime.
Factor ==
  [development |-> 1, pair |-> 5, name |-> 1, confirmatory |-> 7, crossfit |-> 3, pool |-> 11,
   query_pool |-> 17, equivalence |-> 419, e55 |-> 1086, curve |-> 29, closed_loop |-> 31, system |-> 2]
LHash == [x \in Salts \X (1..1103) |-> (Factor[x[1]] * x[2]) % 1109]

Alloyed == {p \in LPairs : p < 900}
Half == {p \in Alloyed : p < 500}
LReleases ==
  {[name |-> "matpes", pbe |-> Alloyed, r2scan |-> Alloyed, changed |-> {}, authorized |-> TRUE],
   [name |-> "mad", pbe |-> Half, r2scan |-> Half \ {101}, changed |-> {201}, authorized |-> TRUE],
   [name |-> "jarvis", pbe |-> Half, r2scan |-> Half \union (LPairs \ Alloyed), changed |-> {202},
    authorized |-> TRUE]}
LSizes == {[systems |-> 8, candidates |-> 4, minimum |-> 2, parents |-> 1]}
LFoldChoices == {<<2, 3>>, <<1, 1>>}

\* What the behaviours look into: the convergence study of a clean-room split,
\* a reduced query pool, a pool reduced everywhere, the equivalence roster and
\* runs of a fold with one frozen model, another or none, the curve over two
\* releases, and the JARVIS tasks.
Opened == ("matpes" :> 1) @@ ("confirmatory" :> 1) @@ ("frozen" :> 1) @@ ("crossfit" :> 1)
LBounds ==
  {Opened @@ ("development" :> 1) @@ ("confirmation" :> 1) @@ ("e55_cal" :> 1) @@ ("e55_runner" :> 2)
     @@ ("result" :> 2),
   Opened @@ ("development" :> 1) @@ ("confirmation" :> 1) @@ ("query_pool_shift" :> 4) @@ ("result" :> 3),
   Opened @@ ("pool_shift" :> 4) @@ ("result" :> 3),
   Opened @@ ("development" :> 1) @@ ("confirmation" :> 1) @@ ("pool_shift" :> 4) @@ ("result" :> 2),
   ("frozen" :> 2) @@ Opened @@ ("equivalence" :> 1) @@ ("result" :> 2),
   ("frozen" :> 2) @@ Opened @@ ("result" :> 3),
   ("mad" :> 1) @@ ("matpes" :> 1) @@ ("curve" :> 1) @@ ("frozen" :> 1) @@ ("result" :> 2),
   ("jarvis" :> 2)}

-------------------------------------------------------------------------------

bothVars == <<side, flowVars, lineageVars>>

MCEvidenceInit ==
  \/ side = "evidence" /\ FlowInit /\ files = {} /\ most = <<>>
  \/ side = "lineage" /\ LineageInit /\ FlowInit /\ err = <<0, 1, 0, 1, 0, 0, 1, 0>>

Flow == side = "evidence" /\ FlowNext /\ UNCHANGED <<side, lineageVars>>
Tools == side = "lineage" /\ LineageNext /\ UNCHANGED <<side, flowVars>>

MCEvidenceSpec == MCEvidenceInit /\ [][Flow \/ Tools]_bothVars

===============================================================================

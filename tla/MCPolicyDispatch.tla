--------------------------- MODULE MCPolicyDispatch ---------------------------
(* Systems of three queries on a binary hull of four atoms: with ties of    *)
(* composition and of energy, a compound among the references, source       *)
(* energies that point the wrong way, and two to four worlds, in some of    *)
(* which the answer least likely to be stable teaches the most.             *)
EXTENDS PolicyDispatch

MCGrid == 4
MCScale == 12

Elemental == <<[x |-> 0, e |-> 0], [x |-> 4, e |-> 0]>>

System(xs, source, rank, references, worlds, supported, budget) ==
  [xs |-> xs, source |-> source, rank |-> rank, references |-> references,
   worlds |-> worlds, supported |-> supported, budget |-> budget]

MCSystems ==
  {System(<<1, 2, 3>>, <<-2, -1, -2>>, <<2, 1, 3>>, Elemental, w, TRUE, b) :
     b \in {2, 3},
     w \in {{<<-2, -3, -1>>, <<-1, -1, -2>>}, {<<1, -1, -1>>, <<-1, 1, -1>>, <<-1, -2, -1>>}}}
  \union
  {System(<<2, 1, 2>>, <<-1, 0, -2>>, <<1, 3, 2>>, Elemental \o <<[x |-> 2, e |-> -1]>>, w, TRUE, 2) :
     w \in {{<<-2, -1, -2>>, <<0, -2, -1>>}, {<<-3, -1, 0>>, <<-1, -2, -3>>, <<-1, 1, -2>>},
            {<<-2, -2, -2>>, <<-2, 1, -2>>, <<-1, -2, -3>>}}}
  \union
  {System(<<1, 2, 3>>, <<-1, -2, -1>>, <<2, 1, 3>>, Elemental, w, TRUE, b) :
     b \in {2, 3},
     w \in {{<<-3, -1, -1>>, <<-2, -3, -1>>, <<-2, -2, -2>>, <<-1, -2, -2>>},
            {<<-3, -1, -1>>, <<-2, -2, -2>>, <<-1, -2, -1>>, <<1, -2, -1>>}}}
  \union
  {System(<<1, 2, 3>>, <<-1, -3, -2>>, <<3, 2, 1>>, Elemental, {<<-1, -3, -1>>, <<1, 0, -2>>}, FALSE, 2)}

MCPolicyNames == SourcePolicies \union HullPolicies
MCThresholds == {0, 1}
MCRadii == {0, 1}

\* Two blocks; the critical values fall between the ratios that they can take.
MCBlockCount == 2
MCCritical2 == <<1, 2, 3, 4, 5, 6>>

\* Worlds of their own for every action multiply the streams: two samples then.
MCInit == Init /\ (policy \in {"independent_mc_ic_sarr", "diagonal_ic_sarr"}
                     => Cardinality(system.worlds) = 2)

MCSpec == MCInit /\ [][Next]_vars
===============================================================================

----------------------------- MODULE HullGeometry -----------------------------
(***************************************************************************)
(* hull_geometry.py: who is on the lower hull of a binary system, and what *)
(* the hull is worth at a composition.  The module has no state; the       *)
(* acquisition policies and the closed loop call its operators.            *)
(*                                                                         *)
(* A composition is a number x of atoms of the second element out of Grid, *)
(* so equal reduced compositions are equal numbers.  Energies per atom are *)
(* integers, energies of the hull are in units of 1/Scale, in which every  *)
(* chord between two compositions has an integer value.  A phase is a      *)
(* record [x, e].  Qhull, which the code calls for three elements and      *)
(* more, is not modelled.                                                  *)
(***************************************************************************)
EXTENDS Integers, Sequences, SequencesExt, FiniteSets, FiniteSetsExt, Functions

CONSTANTS
  Grid,   \* compositions are 0..Grid, the elements are 0 and Grid
  Scale   \* a common multiple of the distances between compositions

ASSUME GeometryAssumption ==
  /\ Grid \in Nat \ {0} /\ Scale \in Nat \ {0}
  /\ \A d \in 1..Grid : Scale % d = 0

Compositions == 0..Grid
Elements == {0, Grid}

\* The numbers of a finite set in ascending order: the i-th has i - 1 below it.
InOrder(S) == [i \in 1..Cardinality(S) |-> CHOOSE x \in S : Cardinality({y \in S : y < x}) = i - 1]

\* The amount of an element in a composition, out of Grid.
Amount(element, x) == IF element = 0 THEN Grid - x ELSE x

-------------------------------------------------------------------------------
(* FixedCompositionHullTemplate: the references come first, then the        *)
(* queries; only their compositions are kept.                               *)

Template(queryXs, referenceXs) ==
  [xs |-> referenceXs \o queryXs, references |-> Len(referenceXs)]

\* from_compositions refuses a system that lacks an elemental phase.
HasTemplate(t) ==
  /\ t.references > 0 /\ Len(t.xs) > t.references
  /\ Elements \subseteq ToSet(t.xs) /\ ToSet(t.xs) \subseteq Compositions

Entries(t) == 1..Len(t.xs)
Candidates(t) == (t.references + 1)..Len(t.xs)

\* duplicate_composition_groups
Group(t, x) == {i \in Entries(t) : t.xs[i] = x}

\* entry_names: "query:i" comes before "reference:j" in the order of strings.
NameBefore(t, i, j) ==
  LET isQuery(k) == k > t.references
  IN  IF isQuery(i) = isQuery(j) THEN i < j ELSE isQuery(i)

\* The entry that stands for its composition: the lowest energy, then the name.
Winner(t, energy, x) ==
  CHOOSE i \in Group(t, x) :
    \A j \in Group(t, x) \ {i} :
      energy[i] < energy[j] \/ (energy[i] = energy[j] /\ NameBefore(t, i, j))

\* Formation energy of the winner above the line of the elements, times Grid.
Formation(t, energy, x) ==
  Grid * energy[Winner(t, energy, x)]
    - SumFunctionOnSet([el \in Elements |-> Amount(el, x) * energy[Winner(t, energy, el)]], Elements)

ActiveCompositions(t, energy) ==
  Elements \union {x \in ToSet(t.xs) : Formation(t, energy, x) < 0}

Cross(left, middle, next) ==
  (middle.x - left.x) * (next.e - left.e) - (middle.e - left.e) * (next.x - left.x)

\* Faulty variant: only one point is popped.
PushedOnce(chain, point) ==
  LET n == Len(chain)
  IN  IF n >= 2 /\ Cross(chain[n - 1], chain[n], point) <= 0
      THEN Append(Front(chain), point) ELSE Append(chain, point)

\* Points that do not turn left to the new one are popped from the end.
Pushed(chain, point) ==
  LET keeps(k) == k = 1 \/ Cross(chain[k - 1], chain[k], point) > 0
  IN  IF chain = <<>> THEN <<point>>
      ELSE Append(SubSeq(chain, 1, Max({k \in 1..Len(chain) : keeps(k)})), point)

\* The points are pushed one after the other.
Chain(points) ==
  LET chain[k \in 0..Len(points)] == IF k = 0 THEN <<>> ELSE Pushed(chain[k - 1], points[k])
  IN  chain[Len(points)]

\* lower_chain over binary_group_order
LowerChain(t, energy) ==
  LET ordered == InOrder(ActiveCompositions(t, energy))
      point(x) == [x |-> x, e |-> energy[Winner(t, energy, x)]]
  IN  Chain([k \in DOMAIN ordered |-> point(ordered[k])])

\* _fixed_stable_candidate_mask: a candidate is stable when it stands for its
\* composition and the composition is on the chain.
StableMask(t, energy) ==
  LET onChain == {p.x : p \in ToSet(LowerChain(t, energy))}
  IN  {i \in Candidates(t) : t.xs[i] \in onChain /\ Winner(t, energy, t.xs[i]) = i}

\* _final_hull_membership for one energy vector; queries are numbered from 1.
Membership(queryXs, queryEnergies, references) ==
  LET t == Template(queryXs, [k \in DOMAIN references |-> references[k].x])
      energy == [k \in DOMAIN references |-> references[k].e] \o queryEnergies
  IN  {k \in DOMAIN queryXs : k + t.references \in StableMask(t, energy)}

-------------------------------------------------------------------------------
(* The hull of a phase diagram, as the code asks pymatgen for it.           *)

\* The chord over x from the vertex l to the vertex r.
Chord(l, r, x) ==
  IF l = r THEN Scale * l.e
  ELSE (Scale \div (r.x - l.x)) * ((r.x - x) * l.e + (x - l.x) * r.e)

\* The chord of the two neighbouring vertices; a chain has one for every x.
OnChain(chain, x) ==
  Chord(CHOOSE l \in ToSet(chain) : l.x <= x /\ \A p \in ToSet(chain) : p.x <= x => p.x <= l.x,
        CHOOSE r \in ToSet(chain) : r.x >= x /\ \A p \in ToSet(chain) : p.x >= x => p.x >= r.x,
        x)

\* get_hull_energy_per_atom
HullOf(phases, x) ==
  OnChain(LowerChain([xs |-> [k \in DOMAIN phases |-> phases[k].x], references |-> 0],
                     [k \in DOMAIN phases |-> phases[k].e]), x)

\* _build_computed_entries
ComputedEntries(xs, energies) == [k \in DOMAIN xs |-> [x |-> xs[k], e |-> energies[k]]]

\* _fixed_evaluation_compositions: does not change when a query is revealed.
EvaluationCompositions(queryXs, references) ==
  ToSet(queryXs) \union {p.x : p \in ToSet(references)}

\* _final_hull_values for one energy vector
FinalHull(queryXs, queryEnergies, references) ==
  [x \in EvaluationCompositions(queryXs, references) |->
     HullOf(references \o ComputedEntries(queryXs, queryEnergies), x)]

\* _current_hull_energies: the hull of the references, as a formation energy
\* above the elements of that same diagram.
FormationHull(hull, x) ==
  hull[x] - SumFunctionOnSet([el \in Elements |-> Amount(el, x) * hull[el]], Elements) \div Grid

HullAt(hull, xs) == [k \in DOMAIN xs |-> FormationHull(hull, xs[k])]

CurrentHull(queryXs, references) ==
  HullAt([x \in Elements \union ToSet(queryXs) |-> HullOf(references, x)], queryXs)

-------------------------------------------------------------------------------
(* _CausalHullEnvelope: every decomposition of a composition into active    *)
(* phases, and the cheapest of them.                                        *)

\* The simplices that contain x with their weights; a vertex of weight zero is
\* dropped, so that one decomposition is kept once.
Decompositions(activeXs, x) ==
  {LET left == activeXs[p[1]]  right == activeXs[p[2]]
       weight(i) == (Scale \div (right - left)) * (IF i = p[1] THEN right - x ELSE x - left)
   IN  [i \in {j \in {p[1], p[2]} : weight(j) # 0} |-> weight(i)] :
     p \in {q \in (DOMAIN activeXs) \X (DOMAIN activeXs) :
              /\ activeXs[q[1]] <= x /\ x <= activeXs[q[2]]
              /\ activeXs[q[1]] < activeXs[q[2]]}}

DecompositionEnergy(d, energy) == SumFunctionOnSet([i \in DOMAIN d |-> d[i] * energy[i]], DOMAIN d)

\* competing_hull_energies
CompetingHull(phases, x) ==
  LET energy == [k \in DOMAIN phases |-> phases[k].e]
      xs == [k \in DOMAIN phases |-> phases[k].x]
  IN  Min({DecompositionEnergy(d, energy) : d \in Decompositions(xs, x)})

\* complete_pool_posterior_mean_hull_margin: the k-th query against the hull of
\* everything else.
LeaveOneOutMargin(queryXs, queryEnergies, references, k) ==
  LET phases == references \o ComputedEntries(queryXs, queryEnergies)
      energy == [i \in DOMAIN phases |-> phases[i].e]
      xs == [i \in DOMAIN phases |-> phases[i].x]
      competing == {d \in Decompositions(xs, queryXs[k]) : Len(references) + k \notin DOMAIN d}
  IN  Scale * queryEnergies[k] - Min({DecompositionEnergy(d, energy) : d \in competing})

===============================================================================

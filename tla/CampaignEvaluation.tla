--------------------------- MODULE CampaignEvaluation ---------------------------
(***************************************************************************)
(* _evaluate_action_trace of run_matpes_protocol_closed_loop_exploratory:  *)
(* the trace of a campaign is replayed with the outcomes of the whole      *)
(* pool, and what was declared stable on the way is adjudicated twice: by  *)
(* the hull of everything selected and by the hull of the complete pool.   *)
(* Beside it, intervals around the energies that were not revealed feed    *)
(* the robust certificate.                                                 *)
(***************************************************************************)
EXTENDS HullCertificate

CONSTANTS
  Evaluated,  \* records [xs, truth, source, references, radius]
  Tolerance,  \* stability_tolerance_ev_per_atom, in units of the hull
  Epsilon,    \* how near to the best an action has to be
  Level       \* one minus the alpha of the radius, in percent

\* A diagram of the references alone is built before the first margin, which
\* takes a phase of each element.
ASSUME EvaluationAssumption ==
  /\ Tolerance \in Nat /\ Epsilon \in Nat /\ Level \in 1..99
  /\ \A s \in Evaluated :
       /\ s.xs \in Seq(Compositions)
       /\ {s.truth, s.source} \subseteq [1..Len(s.xs) -> Int] /\ s.radius \in Nat
       /\ s.references \in Seq([x : Compositions, e : Int])
       /\ Elements \subseteq {s.references[i].x : i \in 1..Len(s.references)}

VARIABLES
  pool,      \* the system: its queries, their energies and the references
  selected,  \* queries in the order of the trace
  entries,   \* phases of the causal diagram: references, then selected
  rounds     \* per selected query: [margin, best, stable]

evaluationVars == <<pool, selected, entries, rounds>>

Pool(s) == DOMAIN s.xs
Unselected == Pool(pool) \ ToSet(selected)

Phase(s, k) == [x |-> s.xs[k], e |-> s.truth[k]]

\* oracle_pool_entries
OraclePool(s) == s.references \o ComputedEntries(s.xs, s.truth)

\* get_e_above_hull(entry, allow_negative=True)
AboveHull(phases, phase) == Scale * phase.e - HullOf(phases, phase.x)

\* stable_entries of pymatgen: the first of the cheapest at every vertex.
StableEntries(phases) ==
  LET t == [xs |-> [k \in DOMAIN phases |-> phases[k].x], references |-> 0]
  IN  StableMask(t, [k \in DOMAIN phases |-> phases[k].e])

\* oracle_pool_final_labels_by_pair_id
OracleLabels(s) == {k \in Pool(s) : Len(s.references) + k \in StableEntries(OraclePool(s))}

EvaluationInit ==
  /\ pool \in {s \in Evaluated : HasTemplate(Template(s.xs, [i \in DOMAIN s.references |-> s.references[i].x]))}
  /\ selected = <<>> /\ rounds = <<>>
  /\ entries = pool.references

\* One round: the margins of all remaining candidates, then the diagram grows.
Replay(k) ==
  LET margin(j) == AboveHull(entries, Phase(pool, j)) IN
  /\ k \in Unselected
  /\ selected' = Append(selected, k)
  /\ entries' = Append(entries, Phase(pool, k))
  /\ rounds' = Append(rounds, [margin |-> margin(k), best |-> Min({margin(j) : j \in Unselected}),
                               stable |-> margin(k) <= 0])
  /\ UNCHANGED pool

EvaluationNext == \E k \in DOMAIN pool.xs : Replay(k)

EvaluationSpec == EvaluationInit /\ [][EvaluationNext]_evaluationVars

-------------------------------------------------------------------------------
(* What is reported when the trace is complete.                             *)

Causal == {selected[r] : r \in {q \in DOMAIN rounds : rounds[q].stable}}
FinalCausal == {k \in ToSet(selected) : AboveHull(entries, Phase(pool, k)) <= 0}
OracleConfirmed == {k \in ToSet(selected) : AboveHull(OraclePool(pool), Phase(pool, k)) <= 0}

\* The runner raises when this fails.
MetricsNested == OracleConfirmed \subseteq FinalCausal /\ FinalCausal \subseteq Causal

-------------------------------------------------------------------------------
(* The intervals handed to the certifier.                                   *)

Interval(k) ==
  IF k \in ToSet(selected) THEN [x |-> pool.xs[k], lo |-> pool.truth[k], hi |-> pool.truth[k]]
  ELSE [x |-> pool.xs[k], lo |-> pool.source[k] - pool.radius,
        hi |-> pool.source[k] + pool.radius]

IntervalPhases ==
  [i \in DOMAIN pool.references |->
     [x |-> pool.references[i].x, lo |-> pool.references[i].e, hi |-> pool.references[i].e]]
  \o [k \in Pool(pool) |-> Interval(k)]

Certificates ==
  [k \in Pool(pool) |-> Certify(IntervalPhases, Len(pool.references) + k, Tolerance)]

\* The value of revealing a query is how low it lies; its interval follows.
ActionValues ==
  [k \in Pool(pool) |-> [lo |-> 0 - Interval(k).hi, hi |-> 0 - Interval(k).lo]]

\* The error of the source energy of a query, as the score of a cluster.
SourceError(k) == Max({pool.truth[k] - pool.source[k], pool.source[k] - pool.truth[k]})

-------------------------------------------------------------------------------
(* Properties.                                                              *)

\* Whatever the trace, the order that the runner raises an error for holds: a
\* later phase may revoke a declaration but never make one, and the complete
\* pool may invalidate a survivor but never add one.
NeverRaises == MetricsNested

\* Two algorithms answer the same question: the chain with its tie rule, and
\* the envelope of all decompositions.  A member of the complete hull is never
\* above the others; a query strictly below the others is a member, and the
\* confirmations of the runner miss no label.  Both give every hull energy.
AlgorithmsAgree ==
  LET s == pool
      member == Membership(s.xs, s.truth, s.references)
      margin(k) == LeaveOneOutMargin(s.xs, s.truth, s.references, k)
  IN  /\ \A k \in Pool(s) : (margin(k) < 0 => k \in member) /\ (k \in member => margin(k) <= 0)
      /\ \A x \in EvaluationCompositions(s.xs, s.references) :
           FinalHull(s.xs, s.truth, s.references)[x] = CompetingHull(OraclePool(s), x)
      /\ (member \union OracleLabels(s)) \intersect ToSet(selected) \subseteq OracleConfirmed

\* A revealed query becomes a reference of the later calls.  That changes
\* nothing about the other queries, unless it ties exactly with one of them at
\* the same composition: as a reference it no longer claims the composition.
RevealKeepsLabels ==
  LET rest == InOrder(Unselected)
      later == Membership([i \in DOMAIN rest |-> pool.xs[rest[i]]],
                          [i \in DOMAIN rest |-> pool.truth[rest[i]]], entries)
      ties(k) == \E j \in ToSet(selected) :
                   pool.xs[j] = pool.xs[k] /\ pool.truth[j] = pool.truth[k]
  IN  \A i \in DOMAIN rest :
        (i \in later) # (rest[i] \in Membership(pool.xs, pool.truth, pool.references))
          => ties(rest[i]) /\ i \in later

Covered == \A k \in Pool(pool) :
  Interval(k).lo <= pool.truth[k] /\ pool.truth[k] <= Interval(k).hi

\* As long as the intervals hold the true energies, a certificate says what
\* the complete pool will say and abstains on nothing once all is revealed, and
\* the actions that are truly near the best lie between the two certified sets.
CertificatesHold ==
  Covered =>
    /\ \A k \in Pool(pool) :
         LET margin == LeaveOneOutMargin(pool.xs, pool.truth, pool.references, k) IN
         /\ Certificates[k] = "stable" => margin <= Tolerance
         /\ Certificates[k] = "unstable" => margin > Tolerance
         /\ Unselected = {} => Certificates[k] # "abstain"
    /\ LET lowest == Min(ToSet(pool.truth))
           nearBest == {k \in Pool(pool) : pool.truth[k] <= lowest + Epsilon}
       IN  Guaranteed(ActionValues, Epsilon) \subseteq nearBest
            /\ nearBest \subseteq Possible(ActionValues, Epsilon)

\* A certificate is never withdrawn when an interval shrinks to the energy that
\* was revealed.
CertificatesLast ==
  [][Covered => \A k \in Pool(pool) :
       Certificates[k] # "abstain" => Certificates'[k] = Certificates[k]]_evaluationVars

\* The promise of the finite-sample order statistic: whichever cluster is the
\* new one, a radius calibrated on the others, if there are enough of them,
\* covers it in at least the stated share of the cases.
ConformalCovers ==
  LET radius(k) == ConformalQuantile([j \in Pool(pool) \ {k} |-> SourceError(j)], Level)
      enough == Len(pool.xs) * Level <= 100 * (Len(pool.xs) - 1)
  IN  enough => 100 * Cardinality({k \in Pool(pool) : SourceError(k) <= radius(k)})
                  >= Level * Len(pool.xs)

\* Certificates say what the complete pool will say and are never withdrawn,
\* and a calibrated radius covers a new cluster as often as it promises.
CertificatesAreKept == [](CertificatesHold /\ ConformalCovers) /\ CertificatesLast

\* Whatever the trace, the evaluator does not raise, the chain and the envelope
\* give the same labels and energies, and a reveal changes no other label.
EvaluationAgrees == NeverRaises /\ AlgorithmsAgree /\ RevealKeepsLabels

===============================================================================

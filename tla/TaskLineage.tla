------------------------------ MODULE TaskLineage ------------------------------
(***************************************************************************)
(* Where the outcomes of an experiment come from and who gets to see them. *)
(* The builders under tools/ turn a release of paired calculations into    *)
(* tasks with oracle vaults, frozen transports, cross-fit plans, reduced    *)
(* pools and convergence rosters; the runner takes such files, decides     *)
(* what its transport is fitted on and which systems it queries, and       *)
(* writes a result, from which other tools plan on.                        *)
(*                                                                         *)
(* Every tool writes new files and refuses to touch old ones.  A file is   *)
(* its content: a record that holds the files whose checksums it carries,   *)
(* so that equal checksums are equal records.  Outcomes have no values,     *)
(* only identities.  Five folds, three bins, twelve candidates (eight, of   *)
(* three compositions, for a curve) of the code are the parameters Folds,   *)
(* Bins, MinimumCandidates, CurveCandidates and CurveCompositions.          *)
(***************************************************************************)
EXTENDS Integers, Sequences, FiniteSets

CONSTANTS
  SystemOf,      \* the chemical system of every pair of the releases
  ParentOf,      \* its original configuration
  CompositionOf, \* its composition
  ElementsOf,    \* the elements of every system
  Hash,          \* the rank that a salted hash gives to a system or a pair
  Releases,      \* records [name, pbe, r2scan, changed, authorized]
  Sizes,         \* records [systems, candidates, minimum, parents]
  Folds, Bins, MinimumCandidates,
  Fractions,     \* of pools, in percent
  FoldChoices,   \* sequences of folds that a clean-room split asks for
  CurveSystems,  \* the size of a curve manifest, a multiple of two
  CurveCandidates, CurveCompositions,  \* what a system must have to be in one
  LineLength,    \* of the model: how far NothingLeaks follows a line of plans
  Bounds         \* of the model: how many files of each label a behaviour may see

Pairs == DOMAIN SystemOf
Systems == DOMAIN ElementsOf

Salts == {"development", "pair", "name", "confirmatory", "crossfit", "pool", "query_pool",
          "equivalence", "e55", "curve", "closed_loop", "system"}

ASSUME LineageAssumption ==
  /\ IsFiniteSet(Pairs) /\ IsFiniteSet(Systems)
  /\ \A p \in Pairs : SystemOf[p] \in Systems
  /\ \A r \in Releases : r.pbe \subseteq Pairs /\ r.r2scan \subseteq Pairs
  /\ \A x \in Salts \X (Systems \union Pairs) : Hash[x] \in Nat
  /\ Folds \in Nat \ {0, 1} /\ Bins \in Nat \ {0} /\ MinimumCandidates \in Nat \ {0, 1}
  /\ Fractions \subseteq 1..99 /\ LineLength \in Nat

VARIABLES
  files,
  most      \* the bounds of this behaviour, one of Bounds

lineageVars == <<files, most>>

NoFile == [kind |-> "none"]

OfKind(k) == {f \in files : f.kind = k}
Tasks == OfKind("task")
Vaults == OfKind("vault")
Cals == {p \in OfKind("plan") : p.status = "e55_cal"}
Plans == OfKind("plan") \ Cals   \* a convergence manifest is read by its launcher alone
Frozen == OfKind("frozen")
Results == OfKind("result")

\* Files are counted by the tool that makes them; no bound is none of them.
Label(f) ==
  CASE f.kind \in {"task", "vault"} -> f.label [] f.kind = "plan" -> f.status [] OTHER -> f.kind

\* A tool writes files that were not there.
Write(new) ==
  /\ \E f \in new : f \notin files
  /\ \A f \in new : Label(f) \in DOMAIN most
  /\ files' = files \union new
  /\ \A l \in {Label(f) : f \in new} : Cardinality({f \in files' : Label(f) = l /\ f.kind # "vault"}) <= most[l]
  /\ UNCHANGED most

-------------------------------------------------------------------------------
(* Rows, hash orders and folds.                                             *)

SystemsIn(rows) == {SystemOf[p] : p \in rows}
RowsOf(rows, y) == {p \in rows : SystemOf[p] = y}
Parents(rows) == {ParentOf[p] : p \in rows}

\* The hash-first n elements of a set.
Before(salt, S, x) == {z \in S : Hash[<<salt, z>>] < Hash[<<salt, x>>]}
First(n, salt, S) == {x \in S : Cardinality(Before(salt, S, x)) < n}

\* _stratum, the same in all tools
Stratum(y) ==
  LET n == Cardinality(ElementsOf[y])
  IN  IF n = 2 THEN "binary" ELSE IF n = 3 THEN "ternary" ELSE "quaternary_or_higher"
Strata == {"binary", "ternary", "quaternary_or_higher"}
OfStratum(S, t) == {y \in S : Stratum(y) = t}

\* Within each stratum the systems are dealt out in hash order.
Dealt(n, salt, S) ==
  [k \in 1..n |->
     {y \in S : Cardinality(Before(salt, OfStratum(S, Stratum(y)), y)) % n = k - 1}]

Elements(S) == UNION {ElementsOf[y] : y \in S}

\* A fold of a plan; a plan may leave the fit roster or its size out.
Fold(query, fit, count) == [query |-> query, fit |-> fit, count |-> count]
NoRoster == {}
NoCount == -1

Queried(plan) == UNION {plan.folds[k].query : k \in DOMAIN plan.folds}

Disjoint(folds) ==
  \A j, k \in DOMAIN folds : j # k => folds[j].query \intersect folds[k].query = {}

Task(split, rows, made) ==
  [kind |-> "task", split |-> split, rows |-> rows, label |-> made.by, made |-> made]
Vault(split, rows, made) == [kind |-> "vault", split |-> split, rows |-> rows, label |-> made.by]

JoinIsExact(task, vault) == vault.rows = task.rows

-------------------------------------------------------------------------------
(* Tasks of a release.                                                      *)

\* Pairs of one configuration; the MatPES builder stops at a changed one, the
\* MAD builder leaves it out.
Matched(r) ==
  LET common == r.pbe \intersect r.r2scan
  IN  {p \in common : Cardinality(ElementsOf[SystemOf[p]]) >= 2 /\ p \notin r.changed}

IsMAD(r) == r.name = "mad"

\* Systems with enough candidates from enough parents, and of these the first.
Chosen(r, size) ==
  LET enough(y) == /\ Cardinality(RowsOf(Matched(r), y)) >= size.minimum
                   /\ Cardinality(Parents(RowsOf(Matched(r), y))) >= size.parents
  IN  First(size.systems, "development", {y \in SystemsIn(Matched(r)) : enough(y)})

\* build_matpes_protocol_task.run and build_mad15_protocol_task.run
BuildTask(r, size) ==
  LET rows == UNION {First(size.candidates, "pair", RowsOf(Matched(r), y)) : y \in Chosen(r, size)}
      made == [by |-> r.name]
  IN  /\ r.authorized /\ r.name # "jarvis"
      /\ IsMAD(r) \/ r.pbe \intersect r.r2scan \intersect r.changed = {}
      /\ rows # {}
      /\ Write({Task("development", rows, made), Vault("development", rows, made)})

\* build_matpes_confirmatory_task.build: of every parent the row with the least
\* identity; systems and pairs of a development task are left out.
OnePerParent(rows) ==
  {p \in rows : \A q \in rows : ParentOf[q] = ParentOf[p] => Hash[<<"name", p>>] <= Hash[<<"name", q>>]}

Excluded(task) == IF task # NoFile /\ task.split = "development" THEN task.rows ELSE {}

BuildConfirmatory(all, vault, development, perStratum, minimum) ==
  LET fresh == {p \in all.rows : /\ p \notin Excluded(development)
                                 /\ SystemOf[p] \notin SystemsIn(Excluded(development))}
      rowsOf(y) == OnePerParent(RowsOf(fresh, y))
      eligible == {y \in SystemsIn(fresh) : Cardinality(rowsOf(y)) >= minimum}
      selected == UNION {First(perStratum, "confirmatory", OfStratum(eligible, t)) : t \in Strata}
      rows == UNION {rowsOf(y) : y \in selected}
      made == [by |-> "confirmatory", from |-> all, excluded |-> development]
  IN  /\ JoinIsExact(all, vault)
      /\ selected # {}
      /\ Write({Task("confirmatory", rows, made), Vault("confirmatory", rows, made)})

\* build_jarvis_mp_multifidelity_task: the target entries whose material has a
\* source of the same formula (_target_metadata), and of these the ones whose
\* structure is that of a source (_match_pairs).
Joined(r) == r.pbe \intersect r.r2scan
Structural(r) == Joined(r) \ r.changed

\* _partition_all_eligible_systems: by the place in hash order.
Partition(eligible, stride, offset) ==
  LET evaluation == {y \in eligible :
        Cardinality(Before("system", OfStratum(eligible, Stratum(y)), y)) % stride = offset}
  IN  [calibration |-> eligible \ evaluation, evaluation |-> evaluation]

\* _choose_systems: of every stratum the hash-first ones calibrate and the next
\* ones are evaluated; a stratum must have them all.
ByCount(eligible, counts) ==
  LET first(n, t) == First(n, "system", OfStratum(eligible, t))
      calibration == UNION {first(counts[t], t) : t \in Strata}
  IN  [calibration |-> calibration,
       evaluation |-> (UNION {first(2 * counts[t], t) : t \in Strata}) \ calibration]

\* The first split refuses an empty part, the second a stratum too small.
Splits(eligible) ==
  {s \in {Partition(eligible, stride, offset) : stride \in {2, 3}, offset \in {0, 1}} :
     s.calibration # {} /\ s.evaluation # {}}
  \union {ByCount(eligible, counts) : counts \in {n \in [Strata -> 0..1] : (\E t \in Strata : n[t] > 0) /\
            \A t \in Strata : 2 * n[t] <= Cardinality(OfStratum(eligible, t))}}

SelectedPairs(r, size, systems) ==
  UNION {First(size.candidates, "pair", RowsOf(Structural(r), y)) : y \in systems}

\* _phase_entries_for_systems: the phases that a policy may see of a system are
\* the entries within its elements, without those of any selected pair.
InitialPhases(r, y, selected) ==
  {p \in r.r2scan : ElementsOf[SystemOf[p]] \subseteq ElementsOf[y]} \ selected

BuildJarvisTask(r, size) ==
  LET eligible == {y \in SystemsIn(Structural(r)) : /\ Cardinality(RowsOf(Structural(r), y)) >= size.minimum
                                                    /\ Cardinality(ElementsOf[y]) >= 2}
  IN  /\ r.name = "jarvis"
      /\ \E s \in Splits(eligible) :
           LET systems == s.calibration \union s.evaluation
               selected == SelectedPairs(r, size, systems)
           IN  Write({[kind |-> "jarvis", calibration |-> s.calibration, evaluation |-> s.evaluation,
                       rows |-> selected, phases |-> [y \in systems |-> InitialPhases(r, y, selected)]]})

-------------------------------------------------------------------------------
(* Transports.                                                              *)

\* fit_transport_model_for_task: the outcomes that a fit on these systems sees.
FitRows(task, fit) == {p \in task.rows : SystemOf[p] \in fit}

\* freeze_matpes_transport_model.freeze
Freeze(task, vault, exclude) ==
  LET fit == SystemsIn(task.rows) \ (IF exclude = NoFile THEN {} ELSE SystemsIn(exclude.rows))
  IN  /\ JoinIsExact(task, vault)
      /\ Cardinality(fit) >= 2
      /\ Write({[kind |-> "frozen", task |-> task, fit |-> fit,
                 rows |-> FitRows(task, fit)]})

-------------------------------------------------------------------------------
(* Plans.                                                                   *)

Plan(status, task, eligible, folds, origin) ==
  [kind |-> "plan", status |-> status, task |-> task, eligible |-> eligible,
   folds |-> folds, origin |-> origin]

\* build_matpes_source_rollout_crossfit.build: the systems that an opened
\* confirmatory result was fitted on become a development set of their own.
BuildCrossfit(task, opened) ==
  LET folds == Dealt(Folds + 1, "crossfit", opened.fit)
  IN  /\ task.split = "development" /\ opened.split = "confirmatory"
      /\ opened.fit # {} /\ opened.fit \subseteq SystemsIn(task.rows)
      /\ opened.fit \intersect opened.query = {}
      /\ Write({Plan("crossfit", task, opened.fit,
                     [k \in DOMAIN folds |-> Fold(folds[k], NoRoster, NoCount)], opened)})

\* build_e52_cleanroom_manifests.build: chosen folds are the development set
\* and everything else of the task is the confirmation roster.
BuildCleanroom(task, prior, choice) ==
  LET chosen == [k \in DOMAIN choice |-> prior.folds[choice[k]].query]
      development == UNION {chosen[k] : k \in DOMAIN chosen}
      confirmation == SystemsIn(task.rows) \ development
  IN  /\ prior.task = task /\ prior.status = "crossfit"
      /\ \A k \in DOMAIN choice : choice[k] \in DOMAIN prior.folds
      /\ \A j, k \in DOMAIN choice : j # k => chosen[j] \intersect chosen[k] = {}
      /\ confirmation # {}
      /\ Write({Plan("development", task, development,
                     [k \in DOMAIN choice |->
                        Fold(chosen[k], NoRoster, Cardinality(development \ chosen[k]))], prior),
                Plan("confirmation", task, SystemsIn(task.rows),
                     <<Fold(confirmation, NoRoster, Cardinality(development))>>, prior)})

\* The nested prefix of a pool; a pool is never emptied.
Prefix(salt, rows, percent) == First((Cardinality(rows) * percent + 99) \div 100, salt, rows)

Shifted(task, percent) ==
  UNION {Prefix("pool", RowsOf(task.rows, y), percent) : y \in SystemsIn(task.rows)}

\* build_matpes_pool_shift_tasks.build: every system loses the same share, in
\* both partitions, and the plan is bound to the reduced task.
BuildPoolShift(task, vault, plan) ==
  LET made(f) == [by |-> "pool_shift", from |-> task, percent |-> f]
      rows(f) == Shifted(task, f)
      variant(f) == Task(task.split, rows(f), made(f))
  IN  /\ JoinIsExact(task, vault)
      /\ plan.task = task /\ plan.eligible \subseteq SystemsIn(task.rows)
      /\ Write(UNION {{variant(f), Vault(task.split, rows(f), made(f)),
                       Plan("pool_shift", variant(f), plan.eligible, plan.folds, plan)} :
                        f \in Fractions \union {100}})

\* Faulty variant: fit systems lose the same share.
QueryShiftedEverywhere(task, eligible, query, percent) ==
  UNION {Prefix("query_pool", RowsOf(task.rows, y), percent) : y \in eligible}

\* Only the queried systems lose candidates.
QueryShifted(task, eligible, query, percent) ==
  UNION {IF y \in query THEN Prefix("query_pool", RowsOf(task.rows, y), percent)
         ELSE RowsOf(task.rows, y) : y \in eligible}

\* build_matpes_query_pool_shift_tasks.build: a task, a vault and a plan of one
\* fold for every fold.  The gate on the pool stands in the loop: the variants
\* of the folds before the one that fails it stay.
BuildQueryPoolShift(task, vault, plan, percent) ==
  LET made(k) == [by |-> "query_pool_shift", from |-> plan, percent |-> percent, fold |-> k]
      query(k) == plan.folds[k].query
      rows(k) == QueryShifted(task, plan.eligible, query(k), percent)
      variant(k) == Task("development", rows(k), made(k))
      passes(k) == \A y \in query(k) : Cardinality(RowsOf(rows(k), y)) >= MinimumCandidates
      written == {k \in DOMAIN plan.folds : \A j \in 1..k : passes(j)}
  IN  /\ plan.task = task /\ task.split = "development"
      /\ Len(plan.folds) = Folds
      /\ plan.eligible \subseteq SystemsIn(task.rows)
      /\ \A k \in written : rows(k) \subseteq vault.rows
      /\ Write(UNION {{variant(k), Vault(vault.split, rows(k), made(k)),
                       Plan("query_pool_shift", variant(k), plan.eligible,
                            <<Fold(query(k), NoRoster, Cardinality(plan.eligible \ query(k)))>>, plan)} :
                        k \in written})

\* build_e52_two_step_equivalence_manifest.build with require_fit_element_support:
\* systems are drawn whose elements occur twice, and the roster is dropped when
\* it took both.
Twice(eligible) ==
  {y \in eligible : \A e \in ElementsOf[y] : Cardinality({z \in eligible : e \in ElementsOf[z]}) >= 2}

EquivalenceSupported(eligible, selected) ==
  \A y \in selected : ElementsOf[y] \subseteq Elements(eligible \ selected)

BuildEquivalence(task, plan, count) ==
  LET selected == First(count, "equivalence", Twice(plan.eligible))
  IN  /\ plan.task = task
      /\ count < Cardinality(plan.eligible) /\ Cardinality(selected) = count
      /\ EquivalenceSupported(plan.eligible, selected)
      /\ Write({Plan("equivalence", task, plan.eligible,
                     <<Fold(selected, NoRoster, Cardinality(plan.eligible) - count)>>, plan)})

\* _fit_systems of the E55 tools: a roster, when there is one, or a count must
\* be that of the complement.
FitRoster(fold, eligible) == eligible \ fold.query

RosterIsComplement(fold, eligible) ==
  IF fold.fit # NoRoster THEN fold.fit = FitRoster(fold, eligible)
  ELSE fold.count = Cardinality(FitRoster(fold, eligible))

\* The queries of a fold in order of their candidate counts, cut into bins.
Bin(task, query, b) ==
  LET smaller(y, z) ==
        \/ Cardinality(RowsOf(task.rows, y)) < Cardinality(RowsOf(task.rows, z))
        \/ /\ Cardinality(RowsOf(task.rows, y)) = Cardinality(RowsOf(task.rows, z))
           /\ Hash[<<"name", y>>] < Hash[<<"name", z>>]
      place(y) == Cardinality({z \in query : smaller(z, y)})
      n == Cardinality(query)
  IN  {y \in query : (n * (b - 1)) \div Bins <= place(y) /\ place(y) < (n * b) \div Bins}

Supported(task, fold, eligible, b) ==
  {y \in Bin(task, fold.query, b) : ElementsOf[y] \subseteq Elements(FitRoster(fold, eligible))}

\* build_e55_convergence_manifest.build: one system of every bin and fold, with
\* the fit roster of the whole fold.
BuildConvergence(task, plan) ==
  LET picks(k) == UNION {First(1, "e55", Supported(task, plan.folds[k], plan.eligible, b)) : b \in 1..Bins}
  IN  /\ plan.task = task /\ Len(plan.folds) = Folds
      /\ plan.eligible \subseteq SystemsIn(task.rows)
      /\ Disjoint(plan.folds) /\ Queried(plan) = plan.eligible
      /\ \A k \in DOMAIN plan.folds :
           /\ RosterIsComplement(plan.folds[k], plan.eligible)
           /\ \A b \in 1..Bins : Supported(task, plan.folds[k], plan.eligible, b) # {}
      /\ Write({Plan("e55_cal", task, plan.eligible,
                     [k \in DOMAIN plan.folds |->
                        LET fit == FitRoster(plan.folds[k], plan.eligible)
                        IN  Fold(picks(k), fit, Cardinality(fit))], plan)})

\* Faulty variant: the runner gets the eligible systems of the manifest, and
\* fits on the queries of the fold that were not picked.
RunnerEligibleOfManifest(cal, k) == cal.eligible

\* _runner_manifest: the eligible systems are those of the fold.
RunnerEligible(cal, k) == cal.folds[k].query \union cal.folds[k].fit

\* run_matpes_e55_convergence.build_units: the plans that the runner is started
\* with.  The roster of a fold must be that of the development plan.
BuildRunnerManifests(cal) ==
  LET dev == cal.origin
  IN  /\ dev.task = cal.task
      /\ Disjoint(dev.folds) /\ Queried(dev) = dev.eligible
      /\ \A k \in DOMAIN dev.folds :
           /\ RosterIsComplement(dev.folds[k], dev.eligible)
           /\ cal.folds[k].fit = FitRoster(dev.folds[k], dev.eligible)
           /\ cal.folds[k].query \subseteq cal.eligible
           /\ cal.folds[k].query \intersect cal.folds[k].fit = {}
      /\ Write({Plan("e55_runner", cal.task, RunnerEligible(cal, k),
                     <<Fold(cal.folds[k].query, NoRoster, NoCount)>>, cal) : k \in DOMAIN cal.folds})

\* _opened_systems
OpenedBy(results) == UNION {r.query : r \in results}

\* build_mad15_curve_manifest.build: the first unopened systems; its selection
\* is a query manifest, its folds are for reading only.
BuildCurve(task, opened) ==
  LET rowsOf(y) == RowsOf(task.rows, y)
      eligible == {y \in SystemsIn(task.rows) :
                     /\ Cardinality(rowsOf(y)) >= CurveCandidates
                     /\ Cardinality({CompositionOf[p] : p \in rowsOf(y)}) >= CurveCompositions}
      selected == First(CurveSystems, "curve", eligible \ OpenedBy(opened))
      folds == Dealt(2, "curve", selected)
  IN  /\ task.split = "development" /\ opened # {}
      /\ Cardinality(selected) = CurveSystems
      /\ Write({[kind |-> "curve", task |-> task, selected |-> selected, opened |-> opened,
                 folds |-> folds]})

-------------------------------------------------------------------------------
(* The runner.                                                              *)

\* Faulty variant: the fit takes what the queries leave of the task.
CrossfitFitOfTask(plan, k) == SystemsIn(plan.task.rows) \ plan.folds[k].query

\* main: the fit of a cross-fit fold.
CrossfitFit(plan, k) == plan.eligible \ plan.folds[k].query

\* run without explicit systems: the hash-first queries with enough candidates.
PlainQuery(task, max) ==
  First(max, "closed_loop",
        {y \in SystemsIn(task.rows) : Cardinality(RowsOf(task.rows, y)) >= MinimumCandidates})

\* run: a frozen model brings its own fit; otherwise a model is fitted for a
\* development run whose policies need one.
Run(task, vault, query, fit, frozen, needs, plan) ==
  LET fitted == task.split = "development" /\ Cardinality(fit) >= 2 /\ needs
      used == IF frozen # NoFile THEN frozen.fit ELSE IF fitted THEN fit ELSE {}
  IN  /\ vault.split = task.split /\ JoinIsExact(task, vault)
      /\ query # {} /\ query \subseteq SystemsIn(task.rows)
      /\ \A y \in query : Cardinality(RowsOf(task.rows, y)) >= MinimumCandidates
      /\ fit \subseteq SystemsIn(task.rows) /\ fit \intersect query = {}
      /\ frozen # NoFile => frozen.fit \intersect query = {}
      /\ frozen # NoFile \/ fitted \/ ~needs
      /\ Write({[kind |-> "result", split |-> task.split, task |-> task,
                 query |-> query, fit |-> used,
                 fitRows |-> IF frozen # NoFile THEN frozen.rows
                             ELSE IF fitted THEN FitRows(task, fit) ELSE {},
                 frozen |-> frozen, plan |-> plan]})

\* The three ways main prepares a run.  A frozen model may come with each of
\* them; it then stands in for the fit of the fold or of the manifest.
RunPlain(task, vault, max, frozen, needs) ==
  LET query == PlainQuery(task, max)
  IN  Run(task, vault, query, SystemsIn(task.rows) \ query, frozen, needs, NoFile)

RunFold(plan, k, vault, frozen, needs) ==
  Run(plan.task, vault, plan.folds[k].query, CrossfitFit(plan, k), frozen, needs,
      [kind |-> "use", of |-> plan, fold |-> k])

RunCurve(curve, vault, frozen, needs) ==
  Run(curve.task, vault, curve.selected, SystemsIn(curve.task.rows) \ curve.selected, frozen, needs,
      [kind |-> "curve_use", of |-> curve])

-------------------------------------------------------------------------------

LineageInit == files = {} /\ most \in Bounds

Build ==
  \/ \E r \in Releases, size \in Sizes : BuildTask(r, size)
  \/ \E t \in Tasks, v \in Vaults :
       \/ \E d \in Tasks \union {NoFile} : BuildConfirmatory(t, v, d, 1, MinimumCandidates)
       \/ \E x \in Tasks \union {NoFile} : Freeze(t, v, x)
       \/ \E p \in Plans :
            \/ BuildPoolShift(t, v, p)
            \/ \E f \in Fractions : BuildQueryPoolShift(t, v, p, f)
  \/ \E t \in Tasks :
       \/ \E r \in Results : BuildCrossfit(t, r)
       \/ \E R \in SUBSET Results : BuildCurve(t, R)
       \/ \E p \in Plans :
            \/ \E choice \in FoldChoices : BuildCleanroom(t, p, choice)
            \/ \E n \in {1, 2} : BuildEquivalence(t, p, n)
            \/ BuildConvergence(t, p)
  \/ \E p \in Cals : BuildRunnerManifests(p)
  \/ \E r \in Releases, size \in Sizes : BuildJarvisTask(r, size)

RunSomething ==
  \E v \in Vaults, x \in Frozen \union {NoFile}, needs \in BOOLEAN :
    \/ \E t \in Tasks, max \in {1, 2} : RunPlain(t, v, max, x, needs)
    \/ \E p \in Plans : \E k \in DOMAIN p.folds : RunFold(p, k, v, x, needs)
    \/ \E c \in OfKind("curve") : RunCurve(c, v, x, needs)

LineageNext == Build \/ RunSomething

LineageSpec == LineageInit /\ [][LineageNext]_lineageVars

-------------------------------------------------------------------------------
(* Properties.                                                              *)

\* A plan, the plan it was made from and so on, to the result of the first.
Line(plan) ==
  LET line[n \in Nat] ==
        IF n = 0 THEN plan
        ELSE LET child == line[n - 1] IN IF child.kind = "plan" THEN child.origin ELSE child
  IN  line

Ancestors(plan) == {Line(plan)[n] : n \in 0..LineLength}

Fitted(r) == SystemsIn(r.fitRows)

\* The model that ranks was fitted by the run itself, from its plan: the runner
\* also takes a frozen model instead, with a plan too, and asks of it only that
\* none of its systems is queried.
OwnFit(r) == r.frozen = NoFile

\* No outcome of a queried system is in the model that ranks its candidates,
\* however the fit was chosen; a run under a development plan queries no system
\* that the opened result behind the plan has evaluated, nor fits on one, unless
\* it is given a frozen model; a curve queries nothing that was opened before;
\* and the phases that a policy of the JARVIS task sees at the start hold no
\* outcome that is sealed for any system.
NothingLeaks ==
  /\ \A r \in Results :
       /\ Fitted(r) \intersect r.query = {}
       /\ r.plan.kind = "use" =>
            LET line == Ancestors(r.plan.of)
            IN  (\A p \in line : p.kind = "plan" => p.status # "confirmation") =>
                  \A opened \in {p \in line : p.kind = "result"} :
                    /\ opened.query \intersect r.query = {}
                    /\ OwnFit(r) => opened.query \intersect Fitted(r) = {}
       /\ r.plan.kind = "curve_use" => r.query \intersect OpenedBy(r.plan.of.opened) = {}
  /\ \A j \in OfKind("jarvis") :
       /\ j.calibration \intersect j.evaluation = {}
       /\ \A y \in DOMAIN j.phases : j.phases[y] \intersect j.rows = {}

\* Over the folds every registered system is queried exactly once.
QueriesOnce(plan) == Disjoint(plan.folds) /\ Queried(plan) = plan.eligible

\* A result under a plan is of the queries of its fold.  Unless it was given a
\* frozen model it is fitted on the roster that the plan registered, through
\* every rebasing and renumbering: a fold with a fit count on so many systems,
\* a fold of the convergence study on the complement of the whole fold it was
\* drawn from ("original_fit_rosters_preserved"); and the systems of the
\* convergence and the equivalence study have every element in the fit, so that
\* none of them is answered by the fallback for unknown elements.  Over the
\* folds of a development plan every registered system is queried exactly once.
RosterHonoured ==
  /\ \A p \in Plans :
       (\/ p.status \in {"crossfit", "development"}
        \/ p.status = "pool_shift" /\ QueriesOnce(p.origin)) => QueriesOnce(p)
  /\ \A r \in Results : (r.plan.kind = "use" /\ r.fit # {}) =>
    LET plan == r.plan.of
        fold == plan.folds[r.plan.fold]
    IN  /\ r.query = fold.query /\ Fitted(r) = r.fit
        /\ OwnFit(r) =>
             /\ fold.count # NoCount => Cardinality(r.fit) = fold.count
             /\ plan.status = "e55_runner" =>
                  LET dev == plan.origin.origin
                  IN  \E k \in DOMAIN dev.folds :
                        r.query \subseteq dev.folds[k].query /\ r.fit = dev.eligible \ dev.folds[k].query
             /\ plan.status \in {"e55_runner", "equivalence"} =>
                  \A y \in r.query : ElementsOf[y] \subseteq Elements(Fitted(r))

\* The fold of a development plan that a use goes back to.
BaseFold(use) ==
  IF use.of.status = "query_pool_shift" THEN <<use.of.origin, use.of.task.made.fold>>
  ELSE IF use.of.status = "pool_shift" /\ use.of.task.made.percent = 100 THEN <<use.of.origin, use.fold>>
  ELSE <<use.of, use.fold>>

\* Two results of one fold, on its pool, on a reduced query pool or on the full
\* variant of the shifted pools, that were given the same frozen model or none,
\* differ in nothing but the pool: the systems, the fit and the rows of the fit
\* are the same, and of the candidates one has a part of the other's.
SameModelAcrossPools ==
  \A r, s \in {x \in Results : x.plan.kind = "use" /\ x.fit # {}} :
    BaseFold(r.plan) = BaseFold(s.plan) /\ r.frozen = s.frozen =>
      /\ r.query = s.query /\ r.fitRows = s.fitRows
      /\ \A y \in r.query : \/ RowsOf(r.task.rows, y) \subseteq RowsOf(s.task.rows, y)
                           \/ RowsOf(s.task.rows, y) \subseteq RowsOf(r.task.rows, y)

===============================================================================

---------------------------- MODULE CampaignPanels ----------------------------
(* The development campaigns that share an output directory with nothing but  *)
(* file names: launchers that resume what they find, the closed-loop runner   *)
(* they start, and the summaries that pool its outputs.                       *)
(*                                                                            *)
(*   e32   run_delayed_label_followup_suite (one unit after the other) and    *)
(*         ..._parallel on the same file names; summarize_delayed_label_      *)
(*         followup_e32 (report "e32") and summarize_e32_rollout_curve        *)
(*   hull  run_hull_ens_parallel, summarize_hull_ens                          *)
(*   e52   run_matpes_e52_campaign and its reduced successor,                 *)
(*         summarize_e52_objective_prefixes                                   *)
(*   e53   run_matpes_e53_objective_isolation, summarize_e53_...              *)
(*   e54   run_matpes_cal_style_campaign, summarize_matpes_cal_style          *)
(*   e55   the launcher of WriteOnceCampaign, reduced to what its summary     *)
(*         relies on, and summarize_matpes_e55_convergence                    *)
(*                                                                            *)
(* An experiment is what a launch is given: the contents of its inputs and    *)
(* its options, one value per field.  An output records the experiment that   *)
(* made it.  A unit is a fold and a column: the budget of e32 and hull, the   *)
(* pool of e52, the numerical configuration of e55.                           *)
EXTENDS Naturals, FiniteSets

CONSTANTS
  Folds,
  Columns,      \* per campaign, its columns; 1 is the whole pool of e52
  Experiments,  \* functions from Fields
  Registered,   \* the experiment whose hashes the curve's summary names
  QueryOf,      \* crossfit -> fold -> the query systems of the manifest
  MaxLaunches, MaxFaults   \* bounds on launches and on faults

\* runner: the script; library: the policy worker and the acquisition module.
\* An output records the hashes of both, but only that of the script is compared.
Fields == {"task", "vault", "crossfit", "policies", "settings", "seed", "runner", "library"}
Compared == Fields \ {"library"}

ASSUME PanelsAssumption ==
  /\ MaxLaunches \in Nat /\ MaxFaults \in Nat
  /\ IsFiniteSet(Folds) /\ \A c \in DOMAIN Columns : IsFiniteSet(Columns[c])
  /\ DOMAIN Columns = {"e32", "hull", "e52", "e53", "e54", "e55"}
  /\ Registered \in Experiments
  /\ \A e \in Experiments : DOMAIN e = Fields /\ e["crossfit"] \in DOMAIN QueryOf
  /\ \A m \in DOMAIN QueryOf, f, g \in Folds :
       f # g => QueryOf[m][f] \intersect QueryOf[m][g] = {}
  /\ \A m, n \in DOMAIN QueryOf :
       Cardinality(UNION {QueryOf[m][f] : f \in Folds}) = Cardinality(UNION {QueryOf[n][f] : f \in Folds})

VARIABLES
  campaign,
  outputs,    \* the unit's JSON file: absent, torn, or whole and made by exp
  trace,     \* units whose trace directory exists
  marker,    \* units with a failure marker
  identity,  \* per launcher, the identity file of its last launch
  launch,    \* the launch that is under way
  launches, faults,
  spoilt,    \* units whose runner failed or was killed
  clean,     \* the last launch that ended without a failure
  summary     \* the summary, once one was written

panelVars == <<campaign, outputs, trace, marker, identity, launch, launches, faults, spoilt, clean, summary>>

Missing == [is |-> "none"]
Torn == [is |-> "torn"]
Whole(e) == [is |-> "whole", exp |-> e]
Idle == [style |-> "idle"]

LaunchStyles ==
  [e32 |-> {"suite", "parallel"}, hull |-> {"hull"}, e52 |-> {"e52"}, e53 |-> {"e53"},
   e54 |-> {"e54"}, e55 |-> {"e55"}]
Campaigns == DOMAIN LaunchStyles
Units == Folds \X Columns[campaign]

IsWhole(u) == outputs[u].is = "whole"
By(u) == outputs[u].exp
Agree(a, b, fields) == \A k \in fields : a[k] = b[k]

-------------------------------------------------------------------------------
(* What an output holds. *)

\* The systems the runner queried and those it fitted on.
Query(e, u) == QueryOf[e["crossfit"]][u[1]]
Eligible(e) == UNION {QueryOf[e["crossfit"]][f] : f \in Folds}
Fit(e, u) == Eligible(e) \ Query(e, u)

\* A reduced pool of e52 has a task of its own in every fold.
TaskOf(e, u) == IF campaign = "e52" /\ u[2] # 1 THEN <<e["task"], u>> ELSE <<e["task"]>>

-------------------------------------------------------------------------------
(* Launching. *)

\* Every launcher but those of e32 and hull starts all of its units.
Selectable == IF campaign \in {"e32", "hull"} THEN {Units} \union {{f} \X Columns[campaign] : f \in Folds}
              ELSE {Units}

Begin(style, e, asked) ==
  /\ launch = Idle /\ launches < MaxLaunches /\ summary = Missing
  /\ style \in LaunchStyles[campaign] /\ asked \in Selectable
  /\ launch' = [style |-> style, exp |-> e, left |-> asked, running |-> {}, asked |-> asked, ok |-> TRUE]
  /\ launches' = launches + 1
  /\ UNCHANGED <<campaign, outputs, trace, marker, faults, spoilt, clean, summary>>

Written(style, e, asked) == identity' = [identity EXCEPT ![style] = [is |-> "written", exp |-> e, asked |-> asked]]

\* The identity file of the launcher is overwritten by every launch.
LaunchSuite(e, asked) == Begin("suite", e, asked) /\ Written("suite", e, asked)
LaunchParallel(e, asked) == Begin("parallel", e, asked) /\ Written("parallel", e, asked)
LaunchHull(e, asked) == Begin("hull", e, asked) /\ Written("hull", e, asked)

\* No identity file: a unit's identity lives in the command line and in the
\* marker of a failure.
LaunchE52(e) == Begin("e52", e, Units) /\ UNCHANGED identity
LaunchE53(e) == Begin("e53", e, Units) /\ UNCHANGED identity
LaunchE54(e) == Begin("e54", e, Units) /\ UNCHANGED identity

\* The unit manifest is written once: another experiment is refused.
LaunchE55(e) ==
  /\ campaign = "e55"
  /\ identity["e55"] # Missing => identity["e55"].exp = e
  /\ Begin("e55", e, Units) /\ Written("e55", e, Units)

-------------------------------------------------------------------------------
(* A unit of a launch. *)

\* What is compared before an existing output is kept: the task in e32, the
\* policies too in e52 and e53, the vault and the numerical options too in
\* e54; e55 compares all that is compared anywhere, and hull keeps nothing.
ResumableE32(e, u) == Agree(By(u), e, {"task"})
ResumableE52(e, u) == Agree(By(u), e, {"task", "policies"})
ResumableE53(e, u) == Agree(By(u), e, {"task", "policies"})
ResumableE54(e, u) == Agree(By(u), e, {"task", "vault", "policies", "settings"})
Resumable(e, u) ==
  CASE campaign = "e32" -> ResumableE32(e, u)
    [] campaign = "hull" -> FALSE
    [] campaign = "e52" -> ResumableE52(e, u)
    [] campaign = "e53" -> ResumableE53(e, u)
    [] campaign = "e54" -> ResumableE54(e, u)
    [] campaign = "e55" -> Agree(By(u), e, Compared)

\* The sequential suite goes budget by budget, fold by fold, and ends at the
\* first failure; the others have a worker for every unit.
Before(u, v) == u[2] < v[2] \/ (u[2] = v[2] /\ u[1] < v[1])
CanTake(u) ==
  /\ launch # Idle /\ u \in launch.left
  /\ launch.style = "suite" =>
       /\ launch.ok /\ launch.running = {}
       /\ \A v \in launch.left \ {u} : Before(u, v)

Settled(u, ok) == launch' = [launch EXCEPT !.left = @ \ {u}, !.running = @ \ {u}, !.ok = @ /\ ok]

Unchanged == UNCHANGED <<campaign, identity, launches, clean, summary>>

\* e55 looks at the marker first, the others at the output.
Stopped(u) == u \in marker /\ (launch.style = "e55" \/ (outputs[u] = Missing /\ launch.style # "suite"))

ResumeUnit(u) ==
  /\ CanTake(u) /\ ~Stopped(u) /\ IsWhole(u) /\ Resumable(launch.exp, u)
  /\ Settled(u, TRUE)
  /\ UNCHANGED <<outputs, trace, marker, faults, spoilt>> /\ Unchanged

\* A torn file is not JSON.  e55 leaves a marker beside an output it refuses.
RefuseOutput(u) ==
  /\ CanTake(u) /\ ~Stopped(u) /\ outputs[u] # Missing
  /\ ~(IsWhole(u) /\ Resumable(launch.exp, u))
  /\ Settled(u, FALSE)
  /\ marker' = IF launch.style = "e55" THEN marker \union {u} ELSE marker
  /\ UNCHANGED <<outputs, trace, faults, spoilt>> /\ Unchanged

\* A unit with a marker is not run again; the parallel launcher of e32 does not
\* count it as a failure of this launch.  The suite does not look for markers.
StopAtMarker(u) ==
  /\ CanTake(u) /\ Stopped(u)
  /\ Settled(u, launch.style = "parallel")
  /\ UNCHANGED <<outputs, trace, marker, faults, spoilt>> /\ Unchanged

\* Faulty variant: a trace directory that exists is used again.
RefusesTraceNever(u) == FALSE
\* The runner makes its trace directory and refuses one that exists.
RefusesTrace(u) == u \in trace

Startable(u) == CanTake(u) /\ ~Stopped(u) /\ outputs[u] = Missing

StartRunner(u) ==
  /\ Startable(u) /\ ~RefusesTrace(u)
  /\ trace' = trace \union {u}
  /\ launch' = [launch EXCEPT !.left = @ \ {u}, !.running = @ \union {u}]
  /\ UNCHANGED <<outputs, marker, faults, spoilt>> /\ Unchanged

\* e55 refuses its own log of an earlier start before the runner is started.
RunnerRefuses(u) ==
  /\ Startable(u) /\ RefusesTrace(u)
  /\ Settled(u, FALSE)
  /\ marker' = IF launch.style = "e55" THEN marker ELSE marker \union {u}
  /\ UNCHANGED <<outputs, trace, faults, spoilt>> /\ Unchanged

RunnerCompletes(u) ==
  /\ launch # Idle /\ u \in launch.running
  /\ outputs' = [outputs EXCEPT ![u] = Whole(launch.exp)]
  /\ Settled(u, TRUE)
  /\ UNCHANGED <<trace, marker, faults, spoilt>> /\ Unchanged

\* The output is written in place at the very end.
UnitFails(u) ==
  /\ launch # Idle /\ u \in launch.running /\ faults < MaxFaults
  /\ \E left \in {Missing, Torn} : outputs' = [outputs EXCEPT ![u] = left]
  /\ Settled(u, FALSE)
  /\ marker' = marker \union {u} /\ spoilt' = spoilt \union {u} /\ faults' = faults + 1
  /\ UNCHANGED trace /\ Unchanged

\* The launcher is killed with its runners.
Kill ==
  /\ launch # Idle /\ faults < MaxFaults
  /\ \E torn \in SUBSET launch.running :
       outputs' = [u \in Units |-> IF u \in torn THEN Torn ELSE outputs[u]]
  /\ launch' = Idle /\ faults' = faults + 1
  /\ spoilt' = spoilt \union launch.running
  /\ UNCHANGED <<trace, marker>> /\ Unchanged

Finish ==
  /\ launch # Idle /\ launch.running = {}
  /\ launch.left = {} \/ (launch.style = "suite" /\ ~launch.ok)
  /\ launch' = Idle
  /\ clean' = IF launch.ok THEN launch ELSE clean
  /\ UNCHANGED <<campaign, outputs, trace, marker, identity, launches, faults, spoilt, summary>>

-------------------------------------------------------------------------------
(* The summaries.  Each reads a fixed roster of files and raises unless what  *)
(* it reads passes its checks; nothing is written when it raises.             *)

Column(c) == Folds \X {c}
Queries(us) == UNION {Query(By(u), u) : u \in us}

\* No system is queried in two folds of a column.
OncePerColumn(c) ==
  \A u, v \in Column(c) : u # v => Query(By(u), u) \intersect Query(By(v), v) = {}

Expected == Cardinality(Eligible(Registered))
Counted(c) == Cardinality(Queries(Column(c))) = Expected
AllOf(k) == {IF k = "task" THEN TaskOf(By(u), u) ELSE By(u)[k] : u \in Units}
Uniform(fields) == \A k \in fields : Cardinality(AllOf(k)) = 1
WholeOutputs == \A u \in Units : IsWhole(u)
SameSystems == \A c, d \in Columns[campaign] : Queries(Column(c)) = Queries(Column(d))

\* The rosters and the budgets; the identity file is quoted as it is.
E32Accepts ==
  /\ WholeOutputs /\ identity["suite"] # Missing
  /\ \A u \in Units : By(u)["policies"] = Registered["policies"]
  /\ \A c \in Columns[campaign] : OncePerColumn(c)

\* Both identity files are the registered one and the same.
IdentitiesAudited ==
  /\ \A s \in {"suite", "parallel"} :
       /\ identity[s] # Missing /\ identity[s].asked = Units
       /\ Agree(identity[s].exp, Registered, Fields \ {"runner", "library"})
  /\ identity["suite"].exp = identity["parallel"].exp

\* Faulty variant: an output is matched as the launchers match it.
CurveLoadsTask(u) == IsWhole(u) /\ Agree(By(u), identity["suite"].exp, {"task"})
\* An output is of the identity's experiment, and its rosters are disjoint.
CurveLoads(u) ==
  /\ IsWhole(u) /\ Agree(By(u), identity["suite"].exp, Compared)
  /\ Query(By(u), u) \intersect Fit(By(u), u) = {}

CurveAccepts ==
  /\ IdentitiesAudited /\ \A u \in Units : CurveLoads(u)
  /\ \A c \in Columns[campaign] : OncePerColumn(c) /\ Counted(c)
  /\ SameSystems
  /\ \A c, d \in Columns[campaign], f \in Folds : Fit(By(<<f, c>>), <<f, c>>) = Fit(By(<<f, d>>), <<f, d>>)

\* The exact roster of files, no marker beside them; every budget covers the
\* same systems.
HullAccepts ==
  /\ WholeOutputs /\ identity["hull"] # Missing /\ marker = {}
  /\ \A u \in Units : By(u)["policies"] = Registered["policies"]
  /\ \A c \in Columns[campaign] : OncePerColumn(c)
  /\ Cardinality(Queries(Units)) = Expected /\ SameSystems

\* One task for the whole pool and one per fold for a reduced one.
PrefixAccepts ==
  /\ WholeOutputs
  /\ \A u \in Units : By(u)["policies"] = Registered["policies"]
  /\ \A c \in Columns[campaign] :
       /\ OncePerColumn(c) /\ Counted(c)
       /\ Cardinality({TaskOf(By(u), u) : u \in Column(c)}) = IF c = 1 THEN 1 ELSE Cardinality(Folds)
  /\ SameSystems

IsolationAccepts ==
  /\ WholeOutputs
  /\ \A u \in Units : Agree(By(u), Registered, {"policies", "settings"})
  /\ \A c \in Columns[campaign] : OncePerColumn(c) /\ Counted(c)
  /\ Uniform({"task", "vault"})

\* Faulty variant: only the task has to be the same.
PanelLoadsOneTask == Uniform({"task"})
\* One task, vault and cross-fit within a panel.
PanelLoads == Uniform({"task", "vault", "crossfit"})

PanelAccepts ==
  /\ marker = {} /\ WholeOutputs
  /\ \A u \in Units :
       /\ Agree(By(u), Registered, {"policies", "settings"})
       /\ Query(By(u), u) \intersect Fit(By(u), u) = {}
  /\ \A c \in Columns[campaign] : OncePerColumn(c) /\ Counted(c)
  /\ PanelLoads

\* The sources the unit manifest names: folds that partition the systems, each
\* fitted on the rest, and the hashes of the files themselves.
SourcesAudited(e) ==
  /\ \A f, g \in Folds : f # g => QueryOf[e["crossfit"]][f] \intersect QueryOf[e["crossfit"]][g] = {}
  /\ Cardinality(Eligible(e)) = Expected

\* An output is what its unit's identity says.
UnitValidated(e, u) ==
  /\ u \notin marker /\ IsWhole(u) /\ Agree(By(u), e, Compared)
  /\ Query(By(u), u) = Query(e, u) /\ Fit(By(u), u) = Fit(e, u)

ConvergenceAccepts ==
  /\ identity["e55"] # Missing
  /\ SourcesAudited(identity["e55"].exp)
  /\ \A u \in Units : UnitValidated(identity["e55"].exp, u)
  /\ SameSystems

\* What a report says of its inputs by quoting it: the fields, and whose.
Summary(kind, quoted, fields) ==
  /\ summary = Missing /\ launch = Idle
  /\ summary' = [is |-> kind, pooled |-> outputs, quoted |-> quoted, fields |-> fields]
  /\ UNCHANGED <<campaign, outputs, trace, marker, identity, launch, launches, faults, spoilt, clean>>

Anyone == By(CHOOSE u \in Units : TRUE)

SummarizeE32 == campaign = "e32" /\ E32Accepts /\ Summary("e32", identity["suite"].exp, Compared)
SummarizeCurve == campaign = "e32" /\ CurveAccepts /\ Summary("curve", identity["suite"].exp, Compared)
SummarizeHull == campaign = "hull" /\ HullAccepts /\ Summary("hull", identity["hull"].exp, Compared)
SummarizePrefixes == campaign = "e52" /\ PrefixAccepts /\ Summary("prefixes", Anyone, {})
SummarizeIsolation == campaign = "e53" /\ IsolationAccepts /\ Summary("isolation", Anyone, {"task", "vault"})
SummarizePanel == campaign = "e54" /\ PanelAccepts /\ Summary("panel", Anyone, {"task", "vault", "crossfit"})
SummarizeConvergence ==
  campaign = "e55" /\ ConvergenceAccepts /\ Summary("convergence", identity["e55"].exp, Compared)

-------------------------------------------------------------------------------

PanelsInit ==
  /\ campaign \in Campaigns
  /\ outputs = [u \in Units |-> Missing]
  /\ trace = {} /\ marker = {} /\ spoilt = {}
  /\ identity = [s \in LaunchStyles[campaign] |-> Missing]
  /\ launch = Idle /\ launches = 0 /\ faults = 0
  /\ clean = Missing /\ summary = Missing

BeginLaunch ==
  \/ \E e \in Experiments : LaunchE52(e) \/ LaunchE53(e) \/ LaunchE54(e) \/ LaunchE55(e)
  \/ \E e \in Experiments, asked \in Selectable :
       LaunchSuite(e, asked) \/ LaunchParallel(e, asked) \/ LaunchHull(e, asked)

Unit(u) ==
  \/ ResumeUnit(u) \/ RefuseOutput(u) \/ StopAtMarker(u)
  \/ StartRunner(u) \/ RunnerRefuses(u) \/ RunnerCompletes(u) \/ UnitFails(u)

Summarize ==
  \/ SummarizeE32 \/ SummarizeCurve \/ SummarizeHull \/ SummarizePrefixes
  \/ SummarizeIsolation \/ SummarizePanel \/ SummarizeConvergence

PanelsNext == BeginLaunch \/ (\E u \in Units : Unit(u)) \/ Kill \/ Finish \/ Summarize

PanelsSpec == PanelsInit /\ [][PanelsNext]_panelVars

-------------------------------------------------------------------------------
(* Properties. *)

Pooled(u) == summary.pooled[u].exp
Quoted == \A u \in Units : Agree(Pooled(u), summary.quoted, summary.fields)

\* What a report of e32's curve, e53, e54 or e55 quotes of its inputs - hashes, or
\* the identity file that every launch overwrites - holds of every output it
\* pooled, although launchers keep outputs of other experiments and are killed
\* half-way.
ReportQuotesItsInputs == summary # Missing /\ summary.is \in {"curve", "isolation", "panel", "convergence"} => Quoted

\* Every system is queried in one fold of a column, and in the reports that
\* check the cross-fit (curve, panel, convergence) by a model fitted on exactly
\* the other systems of the panel.
PanelIsCrossfitted ==
  summary # Missing =>
    \A u, v \in Units :
      u[2] = v[2] /\ u # v =>
        /\ Query(Pooled(u), u) \intersect Query(Pooled(v), v) = {}
        /\ summary.is \in {"curve", "panel", "convergence"} =>
             Query(Pooled(v), v) \subseteq Fit(Pooled(u), u)

\* A unit whose runner failed or was killed is in no report: no launcher removes
\* a trace directory, and no runner starts in one that exists.  And a launch that
\* ended without a failure left the output of every unit it was asked for; only
\* the parallel launcher of e32 says so of units with an old marker too.
OutcomesAreHonest ==
  /\ summary # Missing => spoilt = {}
  /\ clean # Missing /\ clean.style # "parallel" => \A u \in clean.asked : IsWhole(u)

\* A launch's outputs are those of its identity: outputs of the stopped pilot
\* are not pooled with the registered experiment (DELAYED_LABEL_FOLLOWUP_PROTOCOL_E32).
PilotIsNotPooled == summary # Missing /\ summary.is = "e32" => Quoted
===============================================================================

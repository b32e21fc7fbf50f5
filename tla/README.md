# A TLA+ verification project for EviMem

EviMem (`src/src/matmem`, `src/tools`) simulates the screening of candidate
materials: a policy looks at candidates whose expensive outcome is hidden, picks
one within a budget, the oracle reveals its outcome, the convex hull and the
evidence memory learn it, and the next round begins. What the code promises is
mostly about *when* something may be known and *by whom*: an outcome is
disclosed only after its selection is durably recorded, a decision uses only
outcomes recorded before it, a trace replays to exactly the run it came from, a
model never ranks a system it was fitted on, a campaign never overwrites or
repeats a unit, and a report is about the outputs that it says it is about. This
project states those promises in TLA+, checks them with TLC on small instances
and proves the central ones with TLAPS for every value of the constants.

All paths below are relative to the repository; `matmem/` stands for
`src/matmem/`.

## 1. The system

| component | code | state | operations |
|---|---|---|---|
| event log and vault (the *reveal boundary*) | `protocol_closed_loop.py` 222-475 | records in memory, the pending action, the handle's buffer, the file and what of it is on disk; the set of revealed IDs | `append_action`, `authorize`, `append_reveal`, `close`, `ProtocolOracleVault.reveal` |
| protocol runner | `protocol_closed_loop.py` 600-901 | budget, spent, remaining candidates, history, deviation flag, causal hull | `run`: select, record, reveal, charge, extend the hull, record |
| policy worker | `worker_subprocess.py`, serve loop of `protocol_policy_worker.py` | one process per start, its two pipes, its reader thread and queue | `select`, `close`, the serve loop |
| policies | `protocol_policy_worker.py`, `protocol_acquisition.py`, `hull_ens.py`, `selective_planning.py` | none beyond the request, except the deviation flag the runner sends | `select`: 25 branches, each a score, a look-ahead or a gate |
| campaign gate | `campaign_gate.py` | none | simulates two complete campaigns and picks a policy |
| hull geometry and certificate | `hull_geometry.py`, `hull_certificate.py`, the evaluator of `tools/run_matpes_protocol_closed_loop_exploratory.py` | the entries of a causal diagram | hull values, membership, decompositions; interval certificates; adjudication of a finished trace |
| WBM runner and replay | `wbm_secure.py` 629-1298 | hull snapshots of the waiting queries, archive, FIFO evidence, event and parity records | `SecureWBMRunner.run`, `PersistentFIFOEvidence.admit`, `WBMOracleVault.reveal`, `replay_wbm_event_log` |
| coresets and baselines | `coreset.py`, `baselines.py`, `calibration_utility.py` | the memory a streaming learner keeps | facility, joint-risk, projection, Gaussian, diversity and FIFO `admit`; greedy and exact archive selection |
| planning benchmarks and audits | `controlled_delayed_label_benchmark.py`, `random_delayed_label_benchmark.py`, `exact_joint_separation.py`, `hull_ens_audit.py`, `paired_randomization.py` | none | exact dynamic programmes on finite worlds; a sign-flip test |
| evidence flow | `cards.py`, `identity.py`, `protocols.py`, `activation.py`, `residual.py`, `residual_posterior.py`, `sufficient_state.py`, `risk.py` | the archive of cards, two sufficient states, a calibrated radius | fit a transport, resolve, activate, correct, screen, update |
| tasks and plans | builders and planners under `tools/`, the fit/query choice of the closed-loop runner | write-once files that name one another by checksum | build a task and its vault, freeze, cross-fit, reduce a pool, plan a curve or a convergence study, run |
| campaign launchers and summaries | `tools/run_*` launchers, `tools/summarize_*` | outputs, traces, failure markers, identity files in a shared directory | launch, resume, refuse, start a runner, mark a failure, pool outputs into a report |
| data sources, transports, figures | `wbm.py`, `wbm_raw.py`, `matpes_data.py`, `protocol_transport.py`, the other tools | files | download, parse, fit, tabulate, draw |

How they interact. A runner owns one vault, one log and one policy worker. It
sends the worker a policy state through a pipe and gets an ID back; it passes
the ID to the log, which writes it and returns an authorization; it passes the
authorization to the vault, which asks the log (`authorize`) before it answers;
it gives the outcome to the hull and the memory and asks the log to write what
became of it. An exception anywhere leaves the log with a pending action; the
log then refuses everything. The file of the log is all that an auditor
(`replay_wbm_event_log`) has. Builders write the tasks, vaults and plans that
say which system a runner queries and what its transport is fitted on. A
launcher starts runners as processes and knows them only by the files they
leave; a summary knows the launches only by theirs.

What is hard here, and what the properties are about (`PROJECT.json` lists each
hazard at its line):

- *write-ahead under failure*: a flush that raises leaves its line in the
  buffer, a later flush writes it; an fsync that raises leaves it in the file;
  the process or the machine may die between any two of these;
- *stale authorizations and stale snapshots*: a capability of an earlier round,
  a query judged against a hull that already holds its outcome;
- *re-entry*: `run()` called a second time on the same vault, hull and log;
- *time-outs racing late answers* in the worker, whose reader thread belongs to
  a process that may no longer be the current one, and a write that has none;
- *launchers racing or coming back after a crash* over files that are written
  in place, and resuming outputs that another experiment left;
- *provenance in many hands*: five tools and four options decide what a model is
  fitted on; rosters are renumbered, rebased and reduced on the way;
- *decisions that are exact only as a whole*: one-swap planners against all
  sets, a rollout that revises itself after each answer, a simulated campaign
  against the one that is then run; ties and facets decide them;
- *prefixes*: any prefix of a log must replay, or be recognised as incomplete,
  and nothing that is not a prefix may.

## 2. The modules

| module | models | composes |
|---|---|---|
| `ProtocolEventLog` | the in-memory half of both event logs, as operators | |
| `RevealBoundary` | one log on one path, its vault, arbitrary callers, a failing file | `ProtocolEventLog`; implements `RevealContract` |
| `RevealContract` | what log and vault promise to a reader of the trace (abstract) | |
| `SecureProtocolRunner` | `SecureProtocolQueryRunner.run` | `ProtocolEventLog` |
| `PersistentWorker` | `PersistentWorkerSubprocess`, its worker, pipes and reader threads | |
| `WBMReplay` | `replay_wbm_event_log`, as a predicate on lines | `ProtocolEventLog` |
| `WBMSecureRunner` | `SecureWBMRunner.run` | `WBMReplay` |
| `FIFOEmulation` | the run with a reconstructed FIFO, as an instance of the runner | `WBMSecureRunner` |
| `HullGeometry`, `HullCertificate` | hulls of binary systems; interval certificates (operators) | |
| `CampaignEvaluation` | the evaluator of a finished trace, with certificates on the way | `HullCertificate` |
| `SourceRollout`, `HullLookahead` | the rollout gates; the posterior policies (operators) | `HullCertificate` |
| `PolicyDispatch` | `select` for all 25 policies, round after round of the closed loop | `HullLookahead` |
| `CampaignGate` | the gate, and the campaign that it starts | `PolicyDispatch` |
| `CalibrationCoreset` | the planners of `coreset.py` and `calibration_utility.py`, as operators over a table of posteriors | |
| `StreamingMemories` | every bounded memory, offered one stream of cards | `CalibrationCoreset` |
| `DelayedLabelPlanning` | the two finite-world benchmarks of delayed labels and the Hull-ENS audit | |
| `SelectivePlanning` | the replay of the selective gate on them, and the audit of the sampled gate | `DelayedLabelPlanning` |
| `JointSeparation` | the exact joint separation audit | |
| `PairedRandomization` | the paired sign-flip test and its interval | |
| `EvidenceFlow` | from matched structures and cards to a screening decision | |
| `TaskLineage` | from a release to the runs of a study, through every builder | |
| `WriteOnceCampaign` | launchers, runners and the files of one unit of the convergence campaign, as racing processes | |
| `CampaignPanels` | the launchers that share a directory, their runners and their summaries | |
| `DataFacts` | lemmas: least numbers and induction in set form, repetition, sums, sequences | |
| `RevealBoundary_proofs` | theorems about `RevealBoundary` and its refinement of `RevealContract` | `DataFacts` |
| `Runner_proofs` | theorems about `SecureProtocolRunner` and `PersistentWorker`, which share a caller and no state | `DataFacts` |
| `WBMSecureRunner_proofs` | theorems about `WBMSecureRunner`, `WBMReplay` and `FIFOEmulation` | `DataFacts` |
| `Campaigns_proofs` | theorems about `WriteOnceCampaign` and `CampaignPanels` | |
| `Evidence_proofs` | theorems about `EvidenceFlow` and `TaskLineage` | `DataFacts` |
| `Evaluation_proofs` | theorems about `HullGeometry`, `HullCertificate`, `CampaignEvaluation` and `PairedRandomization` | `DataFacts` |
| `Policies_proofs` | theorems about `SourceRollout`, `HullLookahead`, `PolicyDispatch` and `CampaignGate` | `Evaluation_proofs` |

`MC*` modules hold the values of an instance, and their `.cfg` files the runs.
Three of them compose modules that do not share state: `MCStudies` (the offline
studies), `MCEvidence` (`EvidenceFlow` and `TaskLineage`), `MCCampaigns`
(`WriteOnceCampaign` and `CampaignPanels`); `MCPolicies` extends `CampaignGate` and
`CampaignEvaluation` and runs them side by side. A first variable says to which of them a
behaviour belongs, the others stay put, and a property of the run is the
conjunction of the modules' properties, each for its own behaviours.

A definition whose comment begins *Faulty variant* is a plausible mistake in the
definition that follows it; no specification uses it. It is there so that each
property can be shown to depend on the code it is about: with the mistake in the
place of the definition, TLC finds the property violated (`PROJECT.json`,
`mutants`).

### Conventions

SHA-256 is an injective function of its content: equal hashes are equal values.
An outcome is named by its pair or query. Money is counted in units of the
affordability tolerance (1e-12), energies in units of the final tolerance
(1e-8), both exactly: the tolerances are modelled, floating-point rounding is
not. A posterior is a finite set of equally likely sampled worlds, and a Monte
Carlo mean is the sum over it. A step that may raise is a step with a variant,
or an alternative, that leaves what the code leaves and ends the call.

### Reveal boundary

`RevealBoundary` lets callers call the log and the vault in any order and
present any authorization they ever got; the runner's own order is not assumed.
`log` is `_records` and `_pending` (an index, 0 for `None`); `file`, `buffer`
and `synced` are what `_persist` works on.

| action | code | |
|---|---|---|
| `AppendAction`, `AppendActionRaises` | `append_action` | the second leaves a line in the buffer (flush) or in the file (fsync) and nothing in memory |
| `Reveal` | `ProtocolOracleVault.reveal` with `authorize` | refused unless the authorization is that of the pending action, the file exists and is not empty, the pair was never revealed and the outcome agrees with it |
| `AppendReveal`, `AppendRevealRaises` | `append_reveal` | |
| `Close` | `close` | flushes what is buffered |
| `Unlink`, `Kill`, `PowerLoss` | the environment | `Kill` loses the buffer; `PowerLoss` also any part of the unsynced suffix |
| `Reopen` | a new log on the path, mode `x`, with a fresh vault | refused while the path exists |

`RevealContract` is the same seen by a reader of the trace: one selection in
flight, only its outcome disclosed, at most once, and nothing selected until it
is accounted for on disk.

### Protocol runner

`pc` walks through `run()`: `loop` (affordable candidates, policy state), `select`
(worker), `append` (action record), `reveal` (vault, charge, history, hull),
`record` (reveal record). Every raise goes through `Abort`, the `finally` that
closes the policy. `run()` may be called `MaxRuns` times on the same objects:
`vault`, `hull` and `log` persist, locals start anew, as in the code.
Which of the offered queries the policy picks is left open, except that the
conformal policy returns the source action once the state says that the
deviation is used.

### Policy worker

`stage` is where the parent thread is inside `select` or `close`. Each generation
has its own process (`status`), stdin pipe (`inbox`), computation (`busy`),
stdout pipe (`outbox`), reader thread (`reading`) and queue (`responses`). A
worker may take any time, exit at any point and ignore `terminate()`. A request
out of `Large` is longer than the pipe: its write stays in `flush` until the worker
has read it, and that wait has no time-out. The waits in `close()` have one,
the last one too (`KillExpires`): then `close()` raises, the state is
dropped already and the process, sent SIGKILL, is `abandoned`.

### Hulls, policies and the gate

A composition is a number of atoms out of `Grid`, energies are integers, hull
energies are in units of 1/`Scale`, so every chord is exact. `HullGeometry` has
the three ways in which the code finds a hull: the monotone chain, the cheapest
decomposition, and membership of a template with its tie rule.
`CampaignEvaluation!Replay` extends the causal diagram by one outcome, judges
it, and issues certificates for the rest.

A *call* in `SourceRollout` and `HullLookahead` is what the worker receives: what is
left, what is known, the horizon. Their operators give the set of actions that a
policy may return, over the draws of its sample blocks. `PolicyDispatch!Respond`
is one round: the branch of `select` for the policy, the fallback for
elements without a transport, the diagnostics it writes, the answer of the oracle. `Crash`
is the branch that raises. The three ridge policies and the hull entropy rank
by real arithmetic: any query may be theirs.

### WBM runner and replay

`HullAt[S][q]` is the hull energy at the composition of `q` once the phases `S`
are known; the code computes it, here it is a constant with the laws that
`HullAssumption` names, and the instance fills it with an exact hull. `snapshot[q]`
is the set of phases of the snapshot that the query carries. `WBMReplay` reads
the lines of a file as the auditor does. `FIFOEmulation` instantiates the runner
with `Strategy <- "reconstructed"` and an empty `fifo`: "exact FIFO emulation"
is then the statement that the persistent run is a run of that instance.

### Coresets, benchmarks and audits

The Gaussian process behind the coresets is a table, `post[S][q]`: the
probability, in steps of 1/`U`, that query `q` is stable when the cards `S` are
kept. Everything the planners do with it is modelled: risks, gains, weights,
regrets, the constraints of the projection and the order in which ties are
broken. `Arrive` is one call of `admit` on each of six memories with the same
card and pool, so that one run shows all of them.

`DelayedLabelPlanning` has one action, `Query`: a round of `evaluate_..._policy`
for one true world. Its integers are energies in units of 0.0005 eV; expected
values are sums over worlds of weight times reward, which spares the division
by the weight of the belief. The estimators of the Hull-ENS audit are evaluated
at every belief that a round reaches, over all pairs of outer draws. The sampled
policy `ic_sarr` decides by `StageOne` and `StageTwo` over all samples of three
blocks; its lower bounds are compared as squares, so that the standard error is
an integer. `SelectivePlanning` adds `Replay`, a round of the selective replay,
where Hull-ENS replaces greedy if the headroom seen in two estimates exceeds
their error and a penalty, and the audit that repeats the two-stage gate with a
completion and a bookkeeping of its own.
`JointSeparation` follows the code's loop over worlds: `Round` picks and
retains, `Finish` files the path and starts the next world.
`PairedRandomization` receives one paired difference after the other and
tests after each; p-values are counts out of all sign patterns, so that
comparing with the level is a comparison of integers.

### Evidence

`FitMap` fits a transport on a grouping of structures (what a fit errs by is a
table, any table), `Calibrate` the radius of the screening, `Observe` records a
card that the validators accept and offers it to both states. Everything else -
resolving, activating with its audit, the compatible view, the weighted
correction, the decision - is a function of these, evaluated in every state for
every query and gate.

### Tasks, plans and runs

In `TaskLineage` a file is its content, and a content holds the files whose checksums it
carries. `Build` is one tool: `BuildTask`, `BuildJarvisTask`,
`BuildConfirmatory`, `Freeze`, `BuildCrossfit`, `BuildCleanroom`,
`BuildPoolShift`, `BuildQueryPoolShift`, `BuildEquivalence`, `BuildConvergence`,
`BuildRunnerManifests`, `BuildCurve`. `RunSomething` is the closed-loop runner
with one of its sources of rosters (`RunPlain`, `RunFold`, `RunCurve`), whose
`Run` decides what the model is fitted on. Each of them may be given a frozen
model (`--transport-model`), which takes the place of the fit that the plan
registers; the runner then compares only the model's systems with the queries. A
result records the fitted rows, the queried systems, the plan and the frozen
model, if any.

### Campaigns

`WriteOnceCampaign`: one unit and its files; units share none. Each launcher goes through its unit
once: manifest, failure marker, existing output, log, launch, wait, validate.
Testing that a file is absent and creating it are separate steps, and so are
opening the log (`OpenLog`) and starting the runner (`Spawn`); at either, and when it
writes the marker, a launcher may end by an `OSError` (`RaisesOSError`), which
leaves no marker. A runner goes on when its launcher is killed.

`CampaignPanels`: a directory of units, a fold and a column each (budget, pool or
configuration), and six kinds of campaign. An experiment is a record of what
identifies it. A launch compares of an existing output what its code compares
(`Resumable`), the sequential suite goes on in order and stops at the first
failure, the parallel ones go on; a runner makes its trace directory and refuses
one that exists. A summary reads a fixed roster and writes only if every check
it makes passes; what it quotes, and of whom, is part of the report.

## 3. Runs

TLC explores every behaviour of these instances.

| run | instance | what it shows |
|---|---|---|
| `reveal_boundary` | two pairs with outcomes and one without; at most 5 records and 6 lines | Under any order of calls, old authorizations, failing writes, kill, power loss, unlink and reopening: `WriteAhead` (an outcome is handed out only after its selection is on disk), `RevealsAccounted` (at most one outcome without its record, and it is in flight), `AcknowledgedOnDisk`, `NoStaleReveal`, `NeverOverwritten`, and the refinement `ImplementsContract`. |
| `secure_protocol_runner` | three candidates of cost 1, 2, 3 and one without a partner; budgets 0, 1 and 5; two calls; tolerance 2 | `DecidedOnItsRecord` (the recorded state of a selection is exactly what the records before it say, a result is the whole trace, and the budget is kept within the tolerance of each round); `OneDeviation`; `PoisonedLogStaysShut`; `EveryRunEnds` (unless the write of a request blocks for ever). |
| `persistent_worker` | three calls, one of them with a request longer than the pipe, three processes | `AnswersOwnRequest` although workers answer late and readers of old workers go on; `WorkersAreReaped` (outside a call only the current worker runs, or one whose `close()` raised because the wait after SIGKILL expired); `CallsReturn` (or the write of the long request blocks for ever, which is the only way not to return). |
| `persistent_worker_torn_down` | two calls, two processes | the first finding below |
| `wbm_runner` | five queries of a binary system, one unmatched, and a final phase that is no query; budgets 1 and 4, compared budgets 1, 3 and 4; FIFO of 2 | `JudgedCausally` (a query is judged by the hull before its own outcome and never by an older one; discovered, confirmed and final counts agree with those hulls); `ReplayIsExact` for every prefix, exchange and loss of lines; `ExactEmulation`. |
| `policies` | 25 policies on twelve systems of three queries, budgets of two and three, two to four worlds, two sample blocks, every answer and every draw; 1156 systems for the evaluator | `SimulationIsFaithful` (what a rollout or the gate simulates is what the worker and the loop then do); `LookaheadIsExact` (three two-step programs, one value; Hull-ENS between its bounds); `ReplacementsPay` (the rollout by which Delta-Hull is replaced selects what the next round of the loop selects, in every possible world; in its members the headroom is the gain of the best query, and what a gate puts in the place of Delta-Hull gains more than the margin asks for); `DeviationsPaySomewhere`; `EvaluationAgrees` (the evaluator never raises, chain and envelope agree, a reveal changes no other label); `CertificatesAreKept`. |
| `hull_ens_selects` | the same systems | the third finding |
| `studies` | four cards, two places, 32 pairs of tables; the 27 registered delayed-label instances and eight with unequal weights, ties and facets; the registered joint instance at capacity 0, 1, 3 and cost 0, 1; all sequences of five differences | `StudyMemoriesAreOptimal` (each planner against brute force over the sets it says it is optimal over, the diagnostic, the 1 - 1/e bound); `StudyPoliciesAreOrdered` (the monotone chain is the lower hull, a revised rollout earns at least the source order from every belief, none more than Bellman; the selective gate never lowers the value of the best batch, whatever it estimates, and the audit repeats the sampled gate for all samples of both stages); `StudyEnsIsBounded`; `StudyJointIsNonanticipative` (the true world that the recovery of an action is handed is used for nothing but the probe's answer; the nulls are null); `TestKeepsItsLevel` (the sign-flip test is significant for at most its level of the sign patterns; its interval is what the test accepts). |
| `evidence` | two transports on five groupings of eight matched pairs, one structure matched twice, five tables of what a fit errs by, cards of three protocols, up to three in every order; two releases and JARVIS, eight purposes of tools in a row, each run with a frozen model or without | `RadiiCover` (a split radius covers a matched pair left out, a clustered one a system, as often as it promises); `OneEvidence` (five consumers take the same cards, in any order); `StableIsStable`; `NothingLeaks` (no outcome of a queried or sealed system is in the fit or the frozen model); `RosterHonoured` and `SameModelAcrossPools`, as far as no frozen model or the same one is given. |
| `campaign` | three launchers on one unit, one with an altered identity, each dying anywhere; six kinds of campaign over two folds and up to two columns, four experiments, three launches, one fault | `LaunchedOnce`, `OneIdentity`, `OutputIsWriteOnce` and `UnitIsHonest` of the unit (what was reported as valid is, and a unit whose log was opened is unsettled only if the launcher that opened it was killed or ended by an `OSError`); `ReportQuotesItsInputs`, `PanelIsCrossfitted` of the panels; `OutcomesAreHonest` (nothing that failed is in a report, a clean launch left all it was asked for). |
| `campaign_failure_terminal` | three launchers on one unit | the second finding |
| `e32_pooling` | the panels | the fourth finding |

Why the bounds are enough. In the boundary every hazard needs at most two
actions and the reveal of one of them, three lines, and a crash; five records
and six lines leave room for a second incarnation to meet the leftovers of the
first. The runner's budgets make the loop end for each of its reasons: nothing
affordable, nothing left, exactly spent, and overspent within the tolerance. A
third process of the worker is needed for a reader two generations old, and the
long request is the second, so that a worker that has answered once may stop
reading. In the WBM instance every reveal may or may not change the hull
energies of the queries that wait, and four selections overflow the FIFO twice.
Three queries are a first action, an answer that matters and a choice after it,
which is as deep as any of the look-aheads conditions; two queries of one
composition, energies on a facet and equal blocks give the ties. Four worlds are
what it takes for a rollout to beat Delta-Hull: there the selective gate
replaces it at budgets of two and of three, the safe gate at radius zero, while
radius one keeps it. Three cards are two that agree and one that does not. The
lineage's release has two systems per fold and stratum, so that leaving one out,
reducing a pool and picking a fold each change something. Three launchers of a
unit are one that fails, one that races it and one that comes back after both;
three launches of a directory are a pilot, a launch that keeps its outputs, and
one that rewrites the identity; one fault is enough, since no file survives two.
Two places of four make the coresets swap twice. The 27 instances and the joint
instance are the registered ones themselves. Three blocks, where the code has
sixteen, are the fewest for which an advantage fails the bound of stage one and
passes that of stage two.

Fairness. `SecureProtocolRunner` assumes weak fairness of its own step: it is
straight code in one thread, and each call it makes returns or raises, save one:
the write of a request to the worker (`worker_subprocess.py:140`) has no time-out
and blocks while a worker does not read and the request is longer than the
pipe. The end of that wait (`Unblocked`) is no part of the fairness.
`PersistentWorker` assumes weak fairness of the parent's steps inside a call
other than in that write (`Blocked`): the waits for an answer and for a process
to go have a time-out each, the last one after `kill()` too. No worker is
assumed to read or to answer, ever, and no process to go when it is sent
SIGKILL. Both liveness properties say of what blocks that it is that write. The other specifications have no fairness
and no liveness property: nothing in their code forces a next call.

Deadlock is not checked where the modelled program may stop: a closed log, a
finished run, a launcher that returned, a study at its end. In every such model
the final states are those the code has, and `EveryRunEnds`, `CallsReturn` and
`OutcomesAreHonest` say what must be true in the end.

### Findings

- `worker_subprocess.py:160`: `close()` calls `process.stdin.close()` outside
  any `try`. If the worker dies after `poll()`, the flush in it raises
  `BrokenPipeError`, `close()` is left before `process.wait()`, and the process
  is never waited for (`persistent_worker_torn_down`).
- `tools/run_matpes_e55_convergence.py:508`: the failure marker is looked for
  once; a launcher past that point can report a unit as reusable after another
  one marked it as failed, which the design document calls terminal
  (`campaign_failure_terminal`).
- `protocol_policy_worker.py:360`: the diagnostics of the branch `hull_ens` read
  `values`, which only other branches bind. The worker always asks for
  diagnostics, so `hull_ens`, a comparator of `HULL_ENS_PROTOCOL_V1.md:28`,
  raises `UnboundLocalError` in every call whose elements a transport supports
  (`hull_ens_selects`).
- `tools/run_delayed_label_followup_parallel.py:110`: both E32 launchers name
  their files by fold and budget only and keep an output that was made for the
  same task, whatever its seed, settings or cross-fit. The E32 summary checks
  policies and budgets and quotes the identity file of the last launch. The
  stopped pilot, which `DELAYED_LABEL_FOLLOWUP_PROTOCOL_E32.md:67` says cannot be
  pooled, is pooled (`e32_pooling`). The later summary of the rollout curve
  compares everything recorded and never is taken in (`ReportQuotesItsInputs`).

## 4. Proofs

| theorem | says, for all values of the constants |
|---|---|
| `BoundaryInvariant` | the inductive invariant of the reveal boundary |
| `BoundaryTypeOK`, `SelectionsBeforeReveals`, `AtMostOneUnaccounted` | `[]TypeOK`, `[]WriteAhead`, `[]RevealsAccounted` |
| `AcknowledgedRecordsAreDurable`, `RunsAreNeverOverwritten` | `[]AcknowledgedOnDisk`; the action property `NeverOverwritten` |
| `NoStaleReveals`, `BoundaryImplementsContract` | the action property `NoStaleReveal`; `Spec => Contract!Spec`, each action a step or a stutter |
| `RunnerInvariant`, `AtMostOneDeviation`, `CallsAreDecidedOnTheirRecord`, `PoisonedLogsStayShut` | the runner's invariant, `[]OneDeviation`, `[]DecidedOnItsRecord`, `PoisonedLogStaysShut` |
| `WorkerInvariant`, `AnswersMatchRequests`, `NoWorkerOutlivesItsCall` | the worker's invariant, `[]AnswersOwnRequest`, `[]WorkersAreReaped` (save a process whose `close()` raised when its last wait expired) |
| `WBMInvariant`, `RunsAreJudgedCausally` | the WBM runner's invariant, `[]JudgedCausally` |
| `LogIsWrittenByRounds`, `ReplaysAreExact` | the invariant of the WBM log, `[]ReplayIsExact` |
| `PersistentIsReconstructed` | `Spec => ExactEmulation`, a refinement with an empty FIFO for the persistent one |
| `CampaignInvariant`, `RunnerLaunchedOnce`, `ReportsAreValid`, `UnitsAreHonest`, `RootHasOneIdentity`, `OutputsAreWriteOnce` | the unit's invariant and its properties |
| `PanelsInvariant`, `ReportsQuoteTheirInputs`, `PanelsAreCrossfitted`, `OutcomesStayHonest` | the panels' invariant and the three properties of `CampaignPanels` |
| `FilesAreSound`, `NoOutcomeLeaks`, `RostersAreHonoured`, `PoolsShareTheirModel` | the invariant of the files of a study and the three properties of `TaskLineage` |
| `ArchiveInvariant`, `CalibratedRadiiCover`, `ConsumersShareTheirEvidence`, `StableScreensAreStable` | the invariant of the archive of cards, `[]RadiiCover`, `[]OneEvidence`, `[]StableIsStable` |
| `PairedTestKeepsItsLevel` | `[]TestKeepsItsLevel`, for samples of any size |
| `ChainIsHull`, `HullIsEnvelope` | the monotone chain of any rising points is their lower hull; its hull energies are the envelope of all decompositions |
| `CertificatesKept` | `CertificatesAreKept`: certificates are true, complete in the end and never withdrawn, radii cover |
| `EvaluationAgreesAlways` | `[]EvaluationAgrees`, for any systems and traces |
| `GatesPaySomewhere` | the action property `DeviationsPaySomewhere` of the gates of the source policy, for actions and for campaigns |
| `CampaignInvariantHolds`, `SimulationIsAlwaysFaithful` | the invariant of the closed loop with all 25 policies; `[]SimulationIsFaithful` |
| `LookaheadIsAlwaysExact`, `ReplacementsAlwaysPay` | `[]LookaheadIsExact` (the two-step planners and the bounds of Hull-ENS), `[]ReplacementsPay` (the rollout that judges a replacement of Delta-Hull against the next round of the loop, and what the two gates gain in it) |

Assumptions, each named in its module and evaluated by TLC in the runs:
`BoundaryAssumption` (pairs with outcomes are pairs, rounds are naturals);
`RunnerAssumption` (costs, budgets and the tolerance are integers in range);
`WBMAssumption` (likewise) and `HullAssumption` (a hull energy is an integer and
never rises when phases are added, and is at most the energy of a phase that is
known); `WorkerAssumption` (the requests longer than the pipe are some of the
calls); `CampaignAssumption` (`None`, for a manifest and a log that are absent, is
no identity and no launcher); `PanelsAssumption` (folds and columns are finite, the registered
experiment is one of them); `LineageAssumption` (a release is finite, its rows
belong to systems, hashes are naturals, there are two folds at least);
`EvidenceAssumption` (residuals, energies and similarities are integers, errors
are naturals of finitely many matched pairs, a grouping is one of such pairs;
nothing is asked of the structures and systems that pairs belong to); `RandomizationAssumption`
(differences are integers, the level is a percentage strictly between 0 and
100); `EvaluationAssumption` (energies are integers, compositions lie on the grid,
radii, the tolerance and epsilon are naturals, the level is a percentage, and both
elements are among the references: the first margin is taken from a diagram of
the references alone, which no diagram is without). `DispatchAssumption` (compositions lie
on the grid, energies, their sources and the ranks of the ids are integers, a
budget is a natural; thresholds are not negative, which `protocol_closed_loop.py:518`
enforces; both elements are among the references, from which alone the runner
builds the first hull; ids differ and the sampled worlds are finitely many; `Scale` is a multiple of
each number of samples there may be, so that a mean over samples is exact in the
model's integers; the radii of the safe gate are naturals, as Hoeffding's radius
is (`protocol_acquisition.py:1847`); the queries of a task are compounds and its references at the elements have the
formation energy zero, which is how `tools/build_matpes_protocol_task.py:207` and
`:276` make them), `PolicyAssumption` (the policy is a choice of the option
`--policy`, `protocol_policy_worker.py:1016`) and `GateAssumption` (two sample
blocks at least, positive quantiles that do not fall) belong to the policies. The number of queries, references and grid points is any. Sets of pairs, candidates, launchers and experiments
may be infinite; calls, processes, launches and faults are any number.

*Reveal boundary.* `WriteAhead` is not inductive: a reveal is allowed by the
pending action in memory, the promise is about the disk. `IInv` ties them:
`RecordsSynced` says that each record in memory is a synced line of the file,
`PendingIsLatest` that the pending action is the last record, `RevealedOnce` that
nothing was handed out twice; `Shape` gives the sequences the form the lemmas
need. A write that raises leaves lines that are in no record, so the file may
hold more than memory, never less; power loss only takes unsynced lines, and
records are synced. That acknowledged records appear *in order* needs more: an
embedding of the records into the file's synced lines, which every append
extends. The step lemmas treat one action each.

*Refinement.* The contract sees what is on disk, what was handed out and which
selection is in flight; all writes that raise, `Close`, and deaths between
calls are stutters or the loss the contract allows. The proof needs one more
invariant than `IInv`, `LooseReveals`: a reveal line that is buffered or not yet
synced is one of the pending action's pair, so that whenever it does reach the
disk it accounts for the selection in flight.

*Runner.* The worker keeps nothing between requests, so "one deviation" rests on
a flag that travels: from `run()` into the state that is sent, from the state to
what the policy may select, from the selection to the record. `Tracked` says
where it is at each step.

*Worker.* There are no sequence numbers in the pipes. What keeps an old answer
from a later call is that a generation whose call failed is never current again:
`CurrentCarriesCall` says that the current one holds exactly the request in
flight, in one of four places, and nothing between two calls; `Fresh` and
`Alive` say what the other generations can still be.

*WBM runner.* The property is about log and result, the code works on snapshots.
`Fresh` says that the snapshot of every waiting query is the archive, `OnRecord`
that the archive is what is recorded, except between a reveal and its record,
`Judged` that each card was judged by those before it. That confirmed never
exceeds discovered and final never confirmed then follows from the
monotonicity of the hull.

*Unit.* Once a manifest is written, everyone past it has its identity
(`PastManifest`). Three more facts make this inductive and give the properties:
`RunnerHasLog` (a runner was started only by the launcher that opened the log), `LaunchedOnce`
(at most one launcher ever starts a runner) and `OutputHasRunner` (an output was
begun by a runner past its start). `OutputIsWriteOnce` is proved as an action
property from the same `IInv`.

*Panels.* A runner only starts in a trace directory that it makes, and nobody
removes one, so a unit that failed once has no whole output for ever
(`SpoiltStays`); a summary is the last thing that happens, so what its checks
found stays true of what it pooled. The rest is that the checks of each summary
imply what the report says: pairwise disjoint folds whose union has the
registered size, one hash for all.

*Decisions on the record.* The code keeps four accounts of one call: the
sequence of actions, the spent sum, the remaining candidates and the log.
`CallInv` says that each is the same function of the log's reveals since the
call began. Sums are the library's `SumFunctionOnSet`; `DataFacts` shows what it
adds, compares and counts. The budget then follows from the guard of `Select`:
what was affordable within the tolerance is all that is ever charged.

*Replay.* `ReplayInv` describes the log by rounds: line 2r - 1 is the action of
round r and carries the round's number and the hash of the line before it, line
2r is its reveal. The auditor's loop, restricted to a prefix, then accepts and
returns the events of those rounds. For a damaged log take the first line that
differs: its number or the hash it carries gives it away, unless nothing
follows.

*Emulation.* `HoldsLast` says that the persistent FIFO is the last `Capacity`
cards of the archive in their order. It is inductive because an admission
appends the newest card and drops the oldest. The evidence that either run
selects on is then one set, and each action of the persistent run is that action
of the reconstructed one.

*Evidence.* A calibrated radius is a k-th smallest error, of matched pairs in the
split fit and of systems in the clustered one. Suppose leaving one
out lowers the radius below its error: then it is among
the largest, and `FewAreMissed` counts that there are at most n - k of these, by
taking the least missed one. The code asks for three different structures among
the pairs but ranks the pairs, so a structure with many pairs has as many
ranks: of structures the split radius promises nothing, and nothing is claimed. The activator reads an archive by a filter, the
running states by adding each card as it comes; `FlowInv` says that a state is
the sum over the cards observed, which the step lemmas show of `Observe`, and
that fitting or calibrating leaves those sums as they are. A stable screen is right
because a weighted mean lies between the least and the greatest of its terms.

*Tasks and plans.* Files are written once and carry the checksums of their
sources, so an invariant of each file can speak of all files behind it.
`LineageInv` says of each kind what it owes: a cross-fit partitions the systems
of its plan, a reduction keeps a prefix of the hashed order, a runner's result
is fitted on the roster and queries its own fold. A plan may have any number of
ancestors; along the line the systems only become fewer, which a least
counterexample shows. Nested pools are prefixes of one order of different length.

*Paired test.* Flipping a sign pattern permutes all sign patterns, so every
pattern of one sample is compared with one set of flipped means. Of the
significant patterns take the one that shows least: the other ones show at
least as much and are counted in its p-value, so there are fewer than the level
allows. For the interval, the observed mean less the hypothesis shrinks, as the
hypothesis moves towards the mean, at least as fast as any flipped mean does;
so p-values only grow towards the mean and the accepted hypotheses have no gap.

*Chain and hull.* A popped point lies on or above the line that replaces it, and
the points popped are a suffix of the chain, because slopes rise along it: this
is `ChainIsHull`, by induction over the points pushed. The entries that
`_fixed_stable_candidate_mask` leaves out are above the line of the elements, so
no entry at all is below a line of two neighbours of the chain
(`ChainOfTemplate`). A mixture of entries is then not below such a line either,
and the mixture of the two neighbours is on it, which is `HullIsEnvelope`. The
products of unknown integers, which the prover cannot expand, are taken apart into
named products first.

*Certificates.* Mixtures have natural shares, so the cheapest one grows with the
energies of the phases: the hull of the lower endpoints is never above the true
one, that of the upper endpoints never below. A reveal replaces an interval by the
truth inside it, which tightens both. For the radius take, of the clusters that
their own radius misses, one with the least error: every cluster with a smaller
error is covered, and there are enough of them.

*Evaluation.* `TraceInvariant` says that the diagram is the references followed by
the phases of the trace, in its order, and that whoever is on its hull now was
declared stable when selected. A hull only sinks when phases are added (`HullSinks`), so
a margin that is not positive in a larger diagram was not positive when the
query was selected: nothing is declared late, and the evaluator does not raise.
After a reveal a later call has the same phases in another order; the winners of
all compositions have the same energies, so the chains are the same sequence,
and only the name that stands for a composition can change, between exact ties.

*Gates.* A lower confidence bound above zero is one of a sum above zero, and such a
sum has a term above zero: a block in which the action finds more than the source
action. A block adds up two sampled worlds, so it does in one of them. The three
gates and the confirmation differ in what they ask besides; a confirmed action
has such a block in either stage (`ConfirmedPays`). For a whole campaign the
source policy has one campaign per world and a campaign finds no more than it
pays for (`CampaignsAreBounded`), so where IC-SARR found more there was something
to find. `GateInvariant` adds that what was selected so far are queries: what the
worker receives is then a well-formed call, with the hull of a diagram that
holds both elements.

*Simulation.* A rollout keeps a set of what it has selected and asks the hull of
all decompositions; the worker keeps a history and asks the phase diagram of
its phases. Both have the same phases in another order, so by `HullIsEnvelope`
one hull, hence one next selection; the lower margin that only counts what is
above the elements is the same because the references there have no energy.
That the terminal reward is not above the causal one says that a member of the
complete hull is one among fewer phases (`MembersStayMembers`). For the loop
against the gate, `LoopFollows` carries that what is revealed after k rounds is
one of the histories that the gate has after k rounds. This needs that a round
does select: `PolicySelectsAQuery` shows of each policy that what it ranks are
integers (means, variances, lower bounds, look-aheads over answers), so that the
best exists, and of each gate that it falls back on a query. The queries left are
renumbered in every round, `IsHistory` says that what was revealed are queries of
the system, and the ranks of those left are still different.

*Lookahead.* The planners count votes, the samples in which a query is on the
complete hull, each in its own order: by query, by sample, or first by answer.
`SumByAnswers` and `VotesByAnswers` show that these are one sum. The value of a
decision rule, a first query and a second one for each answer, is then the votes
of the first and, answer by answer, those of the second, and the best rule takes
the greatest of each (`BestRule`): that is what the conditioning and Hull-ENS
add up. The rollout is a rule (`AnchoredIsARule`), since what it selects next
depends on the answer alone, so it is worth at most the best. In it a revealed
query joins the references, behind which an entry of the same composition and
energy hides; where all compositions differ the labels of the other queries are
those of the complete hull (`LabelsAfterAre`) and the two values are equal.
Hull-ENS is at least its best batch because a best choice per answer is at least
the best of one choice for all, at most what all-knowing queries are worth
because in no sample are more members found than there are, and its risk
reduction is not negative because splitting the samples by answer does not add
variance (`AnswersReduceVariance`).

*Replacements.* Both gates judge a replacement of Delta-Hull by what two queries
find; the loop then plays the second one, with a call built anew. That these
are one campaign (`RolloutFollowed`) is shown from what the next call is made
of: the queries left in their order (`LeftAfterOne`), the phases in the order in
which the rollout makes them references (`NextPhasesAre`), and those samples that
agree with the answer, each without the query (`NextSamplesAre`). Leaving a query
out is then a bijection between the samples of the rollout's posterior and those
of the next round that keeps the labels of the others, so each has as many
votes (`NextVotesAre`), and as ranks differ Delta-Hull selects the same one
(`NextDeltaIs`). What is gained (`GatesPay`) needs different compositions: the
headroom, two scores of Hull-ENS, is then the gain of the best rollout, since
each score is that of a best rule and the rollout is one; so the margin of a gate
on one estimate bounds the gain in the other, for the safe gate as long as it
looks no further than two queries. With equal compositions and exact ties of energy
the rollout can hide value of Delta-Hull: for the compositions 1, 1, 3, 3, 1, the
ranks 4, 1, 2, 3, 5 and the sampled energies (-3, -3, -2, -2, -1), (-2, -1, -2, -2,
0), (-1, -1, 0, -2, 0), (0, 0, -3, -1, 0) the selective gate selects what is
worth less. The property says nothing there of what is gained.

Induction. What is said of all lengths, ancestors or sums is proved in set form:
`DataFacts` shows that a nonempty set of naturals has a least member
(`SmallestNumber`) and derives from it that a set of naturals that holds 0 and
successors holds all (`NumberInduction`). Functions that the library defines by
recursion, such as sums, are reached by showing that a function with the same
equations exists.

The runs `campaign`, `evidence` and `policies` put modules side by side that share
nothing; the theorems are about the modules' own specifications, of which a
behaviour of the run is one, with the other module at rest.

Only model-checked:

- liveness, which the prover does not reach: `EveryRunEnds`, `CallsReturn`;
- comparisons of dynamic programmes with brute force, whose content is what a
  recursive function over beliefs computes: `StudyMemoriesAreOptimal`,
  `StudyPoliciesAreOrdered`, `StudyEnsIsBounded`, `StudyJointIsNonanticipative`.

## 5. Not modelled

- Floating-point data: Gaussian posteriors, transports, the scores of the ridge
  policies and of the hull entropy. Where a program's control depends on them,
  the model leaves the result open or takes it from a table.
- Hulls of three elements and more, which the code gives to Qhull, and the
  caches of hull plans.
- The stdout pipe has no limit, since a reader thread drains it; of the stdin
  pipe only whether a request is longer than what it holds, by call.
- A second call of `SecureWBMRunner.run` on the same hull (hazard at
  `wbm_secure.py:932`), and one-element systems whose reference moves
  (`wbm_secure.py:783`).
- `risk.py:77` caps the conformal index at the sample and so covers less often
  than alpha says for small samples; this is arithmetic, and no runner calls it.
- Streaming coresets as the evidence of the WBM runner; reactivation costs of
  the projection; the generator of the random benchmark instances; the Monte
  Carlo branch of the sign-flip test; the calibration of the penalty of the
  selective replay, and the bins of the audit's report.
- In `TaskLineage`: duplicates and malformed rows of a release (the audits'
  matter), the list of systems that JARVIS excludes. Folds, bins and the least
  numbers of candidates and of compositions are parameters: five, three, twelve
  candidates, and eight candidates of three compositions for the curve.
- A frozen model beside a fold or a query manifest is accepted by the code and by
  the model, and only its overlap with the queries is refused. Whether it has the
  roster that the plan registered nothing checks, and no property claims it.
- In `CampaignPanels`: the statistics of the reports. Output and identity record
  the hash of the policy library too; no summary compares it between outputs
  (`summarize_e32_rollout_curve.py:112` compares the identities), and the
  properties do not claim it.
- The sources of WBM (`wbm.py`, `wbm_raw.py`), its policy worker, its grid of
  experiment cells, the MatPES parsers: validation and parsing without state.
- Scripts that download, audit, tabulate and draw.

## 6. Plan

Done, in this order: the reveal boundary with its contract, runner, worker, WBM
runner with replay and emulation, one campaign unit, coresets and benchmarks;
then hull geometry, certificates, the evaluator, all policies and the campaign
gate, evidence flow, task lineage, the shared-directory campaigns and their
summaries, the Hull-ENS audit and the paired test; the proofs of section 4.

Left:

1. `PolicyDispatch` in the place of the runner's free choice, so that
   `OneDeviation` and the rollouts meet the failing calls of the runner.
2. A second `run()` of the WBM runner, once the code says what it should mean.
3. The sources of WBM: the single-use locators of the raw vault, and the causal
   hull builder on records whose observation times coincide.

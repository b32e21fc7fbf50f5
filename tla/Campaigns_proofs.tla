----------------------------- MODULE Campaigns_proofs ----------------------------
(***************************************************************************)
(* Proofs about the launchers of the campaigns: WriteOnceCampaign, for any *)
(* set of launchers and any identities, and CampaignPanels, for any folds, *)
(* columns, experiments and manifests, any number of launches and faults.  *)
(*                                                                         *)
(* One unit.  A runner implies that its launcher made the log, an output   *)
(* implies a runner that has begun to write, and whoever is past the       *)
(* manifest has its identity.                                              *)
(*                                                                         *)
(* Many units.  A runner only starts in a trace directory it makes itself, *)
(* and nobody removes one: so a unit that failed once has no whole output  *)
(* for ever.  And a summary is the last thing that happens: so what its    *)
(* checks found stays true of what it pooled.                              *)
(***************************************************************************)
EXTENDS WriteOnceCampaign, CampaignPanels, FiniteSetTheorems, TLAPS

-------------------------------------------------------------------------------
(* One unit.                                                                *)

Kinds == {"absent", "partial", "valid", "invalid"}

\* The shapes the proof needs: the functions have their domains.
Shapes ==
  /\ log \in Launchers \union {None}
  /\ pc = [l \in Launchers |-> pc[l]]
  /\ report = [l \in Launchers |-> report[l]]
  /\ runner = [l \in Launchers |-> runner[l]]
  /\ output = [kind |-> output.kind, id |-> output.id]
  /\ output.kind \in Kinds
  /\ \A l \in Launchers : report[l] = "none" <=> pc[l] # "done"

\* A runner is started only by whoever created the log, and once.
RunnerHasLog ==
  \A l \in Launchers :
    /\ pc[l] = "launch" => log = l
    /\ runner[l] # "absent" => log = l /\ pc[l] \in {"wait", "check", "fail", "done"}

\* An output was begun by a runner that is past its start.
OutputHasRunner ==
  output.kind # "absent" =>
    \E l \in Launchers : runner[l] \notin {"absent", "running"}

\* Past the manifest there is only its identity.
PastManifest ==
  /\ \A l \in Launchers :
       pc[l] \notin {"start", "done"} => Identity[l] = manifest
  /\ OneIdentity

UnitInv ==
  /\ Shapes /\ RunnerHasLog /\ LaunchedOnce /\ OutputHasRunner /\ PastManifest
  /\ ReportedMeansValid

USE DEF At, Goto, Ends, Validates, files, vars

LEMMA InitUnitInv == Init => UnitInv
<1>. SUFFICES ASSUME Init PROVE UnitInv
  OBVIOUS
<1>1. Shapes
  BY DEF Init, Shapes, Absent, Kinds
<1>2. RunnerHasLog /\ LaunchedOnce /\ OutputHasRunner
  BY DEF Init, RunnerHasLog, LaunchedOnce, OutputHasRunner, Absent
<1>3. PastManifest /\ ReportedMeansValid
  BY DEF Init, PastManifest, OneIdentity, ReportedMeansValid, Absent
<1>. QED BY <1>1, <1>2, <1>3 DEF UnitInv

\* An output that is complete is not written again: the next step leaves it.
LEMMA StepKeepsOutput ==
  ASSUME UnitInv, [Next]_vars, output.kind \in {"valid", "invalid"}
  PROVE  output' = output
<1>1. CASE UNCHANGED vars
  BY <1>1
<1>2. CASE Next
  <2>. PICK l \in Launchers :
         \/ WriteManifest(l) \/ CheckMarker(l) \/ Resume(l) \/ CheckLog(l)
         \/ OpenLog(l) \/ Spawn(l) \/ RaisesOSError(l) \/ RunnerEnded(l)
         \/ CheckOutput(l) \/ WriteFailure(l) \/ Killed(l)
         \/ BeginOutput(l) \/ EndOutput(l) \/ RunnerExits(l) \/ RunnerFails(l)
    BY <1>2 DEF Next
  <2>1. CASE BeginOutput(l)
    \* The runner that wrote the output would be another one.
    BY <2>1 DEF BeginOutput, UnitInv, OutputHasRunner, LaunchedOnce
  <2>2. CASE EndOutput(l)
    BY <2>2 DEF EndOutput
  <2>3. CASE ~BeginOutput(l) /\ ~EndOutput(l)
    BY <2>3 DEF WriteManifest, CheckMarker, Resume, CheckLog, OpenLog, Spawn, RaisesOSError,
                RunnerEnded, CheckOutput, WriteFailure, Killed, RunnerExits, RunnerFails
  <2>. QED BY <2>1, <2>2, <2>3
<1>. QED BY <1>1, <1>2

\* Steps that leave all files and runners alone, or only mark the failure.
LEMMA FilesKept ==
  ASSUME UnitInv, NEW l \in Launchers,
         \/ CheckMarker(l) \/ Resume(l) \/ CheckLog(l) \/ RunnerEnded(l)
         \/ CheckOutput(l) \/ WriteFailure(l) \/ Killed(l) \/ RaisesOSError(l)
  PROVE  UnitInv'
<1>1. Shapes'
  BY DEF UnitInv, Shapes, CheckMarker, Resume, CheckLog, RunnerEnded, CheckOutput, WriteFailure,
         Killed, RaisesOSError
<1>2. RunnerHasLog'
  <2>1. /\ UNCHANGED <<log, runner>> /\ pc = [k \in Launchers |-> pc[k]]
        /\ \E place \in {"resume", "log", "open", "check", "fail", "done"} :
             pc' = [pc EXCEPT ![l] = place]
        /\ pc[l] \in {"wait", "check", "fail", "launch", "done"} =>
             pc'[l] \in {"check", "fail", "done"}
    BY DEF UnitInv, Shapes, CheckMarker, Resume, CheckLog, RunnerEnded, CheckOutput, WriteFailure,
           Killed, RaisesOSError
  <2>. QED BY <2>1 DEF UnitInv, RunnerHasLog
<1>3. LaunchedOnce' /\ OutputHasRunner'
  BY DEF UnitInv, LaunchedOnce, OutputHasRunner, CheckMarker, Resume, CheckLog,
         RunnerEnded, CheckOutput, WriteFailure, Killed, RaisesOSError
<1>4. PastManifest'
  BY DEF UnitInv, Shapes, PastManifest, OneIdentity, CheckMarker, Resume, CheckLog, RunnerEnded,
         CheckOutput, WriteFailure, Killed, RaisesOSError
<1>5. ReportedMeansValid'
  BY DEF UnitInv, Shapes, ReportedMeansValid, CheckMarker, Resume, CheckLog, RunnerEnded,
         CheckOutput, WriteFailure, Killed, RaisesOSError
<1>. QED BY <1>1, <1>2, <1>3, <1>4, <1>5 DEF UnitInv

LEMMA ManifestKept ==
  ASSUME UnitInv, NEW l \in Launchers, WriteManifest(l)
  PROVE  UnitInv'
<1>1. \A k \in Launchers : manifest = Identity[k] => manifest # None
  BY CampaignAssumption
<1>2. Shapes' /\ RunnerHasLog' /\ LaunchedOnce' /\ OutputHasRunner'
  BY DEF UnitInv, Shapes, RunnerHasLog, LaunchedOnce, OutputHasRunner, WriteManifest
<1>3. PastManifest'
  \* The manifest changes only from None, which is nobody's identity.
  <2>1. manifest = None => \A k \in Launchers :
          pc[k] \in {"start", "done"} /\ runner[k] = "absent"
          /\ report[k] \notin {"complete", "skipped", "failed", "error"}
    BY <1>1 DEF UnitInv, PastManifest, OneIdentity
  <2>2. manifest = None => output.kind = "absent"
    BY <2>1 DEF UnitInv, OutputHasRunner
  <2>. QED BY <2>1, <2>2 DEF UnitInv, Shapes, PastManifest, OneIdentity, WriteManifest
<1>4. ReportedMeansValid'
  BY DEF UnitInv, Shapes, ReportedMeansValid, WriteManifest
<1>. QED BY <1>2, <1>3, <1>4 DEF UnitInv

LEMMA LaunchKept ==
  ASSUME UnitInv, NEW l \in Launchers, OpenLog(l) \/ Spawn(l)
  PROVE  UnitInv'
<1>0. l # None
  BY CampaignAssumption
<1>1. Shapes'
  BY DEF UnitInv, Shapes, OpenLog, Spawn
<1>2. RunnerHasLog' /\ LaunchedOnce' /\ OutputHasRunner'
  <2>1. CASE OpenLog(l)
    <3>1. /\ UNCHANGED <<runner, output>> /\ pc = [k \in Launchers |-> pc[k]] /\ pc[l] = "open"
          /\ \/ UNCHANGED log /\ pc' = [pc EXCEPT ![l] = "done"]
             \/ log = None /\ log' = l /\ pc' = [pc EXCEPT ![l] = "launch"]
      BY <2>1 DEF UnitInv, Shapes, OpenLog
    <3>2. RunnerHasLog'
      BY <1>0, <3>1, CampaignAssumption DEF UnitInv, RunnerHasLog
    <3>. QED BY <3>1, <3>2 DEF UnitInv, LaunchedOnce, OutputHasRunner
  <2>2. CASE Spawn(l)
    BY <1>0, <2>2 DEF UnitInv, Shapes, RunnerHasLog, LaunchedOnce, OutputHasRunner, Spawn
  <2>. QED BY <2>1, <2>2
<1>3. PastManifest' /\ ReportedMeansValid'
  BY DEF UnitInv, Shapes, PastManifest, OneIdentity, ReportedMeansValid, OpenLog, Spawn
<1>. QED BY <1>1, <1>2, <1>3 DEF UnitInv

LEMMA RunnerKept ==
  ASSUME UnitInv, NEW l \in Launchers,
         BeginOutput(l) \/ EndOutput(l) \/ RunnerExits(l) \/ RunnerFails(l)
  PROVE  UnitInv'
<1>1. runner[l] # "absent"
  BY DEF BeginOutput, EndOutput, RunnerExits, RunnerFails
<1>2. Shapes'
  BY DEF UnitInv, Shapes, Kinds, BeginOutput, EndOutput, RunnerExits, RunnerFails
<1>3. RunnerHasLog' /\ LaunchedOnce' /\ OutputHasRunner'
  BY <1>1 DEF UnitInv, Shapes, RunnerHasLog, LaunchedOnce, OutputHasRunner, BeginOutput, EndOutput,
         RunnerExits, RunnerFails
<1>4. PastManifest'
  BY <1>1 DEF UnitInv, Shapes, PastManifest, OneIdentity, BeginOutput, EndOutput, RunnerExits,
         RunnerFails
<1>5. ReportedMeansValid'
  <2>1. CASE BeginOutput(l)
    BY <2>1 DEF UnitInv, OutputHasRunner, LaunchedOnce, ReportedMeansValid, BeginOutput
  <2>2. CASE EndOutput(l)
    BY <2>2 DEF UnitInv, ReportedMeansValid, EndOutput
  <2>3. CASE RunnerExits(l) \/ RunnerFails(l)
    BY <2>3 DEF UnitInv, ReportedMeansValid, RunnerExits, RunnerFails
  <2>. QED BY <2>1, <2>2, <2>3
<1>. QED BY <1>2, <1>3, <1>4, <1>5 DEF UnitInv

LEMMA NextUnitInv == UnitInv /\ [Next]_vars => UnitInv'
<1>. SUFFICES ASSUME UnitInv, [Next]_vars PROVE UnitInv'
  OBVIOUS
<1>1. CASE UNCHANGED vars
  BY <1>1 DEF UnitInv, Shapes, RunnerHasLog, LaunchedOnce, OutputHasRunner, PastManifest,
              OneIdentity, ReportedMeansValid
<1>2. CASE Next
  BY <1>2, FilesKept, ManifestKept, LaunchKept, RunnerKept DEF Next
<1>. QED BY <1>1, <1>2

THEOREM CampaignInvariant == Spec => []UnitInv
  BY InitUnitInv, NextUnitInv, PTL DEF Spec

\* For any number of launchers on one root, racing or following each other, a
\* unit's runner is started at most once.
THEOREM RunnerLaunchedOnce == Spec => []LaunchedOnce
<1>1. UnitInv => LaunchedOnce
  BY DEF UnitInv
<1>. QED BY <1>1, CampaignInvariant, PTL

\* What a launcher reported as complete or reusable validates from then on.
THEOREM ReportsAreValid == Spec => []ReportedMeansValid
<1>1. UnitInv => ReportedMeansValid
  BY DEF UnitInv
<1>. QED BY <1>1, CampaignInvariant, PTL

\* Runners, reports and outputs of a root all have the identity of its manifest.
THEOREM RootHasOneIdentity == Spec => []OneIdentity
<1>1. UnitInv => OneIdentity
  BY DEF UnitInv, PastManifest
<1>. QED BY <1>1, CampaignInvariant, PTL

\* "each output is write-once"
THEOREM OutputsAreWriteOnce == Spec => OutputIsWriteOnce
<1>1. UnitInv /\ [Next]_vars => [output.kind \in {"valid", "invalid"} => output' = output]_vars
  BY StepKeepsOutput
<1>. QED BY <1>1, CampaignInvariant, PTL DEF Spec, OutputIsWriteOnce

-------------------------------------------------------------------------------
(* How a unit is settled.                                                   *)

\* Who made the log goes on to a runner and reports what came of it, or dies.
RunnerIsAccountedFor ==
  /\ log # None =>
       /\ pc[log] \in {"launch", "wait", "check", "fail", "done"}
       /\ pc[log] = "done" => report[log] \in {"complete", "failed", "error", "killed"}
  /\ \A l \in Launchers : report[l] = "failed" => failure

LEMMA InitAccounted == Init => TypeOK /\ RunnerIsAccountedFor
<1>. SUFFICES ASSUME Init PROVE TypeOK /\ RunnerIsAccountedFor
  OBVIOUS
<1>1. /\ pc \in [Launchers -> {"start"}] /\ runner \in [Launchers -> {"absent"}]
      /\ \A l \in Launchers : report[l] = "none" /\ pc[l] = "start" /\ runner[l] = "absent"
      /\ output.kind = "absent" /\ output.id = None /\ log = None /\ ~failure /\ manifest = None
  BY DEF Init, Absent
<1>2. TypeOK
  BY <1>1 DEF Init, TypeOK, Absent
<1>. QED BY <1>1, <1>2 DEF RunnerIsAccountedFor

\* A launcher moves, or ends and reports.
LEMMA Moves ==
  ASSUME TypeOK, Shapes, NEW l \in Launchers,
         \/ /\ UNCHANGED report
            /\ \E place \in {"marker", "resume", "log", "open", "launch", "wait", "check", "fail"} :
                 Goto(l, place) /\ pc[l] # "done"
         \/ \E how \in {"refused", "failed", "skipped", "complete", "error", "killed"} : Ends(l, how)
         \/ UNCHANGED <<pc, report>>
  PROVE  /\ pc' \in [Launchers -> {"start", "marker", "resume", "log", "open", "launch", "wait",
                                   "check", "fail", "done"}]
         /\ \A k \in Launchers : report'[k] = "none" <=> pc'[k] # "done"
<1>1. /\ pc \in [Launchers -> {"start", "marker", "resume", "log", "open", "launch", "wait",
                               "check", "fail", "done"}]
      /\ \A k \in Launchers : report[k] = "none" <=> pc[k] # "done"
      /\ report = [k \in Launchers |-> report[k]]
  BY DEF TypeOK, Shapes
<1>2. CASE UNCHANGED report /\ \E place \in {"marker", "resume", "log", "open", "launch", "wait", "check", "fail"} :
                 Goto(l, place) /\ pc[l] # "done"
  BY <1>1, <1>2
<1>3. ASSUME NEW how \in {"refused", "failed", "skipped", "complete", "error", "killed"}, Ends(l, how)
      PROVE  /\ pc' \in [Launchers -> {"start", "marker", "resume", "log", "open", "launch", "wait",
                                       "check", "fail", "done"}]
             /\ \A k \in Launchers : report'[k] = "none" <=> pc'[k] # "done"
  BY <1>1, <1>3
<1>. QED BY <1>1, <1>2, <1>3

\* The variables keep their types.
LEMMA NextTypeOK ==
  ASSUME UnitInv, TypeOK, [Next]_vars
  PROVE  TypeOK'
<1>1. CASE UNCHANGED vars
  BY <1>1 DEF TypeOK
<1>2. ASSUME NEW l \in Launchers,
             \/ WriteManifest(l) \/ CheckMarker(l) \/ Resume(l) \/ CheckLog(l)
             \/ OpenLog(l) \/ Spawn(l) \/ RaisesOSError(l) \/ RunnerEnded(l)
             \/ CheckOutput(l) \/ WriteFailure(l) \/ Killed(l)
      PROVE  TypeOK'
  <2>1. /\ \/ /\ UNCHANGED report
              /\ \E place \in {"marker", "resume", "log", "open", "launch", "wait", "check", "fail"} :
                   Goto(l, place) /\ pc[l] # "done"
           \/ \E how \in {"refused", "failed", "skipped", "complete", "error", "killed"} : Ends(l, how)
        /\ UNCHANGED output
    BY <1>2 DEF WriteManifest, CheckMarker, Resume, CheckLog, OpenLog, Spawn, RaisesOSError,
                RunnerEnded, CheckOutput, WriteFailure, Killed
  <2>2. /\ manifest' \in {manifest, Identity[l]} /\ log' \in {log, l} /\ failure' \in {failure, TRUE}
        /\ runner' = runner \/ runner' = [runner EXCEPT ![l] = "running"]
    BY <1>2 DEF WriteManifest, CheckMarker, Resume, CheckLog, OpenLog, Spawn, RaisesOSError,
                RunnerEnded, CheckOutput, WriteFailure, Killed
  <2>3. /\ pc' \in [Launchers -> {"start", "marker", "resume", "log", "open", "launch", "wait",
                                  "check", "fail", "done"}]
        /\ \A k \in Launchers : report'[k] = "none" <=> pc'[k] # "done"
    BY <1>2, <2>1, Moves DEF UnitInv
  <2>4. runner' \in [Launchers -> {"absent", "running", "writing", "succeeded", "failed"}]
    BY <2>2 DEF TypeOK
  <2>5. /\ manifest' \in {Identity[k] : k \in Launchers} \union {None}
        /\ log' \in Launchers \union {None} /\ failure' \in BOOLEAN
    BY <2>2 DEF TypeOK
  <2>. QED BY <2>1, <2>3, <2>4, <2>5 DEF TypeOK
<1>3. ASSUME NEW l \in Launchers,
             BeginOutput(l) \/ EndOutput(l) \/ RunnerExits(l) \/ RunnerFails(l)
      PROVE  TypeOK'
  BY <1>3, CampaignAssumption DEF TypeOK, BeginOutput, EndOutput, RunnerExits, RunnerFails
<1>. QED BY <1>1, <1>2, <1>3 DEF Next

LEMMA NextAccounted ==
  ASSUME UnitInv, TypeOK, RunnerIsAccountedFor, [Next]_vars
  PROVE  RunnerIsAccountedFor'
<1>0. Shapes /\ runner \in [Launchers -> {"absent", "running", "writing", "succeeded", "failed"}]
  BY DEF UnitInv, TypeOK
<1>1. CASE UNCHANGED vars
  BY <1>1 DEF RunnerIsAccountedFor
<1>2. ASSUME NEW l \in Launchers, WriteManifest(l) \/ CheckMarker(l) \/ Resume(l) \/ CheckLog(l)
      PROVE  RunnerIsAccountedFor'
  BY <1>0, <1>2 DEF RunnerIsAccountedFor, Shapes, WriteManifest, CheckMarker, Resume, CheckLog
<1>3. ASSUME NEW l \in Launchers, OpenLog(l) \/ Spawn(l)
      PROVE  RunnerIsAccountedFor'
  <2>1. l # None
    BY CampaignAssumption
  <2>. QED BY <1>0, <1>3, <2>1 DEF UnitInv, RunnerHasLog, RunnerIsAccountedFor, Shapes, OpenLog, Spawn
<1>4. ASSUME NEW l \in Launchers,
             RunnerEnded(l) \/ CheckOutput(l) \/ WriteFailure(l) \/ Killed(l) \/ RaisesOSError(l)
      PROVE  RunnerIsAccountedFor'
  BY <1>0, <1>4 DEF RunnerIsAccountedFor, Shapes, RunnerEnded, CheckOutput, WriteFailure, Killed,
                       RaisesOSError
<1>5. ASSUME NEW l \in Launchers,
             BeginOutput(l) \/ EndOutput(l) \/ RunnerExits(l) \/ RunnerFails(l)
      PROVE  RunnerIsAccountedFor'
  BY <1>0, <1>5 DEF RunnerIsAccountedFor, BeginOutput, EndOutput, RunnerExits, RunnerFails
<1>. QED BY <1>1, <1>2, <1>3, <1>4, <1>5 DEF Next

\* When nobody works on a unit any more, whose log was opened, it has a valid
\* output or a failure marker, unless the launcher that opened the log was
\* killed or ended by an OSError; and what was reported as complete or reusable
\* validates.
THEOREM UnitsAreHonest == Spec => []UnitIsHonest
<1>1. Init => TypeOK /\ RunnerIsAccountedFor
  BY InitAccounted
<1>2. UnitInv /\ TypeOK /\ RunnerIsAccountedFor /\ [Next]_vars => (TypeOK /\ RunnerIsAccountedFor)'
  BY NextTypeOK, NextAccounted
<1>3. ASSUME UnitInv, TypeOK, RunnerIsAccountedFor
      PROVE  UnitIsHonest
  <2>1. UnsettledOnlyByDeath
    <3>. SUFFICES ASSUME log # None, log \in Launchers, pc[log] \in {"start", "done"}
                  PROVE  output.kind = "valid" \/ failure \/ report[log] \in {"killed", "error"}
      BY <1>3 DEF UnsettledOnlyByDeath, UnitInv, Shapes
    <3>. QED BY <1>3 DEF RunnerIsAccountedFor, UnitInv, ReportedMeansValid
  <2>. QED BY <1>3, <2>1 DEF UnitIsHonest, UnitInv
<1>. QED BY <1>1, <1>2, <1>3, CampaignInvariant, PTL DEF Spec

-------------------------------------------------------------------------------
(* Many units.                                                              *)

Outputs == {Missing, Torn} \union {Whole(e) : e \in Experiments}

\* The variables have the shapes the proofs use.
Shape ==
  /\ campaign \in Campaigns
  /\ outputs \in [Units -> Outputs]
  /\ spoilt \subseteq Units /\ spoilt \subseteq trace
  /\ clean # Missing => clean.asked \subseteq Units
  /\ launch # Idle =>
       /\ launch.style # "idle"
       /\ launch = [style |-> launch.style, exp |-> launch.exp, left |-> launch.left,
                    running |-> launch.running, asked |-> launch.asked, ok |-> launch.ok]
       /\ launch.exp \in Experiments
       /\ launch.left \subseteq Units /\ launch.running \subseteq Units
       /\ launch.asked \subseteq Units
       /\ launch.ok \in BOOLEAN

\* A runner owns its trace directory, and has written nothing yet.
RunnersOwn ==
  launch # Idle =>
    \A u \in launch.running : u \in trace /\ u \notin spoilt /\ ~IsWhole(u)

\* What failed once has no whole output.
SpoiltStays == \A u \in spoilt : ~IsWhole(u)

\* What a launch without a failure has left behind it is whole.
DoneIsWhole ==
  launch # Idle /\ launch.ok /\ launch.style # "parallel" =>
    \A u \in launch.asked : u \in launch.left \/ u \in launch.running \/ IsWhole(u)

CleanIsWhole ==
  clean # Missing /\ clean.style # "parallel" => \A u \in clean.asked : IsWhole(u)

\* A summary is the last thing that happens.
ReportIsLast == summary # Missing => launch = Idle /\ spoilt = {}

PanelInv ==
  /\ Shape
  /\ RunnersOwn
  /\ SpoiltStays
  /\ DoneIsWhole
  /\ CleanIsWhole
  /\ ReportIsLast
  /\ ReportQuotesItsInputs
  /\ PanelIsCrossfitted

\* What is said of a report is said of nothing else.
LEMMA ReportKept ==
  ASSUME UNCHANGED <<campaign, summary>>
  PROVE  /\ ReportQuotesItsInputs => ReportQuotesItsInputs'
         /\ PanelIsCrossfitted => PanelIsCrossfitted'
  BY DEF ReportQuotesItsInputs, PanelIsCrossfitted, Quoted, Pooled, Query, Fit, Eligible, Agree, Units

LEMMA KindsOfOutput ==
  /\ Missing.is = "none" /\ Torn.is = "torn"
  /\ \A e : Whole(e).is = "whole" /\ Whole(e).exp = e
  BY DEF Missing, Torn, Whole

LEMMA InitPanelInv == PanelsInit => PanelInv
<1> SUFFICES ASSUME PanelsInit
             PROVE  PanelInv
  OBVIOUS
<1>1. Shape
  BY DEF PanelsInit, Shape, Outputs
<1> QED
  BY <1>1 DEF PanelsInit, PanelInv, RunnersOwn, SpoiltStays, DoneIsWhole, CleanIsWhole, ReportIsLast,
     ReportQuotesItsInputs, PanelIsCrossfitted

-------------------------------------------------------------------------------
(* Launches and units. *)

LEMMA BeginIInv ==
  ASSUME PanelInv, NEW style, style # "idle", NEW e \in Experiments, NEW asked, Begin(style, e, asked)
  PROVE  PanelInv'
<1>1. /\ summary = Missing
      /\ launch' = [style |-> style, exp |-> e, left |-> asked, running |-> {},
                    asked |-> asked, ok |-> TRUE]
      /\ UNCHANGED <<campaign, outputs, trace, marker, faults, spoilt, clean, summary>>
  BY DEF Begin
<1>2. asked \subseteq Units
  BY DEF Begin, Selectable, Units
<1>3. Shape'
  BY <1>1, <1>2 DEF PanelInv, Shape, Units
<1>4. RunnersOwn' /\ DoneIsWhole' /\ ReportIsLast'
  BY <1>1 DEF RunnersOwn, DoneIsWhole, ReportIsLast
<1>5. SpoiltStays' /\ CleanIsWhole'
  BY <1>1 DEF PanelInv, SpoiltStays, CleanIsWhole, IsWhole
<1> QED
  BY <1>1, <1>3, <1>4, <1>5, ReportKept DEF PanelInv

\* A unit leaves the launch: with a whole output if it counts as a success.
LEMMA SettledIInv ==
  ASSUME PanelInv, launch # Idle, NEW u \in Units, NEW ok \in BOOLEAN, Settled(u, ok), Unchanged,
         UNCHANGED trace,
         outputs' \in [Units -> Outputs],
         \A v \in Units : v # u => outputs'[v] = outputs[v],
         IsWhole(u) => IsWhole(u)',
         ok /\ launch.style # "parallel" => IsWhole(u)',
         spoilt' = spoilt \/ (u \in trace /\ ~IsWhole(u)' /\ spoilt' = spoilt \union {u}),
         u \in spoilt => ~IsWhole(u)'
  PROVE  PanelInv'
<1>1. /\ launch' = [launch EXCEPT !.left = launch.left \ {u}, !.running = launch.running \ {u},
                                  !.ok = launch.ok /\ ok]
      /\ UNCHANGED <<campaign, clean, summary>>
  BY DEF Settled, Unchanged
<1>2. /\ launch' = [style |-> launch.style, exp |-> launch.exp, left |-> launch.left \ {u},
                    running |-> launch.running \ {u}, asked |-> launch.asked,
                    ok |-> launch.ok /\ ok]
  BY <1>1 DEF PanelInv, Shape
<1>3. /\ launch'.style = launch.style /\ launch'.exp = launch.exp
      /\ launch'.left = launch.left \ {u} /\ launch'.running = launch.running \ {u}
      /\ launch'.asked = launch.asked
      /\ launch'.ok = (launch.ok /\ ok)
  BY <1>2
<1>4. Units' = Units /\ \A v \in Units : v # u => (IsWhole(v)' <=> IsWhole(v))
  BY <1>1 DEF Units, IsWhole
<1>5. Shape'
  BY <1>1, <1>2, <1>3, <1>4 DEF PanelInv, Shape
<1>6. launch.running \subseteq Units /\ launch.asked \subseteq Units
  BY DEF PanelInv, Shape
<1>7. RunnersOwn'
  BY <1>3, <1>4, <1>6 DEF PanelInv, RunnersOwn
<1>8. SpoiltStays'
  BY <1>4 DEF PanelInv, SpoiltStays, Shape
<1>9. DoneIsWhole'
  BY <1>3, <1>4, <1>6 DEF PanelInv, DoneIsWhole
<1>10. CleanIsWhole'
  BY <1>1, <1>4 DEF PanelInv, CleanIsWhole, Shape
<1>11. ReportIsLast'
  BY <1>1 DEF PanelInv, ReportIsLast
<1> QED
  BY <1>1, <1>5, <1>7, <1>8, <1>9, <1>10, <1>11, ReportKept DEF PanelInv

\* The steps of a unit that start no runner and end none.
LEMMA KeptIInv ==
  ASSUME PanelInv, NEW u \in Units, ResumeUnit(u) \/ RefuseOutput(u) \/ StopAtMarker(u) \/ RunnerRefuses(u)
  PROVE  PanelInv'
<1>1. /\ launch # Idle /\ UNCHANGED <<outputs, trace, spoilt>> /\ Unchanged
  BY DEF ResumeUnit, RefuseOutput, StopAtMarker, RunnerRefuses, Startable, CanTake
<1>2. PICK ok \in BOOLEAN : Settled(u, ok) /\ (ok /\ launch.style # "parallel" => IsWhole(u))
  <2>1. CASE ResumeUnit(u)
    BY <2>1 DEF ResumeUnit
  <2>2. CASE RefuseOutput(u) \/ RunnerRefuses(u)
    BY <2>2 DEF RefuseOutput, RunnerRefuses
  <2>3. CASE StopAtMarker(u)
    <3>1. Settled(u, launch.style = "parallel")
      BY <2>3 DEF StopAtMarker
    <3>2. CASE launch.style = "parallel"
      <4>1. Settled(u, TRUE)
        BY <3>1, <3>2 DEF Settled
      <4> QED
        BY <3>2, <4>1
    <3>3. CASE launch.style # "parallel"
      <4>1. Settled(u, FALSE)
        BY <3>1, <3>3 DEF Settled
      <4> QED
        BY <4>1
    <3> QED
      BY <3>2, <3>3
  <2> QED
    BY <2>1, <2>2, <2>3
<1>3. IsWhole(u)' <=> IsWhole(u)
  BY <1>1 DEF IsWhole
<1>4. outputs' \in [Units -> Outputs] /\ \A v \in Units : outputs'[v] = outputs[v]
  BY <1>1 DEF PanelInv, Shape
<1>5. u \in spoilt => ~IsWhole(u)
  BY DEF PanelInv, SpoiltStays
<1> QED
  BY <1>1, <1>2, <1>3, <1>4, <1>5, SettledIInv

LEMMA StartRunnerIInv ==
  ASSUME PanelInv, NEW u \in Units, StartRunner(u)
  PROVE  PanelInv'
<1>1. /\ launch # Idle /\ u \in launch.left /\ outputs[u] = Missing /\ u \notin trace
      /\ trace' = trace \union {u}
      /\ launch' = [launch EXCEPT !.left = launch.left \ {u}, !.running = launch.running \union {u}]
      /\ UNCHANGED <<outputs, spoilt, campaign, clean, summary>>
  BY DEF StartRunner, Startable, CanTake, RefusesTrace, Unchanged
<1>2. launch' = [style |-> launch.style, exp |-> launch.exp, left |-> launch.left \ {u},
                 running |-> launch.running \union {u}, asked |-> launch.asked, ok |-> launch.ok]
  BY <1>1 DEF PanelInv, Shape
<1>3. /\ launch'.style = launch.style /\ launch'.exp = launch.exp
      /\ launch'.left = launch.left \ {u} /\ launch'.running = launch.running \union {u}
      /\ launch'.asked = launch.asked /\ launch'.ok = launch.ok
  BY <1>2
<1>4. Units' = Units /\ \A v : IsWhole(v)' <=> IsWhole(v)
  BY <1>1 DEF Units, IsWhole
<1>5. Shape'
  BY <1>1, <1>2, <1>3, <1>4 DEF PanelInv, Shape
<1>6. RunnersOwn'
  <2>1. u \notin spoilt /\ ~IsWhole(u)
    BY <1>1, KindsOfOutput DEF PanelInv, Shape, IsWhole
  <2> QED
    BY <1>1, <1>3, <1>4, <2>1 DEF PanelInv, RunnersOwn
<1>7. SpoiltStays' /\ CleanIsWhole'
  BY <1>1, <1>4 DEF PanelInv, SpoiltStays, CleanIsWhole
<1>8. DoneIsWhole'
  BY <1>1, <1>3, <1>4 DEF PanelInv, DoneIsWhole
<1>9. ReportIsLast'
  BY <1>1 DEF PanelInv, ReportIsLast
<1> QED
  BY <1>1, <1>5, <1>6, <1>7, <1>8, <1>9, ReportKept DEF PanelInv

LEMMA RunnerCompletesIInv ==
  ASSUME PanelInv, NEW u \in Units, RunnerCompletes(u)
  PROVE  PanelInv'
<1>1. /\ launch # Idle /\ u \in launch.running
      /\ outputs' = [outputs EXCEPT ![u] = Whole(launch.exp)]
      /\ Settled(u, TRUE) /\ UNCHANGED <<trace, spoilt>> /\ Unchanged
  BY DEF RunnerCompletes
<1>2. outputs' \in [Units -> Outputs] /\ \A v \in Units : v # u => outputs'[v] = outputs[v]
  BY <1>1 DEF PanelInv, Shape, Outputs
<1>3. IsWhole(u)'
  BY <1>1, KindsOfOutput DEF PanelInv, Shape, IsWhole
<1>4. u \notin spoilt
  BY <1>1 DEF PanelInv, RunnersOwn
<1> QED
  BY <1>1, <1>2, <1>3, <1>4, SettledIInv

LEMMA RunnerFailsIInv ==
  ASSUME PanelInv, NEW u \in Units, UnitFails(u)
  PROVE  PanelInv'
<1>1. /\ launch # Idle /\ u \in launch.running
      /\ Settled(u, FALSE) /\ UNCHANGED trace /\ Unchanged
      /\ spoilt' = spoilt \union {u}
  BY DEF UnitFails
<1>2. PICK left \in {Missing, Torn} : outputs' = [outputs EXCEPT ![u] = left]
  BY DEF UnitFails
<1>3. outputs' \in [Units -> Outputs] /\ \A v \in Units : v # u => outputs'[v] = outputs[v]
  BY <1>2 DEF PanelInv, Shape, Outputs
<1>4. ~IsWhole(u)'
  BY <1>2, KindsOfOutput DEF PanelInv, Shape, IsWhole
<1>5. u \in trace /\ ~IsWhole(u)
  BY <1>1 DEF PanelInv, RunnersOwn
<1> QED
  BY <1>1, <1>3, <1>4, <1>5, SettledIInv

LEMMA KillIInv ==
  ASSUME PanelInv, Kill
  PROVE  PanelInv'
<1>1. /\ launch # Idle /\ launch' = Idle
      /\ spoilt' = spoilt \union launch.running
      /\ UNCHANGED <<trace, campaign, clean, summary>>
  BY DEF Kill, Unchanged
<1>2. PICK torn \in SUBSET launch.running :
        outputs' = [u \in Units |-> IF u \in torn THEN Torn ELSE outputs[u]]
  BY DEF Kill
<1>3. launch.running \subseteq Units /\ Units' = Units
  BY <1>1 DEF PanelInv, Shape, Units
<1>4. \A u \in Units : IsWhole(u)' <=> IsWhole(u)
  <2> TAKE u \in Units
  <2>1. CASE u \in torn
    <3>1. ~IsWhole(u)
      BY <1>1, <1>2, <2>1 DEF PanelInv, RunnersOwn
    <3>2. outputs'[u] = Torn
      BY <1>2, <2>1
    <3> QED
      BY <3>1, <3>2, KindsOfOutput DEF IsWhole
  <2>2. CASE u \notin torn
    BY <1>2, <2>2 DEF IsWhole
  <2> QED
    BY <2>1, <2>2
<1>5. Shape'
  <2>1. outputs' \in [Units -> Outputs]
    BY <1>2 DEF PanelInv, Shape, Outputs
  <2>2. launch.running \subseteq trace
    BY <1>1 DEF PanelInv, RunnersOwn
  <2> QED
    BY <1>1, <1>3, <2>1, <2>2 DEF PanelInv, Shape
<1>6. RunnersOwn' /\ DoneIsWhole'
  BY <1>1 DEF RunnersOwn, DoneIsWhole
<1>7. SpoiltStays'
  BY <1>1, <1>3, <1>4 DEF PanelInv, SpoiltStays, RunnersOwn, Shape
<1>8. CleanIsWhole'
  BY <1>1, <1>4 DEF PanelInv, CleanIsWhole, Shape
<1>9. ReportIsLast'
  BY <1>1 DEF PanelInv, ReportIsLast
<1> QED
  BY <1>1, <1>5, <1>6, <1>7, <1>8, <1>9, ReportKept DEF PanelInv

LEMMA FinishIInv ==
  ASSUME PanelInv, Finish
  PROVE  PanelInv'
<1>1. /\ launch # Idle /\ launch.running = {} /\ launch' = Idle
      /\ launch.ok => launch.left = {}
      /\ clean' = (IF launch.ok THEN launch ELSE clean)
      /\ UNCHANGED <<campaign, outputs, trace, spoilt, summary>>
  BY DEF Finish
<1>2. Units' = Units /\ \A v : IsWhole(v)' <=> IsWhole(v)
  BY <1>1 DEF Units, IsWhole
<1>3. Shape'
  BY <1>1, <1>2 DEF PanelInv, Shape
<1>4. RunnersOwn' /\ DoneIsWhole'
  BY <1>1 DEF RunnersOwn, DoneIsWhole
<1>5. SpoiltStays'
  BY <1>1, <1>2 DEF PanelInv, SpoiltStays
<1>6. CleanIsWhole'
  <2>1. CASE launch.ok
    BY <1>1, <1>2, <2>1 DEF PanelInv, DoneIsWhole, CleanIsWhole
  <2>2. CASE ~launch.ok
    BY <1>1, <1>2, <2>2 DEF PanelInv, CleanIsWhole
  <2> QED
    BY <2>1, <2>2
<1>7. ReportIsLast'
  BY <1>1 DEF PanelInv, ReportIsLast
<1> QED
  BY <1>1, <1>3, <1>4, <1>5, <1>6, <1>7, ReportKept DEF PanelInv

-------------------------------------------------------------------------------
(* The summaries. *)

\* What PanelIsCrossfitted says of a report, of the outputs themselves.
Disjoint ==
  \A u, v \in Units : u[2] = v[2] /\ u # v => Query(By(u), u) \intersect Query(By(v), v) = {}
FittedOnTheRest ==
  \A u, v \in Units : u[2] = v[2] /\ u # v => Query(By(v), v) \subseteq Fit(By(u), u)

LEMMA SummaryIInv ==
  ASSUME PanelInv, NEW kind, kind # "none", NEW quoted, NEW fields, Summary(kind, quoted, fields),
         WholeOutputs, Disjoint,
         kind \in {"curve", "isolation", "panel", "convergence"} =>
           \A u \in Units : Agree(By(u), quoted, fields),
         kind \in {"curve", "panel", "convergence"} => FittedOnTheRest
  PROVE  PanelInv'
<1>1. /\ launch = Idle
      /\ summary' = [is |-> kind, pooled |-> outputs, quoted |-> quoted, fields |-> fields]
      /\ UNCHANGED <<campaign, outputs, trace, marker, identity, launch, launches, faults, spoilt, clean>>
  BY DEF Summary
<1>2. Units' = Units
  BY <1>1 DEF Units
<1>3. Shape' /\ RunnersOwn' /\ SpoiltStays' /\ DoneIsWhole' /\ CleanIsWhole'
  BY <1>1, <1>2 DEF PanelInv, Shape, RunnersOwn, SpoiltStays, DoneIsWhole, CleanIsWhole, IsWhole
<1>4. ReportIsLast'
  <2>1. spoilt = {}
    BY DEF PanelInv, Shape, SpoiltStays, WholeOutputs
  <2> QED
    BY <1>1, <2>1 DEF ReportIsLast
<1>5. /\ summary'.is = kind /\ summary'.quoted = quoted /\ summary'.fields = fields
      /\ summary'.pooled = outputs
  BY <1>1
<1>6. \A u \in Units : Pooled(u)' = By(u)
  BY <1>5 DEF Pooled, By
<1>7. ReportQuotesItsInputs'
  BY <1>2, <1>5, <1>6 DEF ReportQuotesItsInputs, Quoted, Agree
<1>8. PanelIsCrossfitted'
  <2> SUFFICES ASSUME NEW u \in Units, NEW v \in Units, u[2] = v[2], u # v
               PROVE  /\ Query(Pooled(u)', u) \intersect Query(Pooled(v)', v) = {}
                      /\ kind \in {"curve", "panel", "convergence"} =>
                           Query(Pooled(v)', v) \subseteq Fit(Pooled(u)', u)
    BY <1>2, <1>5 DEF PanelIsCrossfitted, Query, Fit, Eligible
  <2> QED
    BY <1>6 DEF Disjoint, FittedOnTheRest
<1> QED
  BY <1>3, <1>4, <1>7, <1>8 DEF PanelInv

LEMMA UnitIsFoldAndColumn ==
  ASSUME NEW u \in Units
  PROVE  /\ u[1] \in Folds /\ u[2] \in Columns[campaign]
         /\ u \in Column(u[2])
         /\ \A v \in Units : u[2] = v[2] /\ u # v => v \in Column(u[2]) /\ u[1] # v[1]
  BY DEF Units, Column

\* A column whose queries are disjoint.
LEMMA ColumnsAreDisjoint ==
  ASSUME \A c \in Columns[campaign] : OncePerColumn(c)
  PROVE  Disjoint
  BY UnitIsFoldAndColumn DEF Disjoint, OncePerColumn

\* Units of one manifest are fitted on what the others query.
LEMMA OneManifestIsCrossfitted ==
  ASSUME Disjoint, \A u, v \in Units : By(u)["crossfit"] = By(v)["crossfit"]
  PROVE  FittedOnTheRest
<1> SUFFICES ASSUME NEW u \in Units, NEW v \in Units, u[2] = v[2], u # v
             PROVE  Query(By(v), v) \subseteq Fit(By(u), u)
  BY DEF FittedOnTheRest
<1>1. Query(By(u), u) \intersect Query(By(v), v) = {}
  BY DEF Disjoint
<1>2. Query(By(v), v) \subseteq Eligible(By(u))
  BY UnitIsFoldAndColumn DEF Query, Eligible
<1> QED
  BY <1>1, <1>2 DEF Fit

\* A set of values that Cardinality finds to be one.
LEMMA UniformAgree ==
  ASSUME campaign \in Campaigns, campaign # "e52", NEW fields, Uniform(fields),
         NEW k \in fields, NEW u \in Units, NEW v \in Units
  PROVE  By(u)[k] = By(v)[k]
<1> DEFINE f == [w \in Units |-> IF k = "task" THEN TaskOf(By(w), w) ELSE By(w)[k]]
<1>1. IsFiniteSet(Units)
  <2>1. campaign \in DOMAIN Columns
    BY PanelsAssumption DEF Campaigns, LaunchStyles
  <2> QED
    BY <2>1, FS_Product, PanelsAssumption DEF Units
<1>2. f \in Surjection(Units, AllOf(k))
  BY DEF Surjection, AllOf
<1>3. IsFiniteSet(AllOf(k))
  BY <1>1, <1>2, FS_Surjection
<1>4. PICK x : AllOf(k) = {x}
  BY <1>3, FS_Singleton DEF Uniform
<1>5. f[u] = f[v]
  BY <1>4 DEF AllOf
<1>6. CASE k = "task"
  BY <1>5, <1>6 DEF TaskOf
<1>7. CASE k # "task"
  BY <1>5, <1>7
<1> QED
  BY <1>6, <1>7

\* The output a report quotes is one of those it pools.
LEMMA AnyoneAgrees ==
  ASSUME campaign \in Campaigns, campaign # "e52", NEW fields, Uniform(fields)
  PROVE  \A u \in Units : Agree(By(u), Anyone, fields)
<1> SUFFICES ASSUME NEW u \in Units, NEW k \in fields
             PROVE  By(u)[k] = Anyone[k]
  BY DEF Agree
<1>1. (CHOOSE w \in Units : TRUE) \in Units
  OBVIOUS
<1> QED
  BY <1>1, UniformAgree DEF Anyone

LEMMA E32IInv ==
  ASSUME PanelInv, SummarizeE32 \/ SummarizeHull \/ SummarizePrefixes
  PROVE  PanelInv'
<1>1. WholeOutputs /\ \A c \in Columns[campaign] : OncePerColumn(c)
  BY DEF SummarizeE32, SummarizeHull, SummarizePrefixes, E32Accepts, HullAccepts, PrefixAccepts
<1>2. Disjoint
  BY <1>1, ColumnsAreDisjoint
<1>3. CASE SummarizeE32
  BY <1>1, <1>2, <1>3, SummaryIInv DEF SummarizeE32
<1>4. CASE SummarizeHull
  BY <1>1, <1>2, <1>4, SummaryIInv DEF SummarizeHull
<1>5. CASE SummarizePrefixes
  BY <1>1, <1>2, <1>5, SummaryIInv DEF SummarizePrefixes
<1> QED
  BY <1>3, <1>4, <1>5

\* Every output of the curve is of the experiment of the identity file.
LEMMA CurveIInv ==
  ASSUME PanelInv, SummarizeCurve
  PROVE  PanelInv'
<1>1. /\ CurveAccepts /\ Summary("curve", identity["suite"].exp, Compared)
  BY DEF SummarizeCurve
<1>2. WholeOutputs /\ Disjoint
  BY <1>1, ColumnsAreDisjoint DEF CurveAccepts, CurveLoads, WholeOutputs
<1>3. \A u \in Units : Agree(By(u), identity["suite"].exp, Compared)
  BY <1>1 DEF CurveAccepts, CurveLoads
<1>4. "crossfit" \in Compared
  BY DEF Compared, Fields
<1>5. \A u, v \in Units : By(u)["crossfit"] = By(v)["crossfit"]
  BY <1>3, <1>4 DEF Agree
<1> QED
  BY <1>1, <1>2, <1>3, <1>5, OneManifestIsCrossfitted, SummaryIInv

LEMMA IsolationIInv ==
  ASSUME PanelInv, SummarizeIsolation
  PROVE  PanelInv'
<1>1. /\ campaign = "e53" /\ IsolationAccepts
      /\ Summary("isolation", Anyone, {"task", "vault"})
  BY DEF SummarizeIsolation
<1>2. WholeOutputs /\ Disjoint
  BY <1>1, ColumnsAreDisjoint DEF IsolationAccepts
<1>3. \A u \in Units : Agree(By(u), Anyone, {"task", "vault"})
  BY <1>1, AnyoneAgrees DEF IsolationAccepts, PanelInv, Shape
<1> QED
  BY <1>1, <1>2, <1>3, SummaryIInv

LEMMA PanelIInv ==
  ASSUME PanelInv, SummarizePanel
  PROVE  PanelInv'
<1>1. /\ campaign = "e54" /\ PanelAccepts
      /\ Summary("panel", Anyone, {"task", "vault", "crossfit"})
  BY DEF SummarizePanel
<1>2. WholeOutputs /\ Disjoint
  BY <1>1, ColumnsAreDisjoint DEF PanelAccepts
<1>3. campaign \in Campaigns /\ Uniform({"task", "vault", "crossfit"})
  BY <1>1 DEF PanelAccepts, PanelLoads, PanelInv, Shape
<1>4. \A u \in Units : Agree(By(u), Anyone, {"task", "vault", "crossfit"})
  BY <1>1, <1>3, AnyoneAgrees
<1>5. \A u, v \in Units : By(u)["crossfit"] = By(v)["crossfit"]
  BY <1>1, <1>3, UniformAgree
<1> QED
  BY <1>1, <1>2, <1>4, <1>5, OneManifestIsCrossfitted, SummaryIInv

\* Every output is of the experiment of the manifest, whose folds are audited.
LEMMA ConvergenceIInv ==
  ASSUME PanelInv, SummarizeConvergence
  PROVE  PanelInv'
<1> DEFINE e == identity["e55"].exp
<1>1. /\ SourcesAudited(e) /\ \A u \in Units : UnitValidated(e, u)
      /\ Summary("convergence", e, Compared)
  BY DEF SummarizeConvergence, ConvergenceAccepts
<1>2. \A u \in Units : IsWhole(u) /\ Agree(By(u), e, Compared) /\ Query(By(u), u) = Query(e, u)
  BY <1>1 DEF UnitValidated
<1>3. Disjoint
  BY <1>1, <1>2, UnitIsFoldAndColumn DEF Disjoint, SourcesAudited, Query
<1>4. "crossfit" \in Compared
  BY DEF Compared, Fields
<1>5. \A u, v \in Units : By(u)["crossfit"] = By(v)["crossfit"]
  BY <1>2, <1>4 DEF Agree
<1>6. WholeOutputs
  BY <1>2 DEF WholeOutputs
<1> HIDE DEF e
<1> QED
  BY <1>1, <1>2, <1>3, <1>5, <1>6, OneManifestIsCrossfitted, SummaryIInv

-------------------------------------------------------------------------------
LEMMA NextPanelInv ==
  ASSUME PanelInv, [PanelsNext]_panelVars
  PROVE  PanelInv'
<1>1. CASE BeginLaunch
  <2>1. PICK style \in {"suite", "parallel", "hull", "e52", "e53", "e54", "e55"}, e \in Experiments :
          \E asked : Begin(style, e, asked)
    BY <1>1 DEF BeginLaunch, LaunchSuite, LaunchParallel, LaunchHull, LaunchE52, LaunchE53, LaunchE54,
       LaunchE55
  <2> QED
    BY <2>1, BeginIInv
<1>2. ASSUME NEW u \in Units, Unit(u)
      PROVE  PanelInv'
  BY <1>2, KeptIInv, StartRunnerIInv, RunnerCompletesIInv, RunnerFailsIInv DEF Unit
<1>3. CASE Summarize
  BY <1>3, E32IInv, CurveIInv, IsolationIInv, PanelIInv, ConvergenceIInv DEF Summarize
<1>4. CASE UNCHANGED panelVars
  <2>1. Units' = Units /\ UNCHANGED <<campaign, outputs, trace, launch, spoilt, clean, summary>>
    BY <1>4 DEF panelVars, Units
  <2> QED
    BY <2>1, ReportKept DEF PanelInv, Shape, RunnersOwn, SpoiltStays, DoneIsWhole, CleanIsWhole,
       ReportIsLast, IsWhole
<1> QED
  BY <1>1, <1>2, <1>3, <1>4, KillIInv, FinishIInv DEF PanelsNext

\* The invariant holds of every campaign.
THEOREM PanelsInvariant == PanelsSpec => []PanelInv
<1>1. PanelsInit => PanelInv
  BY InitPanelInv
<1>2. PanelInv /\ [PanelsNext]_panelVars => PanelInv'
  BY NextPanelInv
<1> QED
  BY <1>1, <1>2, PTL DEF PanelsSpec

\* The reports that quote the inputs of their outputs quote them rightly, though
\* launchers keep outputs they did not make and overwrite identity files.
THEOREM ReportsQuoteTheirInputs == PanelsSpec => []ReportQuotesItsInputs
<1>1. PanelInv => ReportQuotesItsInputs
  BY DEF PanelInv
<1> QED
  BY <1>1, PanelsInvariant, PTL

\* No report pools two queries of a system in a column, and those that check the
\* cross-fit pool no model that was fitted on what it was asked.
THEOREM PanelsAreCrossfitted == PanelsSpec => []PanelIsCrossfitted
<1>1. PanelInv => PanelIsCrossfitted
  BY DEF PanelInv
<1> QED
  BY <1>1, PanelsInvariant, PTL

\* No report holds a unit that ever failed, and a launch that ended without a
\* failure left every output it was asked for, for good.
THEOREM OutcomesStayHonest == PanelsSpec => []OutcomesAreHonest
<1>1. PanelInv => OutcomesAreHonest
  BY DEF PanelInv, ReportIsLast, CleanIsWhole, OutcomesAreHonest
<1> QED
  BY <1>1, PanelsInvariant, PTL

===============================================================================

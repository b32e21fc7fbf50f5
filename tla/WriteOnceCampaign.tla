--------------------------- MODULE WriteOnceCampaign ---------------------------
(***************************************************************************)
(* The launcher of run_matpes_e55_convergence.py and one unit of its       *)
(* campaign: the files of the unit, the launchers that work through the    *)
(* root at the same time or one after the other, and the runner process    *)
(* each may start.  Units share no file, so one stands for all of them.    *)
(*                                                                         *)
(* A launcher may be killed at any point, or end by an OSError; the runner *)
(* a killed one started goes on without it.  A runner may fail at any point, also while it writes its   *)
(* output, which it does in place.                                         *)
(***************************************************************************)
CONSTANTS
  Launchers,    \* launcher processes, each of which takes up the unit once
  Identity,     \* identity of the units each of them builds
  None          \* no identity, no launcher

ASSUME CampaignAssumption ==
  None \notin Launchers \union {Identity[l] : l \in Launchers}

VARIABLES
  manifest,  \* identity in the top level manifest
  log,       \* the launcher that created the log of the unit
  output,    \* [kind: absent, partial, valid or invalid; id: of its runner]
  failure,   \* the failure marker exists
  pc,        \* where each launcher is
  report,    \* how it ended: none, complete, skipped, failed, refused, error, killed
  runner     \* its runner: absent, running, writing, succeeded or failed

files == <<manifest, log, output, failure>>
vars == <<files, pc, report, runner>>

Absent == [kind |-> "absent", id |-> None]

Init ==
  /\ manifest = None /\ log = None /\ output = Absent /\ failure = FALSE
  /\ pc = [l \in Launchers |-> "start"]
  /\ report = [l \in Launchers |-> "none"]
  /\ runner = [l \in Launchers |-> "absent"]

At(l, place) == pc[l] = place
Goto(l, place) == pc' = [pc EXCEPT ![l] = place]

\* A return or an error of _run_unit or of the manifest check.
Ends(l, how) ==
  /\ pc' = [pc EXCEPT ![l] = "done"]
  /\ report' = [report EXCEPT ![l] = how]

\* _validate_existing accepts the output for the unit of launcher l.
Validates(l) == output.kind = "valid" /\ output.id = Identity[l]

-------------------------------------------------------------------------------
(* The launcher.                                                            *)

\* Faulty variant: the manifest is written over.
WriteManifestOver(l) ==
  /\ At(l, "start")
  /\ manifest' = Identity[l]
  /\ Goto(l, "marker")
  /\ UNCHANGED <<log, output, failure, report, runner>>

\* _write_top_level_manifest: created once, or exactly the same.
WriteManifest(l) ==
  /\ At(l, "start")
  /\ manifest' = (IF manifest = None THEN Identity[l] ELSE manifest)
  /\ IF manifest \in {None, Identity[l]}
     THEN Goto(l, "marker") /\ UNCHANGED report
     ELSE Ends(l, "refused")
  /\ UNCHANGED <<log, output, failure, runner>>

\* A unit with a failure marker is not taken up again.
CheckMarker(l) ==
  /\ At(l, "marker")
  /\ IF failure THEN Ends(l, "failed") ELSE Goto(l, "resume") /\ UNCHANGED report
  /\ UNCHANGED <<files, runner>>

\* Faulty variant: an output that is there is not looked into.
ResumeUnread(l) ==
  /\ At(l, "resume")
  /\ IF output.kind = "absent" THEN Goto(l, "log") /\ UNCHANGED report ELSE Ends(l, "skipped")
  /\ UNCHANGED <<files, runner>>

\* An output that is there is validated and reused, or its unit fails.
Resume(l) ==
  /\ At(l, "resume")
  /\ IF output.kind = "absent" THEN Goto(l, "log") /\ UNCHANGED report
     ELSE IF Validates(l) THEN Ends(l, "skipped")
     ELSE Goto(l, "fail") /\ UNCHANGED report
  /\ UNCHANGED <<files, runner>>

CheckLog(l) ==
  /\ At(l, "log")
  /\ IF log # None THEN Ends(l, "refused") ELSE Goto(l, "open") /\ UNCHANGED report
  /\ UNCHANGED <<files, runner>>

\* Faulty variant: the log is opened with mode "a".
OpenLogAppending(l) ==
  /\ At(l, "open")
  /\ log' = l
  /\ Goto(l, "launch")
  /\ UNCHANGED <<manifest, output, failure, report, runner>>

\* The log is opened with mode "x".
OpenLog(l) ==
  /\ At(l, "open")
  /\ IF log # None
     THEN Ends(l, "refused") /\ UNCHANGED log
     ELSE log' = l /\ Goto(l, "launch") /\ UNCHANGED report
  /\ UNCHANGED <<manifest, output, failure, runner>>

\* subprocess.run starts the runner and waits for it.
Spawn(l) ==
  /\ At(l, "launch")
  /\ runner' = [runner EXCEPT ![l] = "running"]
  /\ Goto(l, "wait")
  /\ UNCHANGED <<files, report>>

\* The directory or the log cannot be made, the runner not be started, or the
\* marker not be written: an OSError leaves _run_unit, which marks nothing then.
RaisesOSError(l) ==
  /\ pc[l] \in {"open", "launch", "fail"}
  /\ Ends(l, "error")
  /\ UNCHANGED <<files, runner>>

RunnerEnded(l) ==
  /\ At(l, "wait")
  /\ \/ runner[l] = "failed" /\ Goto(l, "fail")
     \/ runner[l] = "succeeded" /\ Goto(l, "check")
  /\ UNCHANGED <<files, report, runner>>

\* After return code zero the output must be there and validate.
CheckOutput(l) ==
  /\ At(l, "check")
  /\ IF Validates(l) THEN Ends(l, "complete") ELSE Goto(l, "fail") /\ UNCHANGED report
  /\ UNCHANGED <<files, runner>>

\* _write_failure links a complete marker, or finds that of another launcher.
WriteFailure(l) ==
  /\ At(l, "fail")
  /\ failure' = TRUE
  /\ Ends(l, "failed")
  /\ UNCHANGED <<manifest, log, output, runner>>

Killed(l) ==
  /\ pc[l] \notin {"start", "done"}
  /\ Ends(l, "killed")
  /\ UNCHANGED <<files, runner>>

-------------------------------------------------------------------------------
(* The runner process.                                                      *)

\* The output does not exist when the runner starts, and it begins to write.
BeginOutput(l) ==
  /\ runner[l] = "running"
  /\ runner' = [runner EXCEPT ![l] = "writing"]
  /\ output' = [kind |-> "partial", id |-> Identity[l]]
  /\ UNCHANGED <<manifest, log, failure, pc, report>>

\* What it wrote has the shape the launcher asks for, or not.
EndOutput(l) ==
  /\ runner[l] = "writing" /\ output.kind = "partial"
  /\ \E kind \in {"valid", "invalid"} : output' = [kind |-> kind, id |-> Identity[l]]
  /\ UNCHANGED <<manifest, log, failure, pc, report, runner>>

RunnerExits(l) ==
  /\ runner[l] = "writing" /\ output.kind # "partial"
  /\ runner' = [runner EXCEPT ![l] = "succeeded"]
  /\ UNCHANGED <<files, pc, report>>

RunnerFails(l) ==
  /\ runner[l] \in {"running", "writing"}
  /\ runner' = [runner EXCEPT ![l] = "failed"]
  /\ UNCHANGED <<files, pc, report>>

Next ==
  \E l \in Launchers :
    \/ WriteManifest(l) \/ CheckMarker(l) \/ Resume(l) \/ CheckLog(l)
    \/ OpenLog(l) \/ Spawn(l) \/ RaisesOSError(l) \/ RunnerEnded(l) \/ CheckOutput(l)
    \/ WriteFailure(l) \/ Killed(l)
    \/ BeginOutput(l) \/ EndOutput(l) \/ RunnerExits(l) \/ RunnerFails(l)

Spec == Init /\ [][Next]_vars

-------------------------------------------------------------------------------
(* Properties.                                                              *)

\* The variables have the shapes the code gives them.
TypeOK ==
  LET Ids == {Identity[l] : l \in Launchers} IN
  /\ manifest \in Ids \union {None}
  /\ log \in Launchers \union {None} /\ failure \in BOOLEAN
  /\ output \in [kind : {"absent", "partial", "valid", "invalid"}, id : Ids \union {None}]
  /\ output.id = None <=> output.kind = "absent"
  /\ pc \in [Launchers -> {"start", "marker", "resume", "log", "open", "launch", "wait",
                           "check", "fail", "done"}]
  /\ \A l \in Launchers : report[l] = "none" <=> pc[l] # "done"
  /\ runner \in [Launchers -> {"absent", "running", "writing", "succeeded", "failed"}]

\* The runner of a unit is started at most once in the life of its root,
\* whichever launchers race or come back after a crash.
LaunchedOnce ==
  \A k, l \in Launchers : runner[k] # "absent" /\ runner[l] # "absent" => k = l

\* Whatever runs or is reported under a root belongs to the identity in its
\* manifest.
OneIdentity ==
  /\ \A l \in Launchers :
       \/ runner[l] # "absent"
       \/ report[l] \in {"complete", "skipped", "failed", "error"}
       => Identity[l] = manifest
  /\ output.kind # "absent" => output.id = manifest

\* What a launcher reported as complete or reusable is, and stays, an output
\* that validates.
ReportedMeansValid ==
  \A l \in Launchers : report[l] \in {"complete", "skipped"} => Validates(l)

\* "each output is write-once"
OutputIsWriteOnce ==
  [][output.kind \in {"valid", "invalid"} => output' = output]_vars

\* When nobody works on it any more, a unit whose log was opened has a valid
\* output or a failure marker, unless the launcher that opened the log was
\* killed or ended by an OSError, be it before there was a runner.
UnsettledOnlyByDeath ==
  /\ log # None
  /\ \A l \in Launchers : pc[l] \in {"start", "done"} /\ runner[l] \notin {"running", "writing"}
  => output.kind = "valid" \/ failure \/ report[log] \in {"killed", "error"}

\* What is left on disk and what was reported is what happened.
UnitIsHonest == TypeOK /\ ReportedMeansValid /\ UnsettledOnlyByDeath

\* "each failure marker is terminal for that root": once it is there, nobody
\* reports the unit as complete.
FailureIsTerminal ==
  [][failure => \A l \in Launchers :
       report'[l] \in {"complete", "skipped"} => report[l] = report'[l]]_vars
===============================================================================

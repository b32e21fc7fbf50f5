------------------------------- MODULE WBMReplay -------------------------------
(***************************************************************************)
(* replay_wbm_event_log: what an auditor accepts as the trace of a run,    *)
(* from the lines of the file alone.  The records are those of             *)
(* ProtocolEventLog, whose log AppendOnlyWBMEventLog repeats; the evidence *)
(* of a reveal record is                                                   *)
(*    [causal, active, hull, archive], the hull named by its phases.       *)
(***************************************************************************)
EXTENDS ProtocolEventLog, SequencesExt

ActionAt(lines, k) == lines[2 * k - 1]
RevealAt(lines, k) == lines[2 * k]

\* The phases the replayed hull holds after k rounds.
ReplayedHull(lines, k) == [i \in 1..k |-> ActionAt(lines, i).pair]

\* Faulty variant: the chain of digests is not followed.
ActionReplaysUnchained(lines, k) ==
  LET action == ActionAt(lines, k) IN
  /\ action.kind = "action"
  /\ action.digest = Digest([round |-> action.round, pair |-> action.pair,
                             state |-> action.state, previous |-> action.previous])

\* The pair of lines of round k parses and its action is the expected one.
ActionReplays(lines, k) ==
  LET action == ActionAt(lines, k) IN
  /\ action.kind = "action"
  /\ action.round = k
  /\ action.previous = (IF k = 1 THEN NoDigest ELSE RevealAt(lines, k - 1).digest)
  /\ action.digest = Digest([round |-> action.round, pair |-> action.pair,
                             state |-> action.state, previous |-> action.previous])

\* The reveal belongs to the action and to the hull replayed so far.
RevealReplays(lines, registry, k) ==
  LET action == ActionAt(lines, k)
      reveal == RevealAt(lines, k)
  IN  /\ reveal.kind = "reveal"
      /\ reveal.round = action.round
      /\ reveal.pair = action.pair
      /\ reveal.action = action.digest
      /\ action.pair \in registry
      /\ ~Contains(ReplayedHull(lines, k - 1), action.pair)
      /\ reveal.evidence.hull = ReplayedHull(lines, k)
      /\ reveal.digest = Digest([round |-> reveal.round, pair |-> reveal.pair,
                                 action |-> reveal.action, evidence |-> reveal.evidence])

\* The replay raises unless every round of the file replays.
ReplayPasses(lines, registry) ==
  /\ Len(lines) % 2 = 0
  /\ \A k \in 1..(Len(lines) \div 2) :
       ActionReplays(lines, k) /\ RevealReplays(lines, registry, k)

\* The trace the replay reports, one event for each round.
ReplayedEvents(lines) ==
  [k \in 1..(Len(lines) \div 2) |->
    [round |-> k, pair |-> ActionAt(lines, k).pair, evidence |-> RevealAt(lines, k).evidence]]
===============================================================================

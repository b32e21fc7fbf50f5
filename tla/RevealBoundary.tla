---------------------------- MODULE RevealBoundary ----------------------------
(***************************************************************************)
(* The reveal boundary of protocol_closed_loop.py: one event log on one    *)
(* path and one oracle vault, used by callers that may call the log and    *)
(* the vault in any order and may present any authorization that was ever  *)
(* granted to them, however old.                                           *)
(*                                                                         *)
(* The file of the log is modelled with what can fail around it: a write   *)
(* or flush that raises (the line stays in the handle's buffer and goes    *)
(* out with a later flush), an fsync that raises (the line is in the file  *)
(* but not known to be on disk), the process killed (the buffer is lost),  *)
(* a power loss (the unsynced suffix is lost too), the file unlinked by    *)
(* somebody else.                                                          *)
(***************************************************************************)
EXTENDS ProtocolEventLog, FiniteSets

CONSTANTS
  Pairs,      \* pair IDs the callers name
  Matching,   \* pairs with a vault outcome whose identity agrees with theirs
  States,     \* checksums of policy states
  Rounds,     \* round indices the callers name
  Evidence    \* outcome, hull and archive checksums

ASSUME BoundaryAssumption ==
  /\ Matching \subseteq Pairs
  /\ Rounds \subseteq Nat

VARIABLES
  phase,      \* "open": log open; "closed": handle closed; "down": process gone
  present,    \* the path names the log's file
  log,        \* the log's in-memory records and pending action
  file,       \* lines of the file
  synced,     \* length of the prefix of `file` that is on disk
  buffer,     \* lines written to the handle but not flushed
  grants,     \* authorizations the callers hold
  revealed    \* pair IDs the vault has revealed, in order

vars == <<phase, present, log, file, synced, buffer, grants, revealed>>

Init ==
  /\ phase = "open"
  /\ present = TRUE
  /\ log = EmptyLog
  /\ file = <<>>
  /\ synced = 0
  /\ buffer = <<>>
  /\ grants = {}
  /\ revealed = <<>>

-------------------------------------------------------------------------------
(* _persist: write, flush, fsync; only then is the record acknowledged.     *)

\* The flush raises: the line stays in the buffer of the handle.
FlushRaises(record) ==
  /\ buffer' = Append(buffer, record)
  /\ UNCHANGED <<file, synced>>

\* The fsync raises: the line is in the file, the disk may not have it.
FsyncRaises(record) ==
  /\ file' = file \o Append(buffer, record)
  /\ buffer' = <<>>
  /\ UNCHANGED synced

\* Faulty variant: acknowledged on flush, without the fsync.
PersistedUnsynced(record) ==
  /\ file' = file \o Append(buffer, record)
  /\ buffer' = <<>>
  /\ UNCHANGED synced

\* All three calls return: everything written so far is in the file, on disk.
Persisted(record) ==
  /\ file' = file \o Append(buffer, record)
  /\ synced' = Len(file) + Len(buffer) + 1
  /\ buffer' = <<>>

PersistRaises(record) == FlushRaises(record) \/ FsyncRaises(record)

-------------------------------------------------------------------------------
AppendAction(round, pair, state) ==
  LET record == ActionRecord(log, round, pair, state) IN
  /\ phase = "open"
  /\ MayAppendAction(log)
  /\ Persisted(record)
  /\ log' = WithAction(log, record)
  /\ grants' = grants \union {AuthorizationFor(log, record)}
  /\ UNCHANGED <<phase, present, revealed>>

\* Faulty variant: the record is kept in memory before it is written.
AppendActionRecordsFirst(round, pair, state) ==
  LET record == ActionRecord(log, round, pair, state) IN
  /\ phase = "open"
  /\ MayAppendAction(log)
  /\ PersistRaises(record)
  /\ log' = WithAction(log, record)
  /\ UNCHANGED <<phase, present, grants, revealed>>

AppendActionRaises(round, pair, state) ==
  /\ phase = "open"
  /\ MayAppendAction(log)
  /\ PersistRaises(ActionRecord(log, round, pair, state))
  /\ UNCHANGED <<phase, present, log, grants, revealed>>

\* ProtocolOracleVault.reveal with the log's authorize in front of it.
Reveal(pair, authorization) ==
  /\ phase # "down"
  /\ Authorizes(log, authorization, pair)
  /\ present /\ file # <<>>
  /\ \A i \in 1..Len(revealed) : revealed[i] # pair
  /\ pair \in Matching
  /\ revealed' = Append(revealed, pair)
  /\ UNCHANGED <<phase, present, log, file, synced, buffer, grants>>

AppendReveal(round, pair, action, evidence) ==
  LET record == RevealRecord(round, pair, action, evidence) IN
  /\ phase = "open"
  /\ MayAppendReveal(log, round, pair, action)
  /\ Persisted(record)
  /\ log' = WithReveal(log, record)
  /\ UNCHANGED <<phase, present, grants, revealed>>

\* The reveal line is lost or unsynced; the action stays pending.
AppendRevealRaises(round, pair, action, evidence) ==
  /\ phase = "open"
  /\ MayAppendReveal(log, round, pair, action)
  /\ PersistRaises(RevealRecord(round, pair, action, evidence))
  /\ UNCHANGED <<phase, present, log, grants, revealed>>

\* close() flushes what the handle still buffers.
Close ==
  /\ phase = "open"
  /\ phase' = "closed"
  /\ file' = file \o buffer
  /\ buffer' = <<>>
  /\ UNCHANGED <<present, log, synced, grants, revealed>>

-------------------------------------------------------------------------------
(* The environment of the log.                                              *)

\* The path is unlinked; the handle keeps the file it has.
Unlink ==
  /\ present
  /\ present' = FALSE
  /\ UNCHANGED <<phase, log, file, synced, buffer, grants, revealed>>

\* The process dies: its memory and the buffer of the handle are gone.
Kill ==
  /\ phase # "down"
  /\ phase' = "down"
  /\ log' = EmptyLog
  /\ buffer' = <<>>
  /\ grants' = {}
  /\ UNCHANGED <<present, file, synced, revealed>>

\* The machine dies: of the unsynced suffix any prefix may survive.
PowerLoss ==
  /\ phase # "down"
  /\ phase' = "down"
  /\ log' = EmptyLog
  /\ buffer' = <<>>
  /\ grants' = {}
  /\ \E n \in synced..Len(file) : file' = SubSeq(file, 1, n)
  /\ UNCHANGED <<present, synced, revealed>>

\* Faulty variant: the path is opened with mode "w".
ReopenTruncating ==
  /\ phase = "down"
  /\ phase' = "open"
  /\ present' = TRUE
  /\ file' = <<>>
  /\ synced' = 0
  /\ revealed' = <<>>
  /\ UNCHANGED <<log, buffer, grants>>

\* A new process opens the path with mode "x", with a fresh vault: refused
\* with FileExistsError as long as the path exists.
Reopen ==
  /\ phase = "down"
  /\ ~present
  /\ phase' = "open"
  /\ present' = TRUE
  /\ file' = <<>>
  /\ synced' = 0
  /\ revealed' = <<>>
  /\ UNCHANGED <<log, buffer, grants>>

Next ==
  \/ \E round \in Rounds, pair \in Pairs, state \in States :
       \/ AppendAction(round, pair, state)
       \/ AppendActionRaises(round, pair, state)
  \/ \E pair \in Pairs, authorization \in grants : Reveal(pair, authorization)
  \/ \E authorization \in grants, round \in Rounds, evidence \in Evidence :
       \/ AppendReveal(round, authorization.pair, authorization.digest, evidence)
       \/ AppendRevealRaises(round, authorization.pair, authorization.digest, evidence)
  \/ Close
  \/ Unlink
  \/ Kill
  \/ PowerLoss
  \/ Reopen

Spec == Init /\ [][Next]_vars

-------------------------------------------------------------------------------
(* Properties.                                                              *)

IsRecord(record) ==
  \/ /\ record.kind = "action"
     /\ record.round \in Rounds /\ record.pair \in Pairs /\ record.state \in States
  \/ /\ record.kind = "reveal"
     /\ record.round \in Rounds /\ record.pair \in Pairs /\ record.evidence \in Evidence

IsLines(lines) == \A i \in 1..Len(lines) : IsRecord(lines[i])

\* The variables have the shapes the code gives them; digests are opaque.
TypeOK ==
  /\ phase \in {"open", "closed", "down"}
  /\ present \in BOOLEAN
  /\ IsLines(log.records) /\ IsLines(file) /\ IsLines(buffer)
  /\ log.pending \in 0..Len(log.records)
  /\ synced \in 0..Len(file)
  /\ \A grant \in grants : grant.index \in Nat \ {0} /\ grant.pair \in Pairs
  /\ \A i \in 1..Len(revealed) : revealed[i] \in Matching

\* The line `i` of the file is on disk and is a record of this kind and pair.
OnDisk(i, kind, pair) ==
  /\ i \in 1..synced
  /\ file[i].kind = kind
  /\ file[i].pair = pair

Accounted(pair) == \E i \in 1..Len(file) : OnDisk(i, "reveal", pair)

\* "Persist every selected action before granting a reveal capability": an
\* outcome was only ever handed out for a pair whose selection is on disk,
\* also when writes failed and after the process or the machine died.
WriteAhead ==
  \A i \in 1..Len(revealed) :
    \E j \in 1..Len(file) : OnDisk(j, "action", revealed[i])

\* Every outcome handed out has its reveal record on disk, except the one of
\* the action in flight; after a crash at most one outcome is unaccounted.
RevealsAccounted ==
  /\ phase # "down" =>
       \A i \in 1..Len(revealed) :
         \/ Accounted(revealed[i])
         \/ /\ log.pending # NoPending
            /\ log.records[log.pending].pair = revealed[i]
  /\ \A i, j \in 1..Len(revealed) :
       ~Accounted(revealed[i]) /\ ~Accounted(revealed[j]) => i = j

\* What the log has acknowledged is on disk, in the order of the records,
\* whatever unacknowledged lines failed writes have left in between.
AcknowledgedOnDisk ==
  \A j \in 1..Len(log.records) :
    \E b \in 1..synced :
      /\ file[b] = log.records[j]
      /\ \A i \in 1..(j - 1) : \E a \in 1..(b - 1) : file[a] = log.records[i]

\* A reveal happens only as the next thing after its own selection: an
\* authorization kept over its reveal record, or over a later action for the
\* same pair, opens nothing.
NoStaleReveal ==
  [][revealed' # revealed /\ revealed' # <<>> =>
       LET latest == log.records[Len(log.records)] IN
       /\ log.records # <<>>
       /\ latest.kind = "action"
       /\ revealed' = Append(revealed, latest.pair)]_vars

\* "protocol event log cannot overwrite a run": while the path names the
\* file, no line that is on disk ever changes or disappears.
NeverOverwritten ==
  [][present => /\ Len(file') >= synced
                /\ \A i \in 1..synced : file'[i] = file[i]]_vars

-------------------------------------------------------------------------------
(* What the boundary promises to a reader of the trace, as an abstract     *)
(* machine: see RevealContract.                                            *)
Contract == INSTANCE RevealContract WITH
  up        <- phase # "down",
  inFlight  <- IF log.pending = NoPending THEN {}
               ELSE {log.records[log.pending].pair},
  disclosed <- {revealed[i] : i \in 1..Len(revealed)},
  accounted <- {pair \in Pairs : Accounted(pair)}

ImplementsContract == Contract!Spec
===============================================================================

--------------------------- MODULE ProtocolEventLog ---------------------------
(***************************************************************************)
(* The in-memory half of AppendOnlyProtocolEventLog: the acknowledged      *)
(* records, the action that still waits for its reveal record, and the     *)
(* authorization granted for it, as pure operators over a log value        *)
(*    [records |-> sequence of records, pending |-> index or 0].           *)
(*                                                                         *)
(* `_pending` is a reference to one of the records; it is modelled by the  *)
(* index of that record, 0 standing for None.  SHA-256 is modelled as an   *)
(* injective function of the content it is given.                          *)
(***************************************************************************)
EXTENDS Naturals, Sequences

Digest(content) == <<"sha256", content>>

NoDigest == <<>>

NoPending == 0

\* A fresh log: no record, nothing pending.
EmptyLog == [records |-> <<>>, pending |-> NoPending]

\* The digest that the next action chains to.
ChainHead(log) ==
  IF log.records = <<>> THEN NoDigest ELSE log.records[Len(log.records)].digest

\* The record append_action builds for the caller's arguments.
ActionRecord(log, round, pair, state) ==
  LET content == [round |-> round, pair |-> pair, state |-> state,
                  previous |-> ChainHead(log)]
  IN  [kind |-> "action", round |-> round, pair |-> pair, state |-> state,
       previous |-> ChainHead(log), digest |-> Digest(content)]

\* The record append_reveal builds; `evidence` stands for the outcome, hull
\* and archive checksums of the caller.
RevealRecord(round, pair, action, evidence) ==
  LET content == [round |-> round, pair |-> pair, action |-> action,
                  evidence |-> evidence]
  IN  [kind |-> "reveal", round |-> round, pair |-> pair, action |-> action,
       evidence |-> evidence, digest |-> Digest(content)]

\* Faulty variant: a second action may be appended over a pending one.
MayAlwaysAppendAction(log) == log.pending >= NoPending

\* append_action refuses while an action has no reveal record.
MayAppendAction(log) == log.pending = NoPending

WithAction(log, record) ==
  [records |-> Append(log.records, record), pending |-> Len(log.records) + 1]

\* What append_action returns once `record` is the last acknowledged record.
AuthorizationFor(log, record) ==
  [index |-> Len(log.records) + 1, pair |-> record.pair, digest |-> record.digest]

\* Faulty variant: the authorization is checked against the record it names,
\* not against the pending one.
AuthorizesNamedRecord(log, authorization, pair) ==
  /\ authorization.index \in 1..Len(log.records)
  /\ authorization.pair = pair
  /\ authorization.digest = log.records[authorization.index].digest

\* authorize(authorization, pair) on the in-memory state.
Authorizes(log, authorization, pair) ==
  /\ log.pending # NoPending
  /\ authorization.index = Len(log.records)
  /\ authorization.pair = pair
  /\ authorization.digest = log.records[log.pending].digest
  /\ log.records[log.pending].pair = pair

\* append_reveal accepts a reveal of exactly the pending action.
MayAppendReveal(log, round, pair, action) ==
  /\ log.pending # NoPending
  /\ log.records[log.pending].round = round
  /\ log.records[log.pending].pair = pair
  /\ log.records[log.pending].digest = action

\* Faulty variant: the pending action is not cleared.
WithRevealStillPending(log, record) ==
  [records |-> Append(log.records, record), pending |-> log.pending]

WithReveal(log, record) ==
  [records |-> Append(log.records, record), pending |-> NoPending]
===============================================================================

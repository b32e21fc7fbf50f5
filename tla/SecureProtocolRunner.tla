------------------------- MODULE SecureProtocolRunner -------------------------
(***************************************************************************)
(* SecureProtocolQueryRunner: one runner with its candidates, vault,       *)
(* causal hull, policy subprocess and event log.  run() may be called      *)
(* again on the same objects after it returned or raised: the vault, the   *)
(* hull and the log keep what they have, the locals of run() start anew.   *)
(*                                                                         *)
(* Money is counted in units of the 1e-12 tolerance of the code, exactly.  *)
(* An outcome is named by its pair.  A step that may raise has a variant   *)
(* that does; all of them end the run through Abort.                       *)
(***************************************************************************)
EXTENDS ProtocolEventLog, Integers, FiniteSets, SequencesExt

CONSTANTS
  Candidates,   \* pair IDs of the runner
  Cost,         \* oracle cost of each candidate
  Matching,     \* candidates whose vault outcome exists and agrees with them
  Budgets,      \* budgets run() is called with
  Tol,          \* the tolerance of the affordability test, in units
  Conformal,    \* the policy is conformal_source_rollout_delta_hull
  MaxRuns       \* bound on calls of run()

ASSUME RunnerAssumption ==
  /\ Candidates # {} /\ IsFiniteSet(Candidates)
  /\ Cost \in [Candidates -> Nat \ {0}]
  /\ Matching \subseteq Candidates
  /\ Budgets \subseteq Int
  /\ Tol \in Nat /\ MaxRuns \in Nat
  /\ Conformal \in BOOLEAN

VARIABLES
  pc,          \* where run() is; "idle" between calls, "blocked" in a write
  runs,        \* calls of run() so far
  outcome,     \* how the last call ended: "none", "returned" or "raised"
  runStart,    \* length of the log when the current call began
  budget, spent, remaining, round, deviated,  \* locals of run()
  state,       \* the policy state of the round
  selected,    \* the ID the policy returned
  grant,       \* the authorization of the round
  history,     \* pairs revealed in this call
  events,      \* pairs of the completed rounds of this call
  hull,        \* pairs added to the causal hull
  revealed,    \* pairs the vault has revealed
  log,         \* the event log
  policyUp     \* the runner holds a persistent policy process

locals == <<budget, spent, remaining, round, deviated, state, selected, grant,
            history, events>>
vars == <<pc, runs, outcome, runStart, locals, hull, revealed, log, policyUp>>

Init ==
  /\ pc = "idle" /\ runs = 0 /\ outcome = "none" /\ runStart = 0
  /\ budget = 0 /\ spent = 0 /\ remaining = {} /\ round = 1 /\ deviated = FALSE
  /\ state = <<>> /\ selected = <<>> /\ grant = <<>>
  /\ history = <<>> /\ events = <<>>
  /\ hull = <<>> /\ revealed = <<>>
  /\ log = EmptyLog
  /\ policyUp = FALSE

\* An exception leaves run(); its finally closes the policy.
Abort ==
  /\ pc' = "idle" /\ outcome' = "raised" /\ policyUp' = FALSE

-------------------------------------------------------------------------------
StartRun(b) ==
  /\ pc = "idle" /\ runs < MaxRuns
  /\ runs' = runs + 1
  /\ IF b <= 0
     THEN /\ outcome' = "raised" /\ policyUp' = FALSE
          /\ UNCHANGED <<pc, runStart, locals>>
     ELSE /\ pc' = "loop" /\ outcome' = "none"
          /\ runStart' = Len(log.records)
          /\ budget' = b /\ spent' = 0 /\ remaining' = Candidates
          /\ round' = 1 /\ deviated' = FALSE
          /\ history' = <<>> /\ events' = <<>>
          /\ UNCHANGED <<state, selected, grant, policyUp>>
  /\ UNCHANGED <<hull, revealed, log>>

Affordable == {c \in remaining : Cost[c] <= budget - spent + Tol}

\* ProtocolPolicyState.create; a negative remaining budget does not validate.
\* `source` is the source-margin action of these queries and this hull, which
\* both the runner and the worker compute from the state.  Its request goes to
\* the policy process at once; one longer than the pipe holds blocks run() for
\* as long as that process does not read it.
CreateState ==
  /\ pc = "loop" /\ Affordable # {}
  /\ IF budget - spent < 0
     THEN Abort /\ UNCHANGED state
     ELSE /\ \E source \in Affordable :
               state' = [round |-> round, remaining |-> budget - spent,
                         queries |-> Affordable, hull |-> hull,
                         history |-> history, deviated |-> deviated,
                         source |-> source]
          /\ \/ pc' = "select" /\ UNCHANGED policyUp
             \/ pc' = "blocked" /\ policyUp' = TRUE
          /\ UNCHANGED outcome
  /\ UNCHANGED <<runs, runStart, budget, spent, remaining, round, deviated, selected,
                 grant, history, events, hull, revealed, log>>

\* The policy process reads on, or is gone.
Unblocked ==
  /\ pc = "blocked"
  /\ pc' = "select"
  /\ UNCHANGED <<runs, outcome, runStart, locals, hull, revealed, log, policyUp>>

\* Faulty variant: the runner does not remember the deviation.
SelectForgetful(id) ==
  /\ pc = "select" /\ id \in state.queries
  /\ Conformal /\ state.deviated => id = state.source
  /\ selected' = id
  /\ policyUp' = TRUE
  /\ pc' = "append"
  /\ UNCHANGED <<runs, outcome, runStart, budget, spent, remaining, round, deviated, state,
                 grant, history, events, hull, revealed, log>>

\* The worker answers with one of the queries; once the state says that the
\* deviation is used, the conformal worker answers with the source action.
Select(id) ==
  /\ pc = "select" /\ id \in state.queries
  /\ Conformal /\ state.deviated => id = state.source
  /\ selected' = id
  /\ deviated' = (deviated \/ (Conformal /\ id # state.source))
  /\ policyUp' = TRUE
  /\ pc' = "append"
  /\ UNCHANGED <<runs, outcome, runStart, budget, spent, remaining, round, state, grant,
                 history, events, hull, revealed, log>>

\* Faulty variant: a failed selection leaves the worker process running.
SelectRaisesOpen ==
  /\ pc = "select"
  /\ pc' = "idle" /\ outcome' = "raised"
  /\ UNCHANGED <<runs, runStart, locals, hull, revealed, log, policyUp>>

\* Timeout, EOF, invalid response or unknown ID.
SelectRaises ==
  /\ pc = "select"
  /\ Abort
  /\ UNCHANGED <<runs, runStart, locals, hull, revealed, log>>

PersistAction ==
  LET record == ActionRecord(log, state.round, selected, state) IN
  /\ pc = "append"
  /\ IF MayAppendAction(log)
     THEN /\ log' = WithAction(log, record)
          /\ grant' = AuthorizationFor(log, record)
          /\ remaining' = remaining \ {selected}
          /\ pc' = "reveal"
          /\ UNCHANGED <<outcome, policyUp>>
     ELSE /\ Abort
          /\ UNCHANGED <<log, grant, remaining>>
  /\ UNCHANGED <<runs, runStart, budget, spent, round, deviated, state, selected,
                 history, events, hull, revealed>>

PersistActionRaises ==
  /\ pc = "append" /\ MayAppendAction(log)
  /\ Abort
  /\ UNCHANGED <<runs, runStart, locals, hull, revealed, log>>

\* Faulty variant: the hull learns the outcome of an unrecorded reveal only
\* in the next round.
RevealSelectedHullLate ==
  /\ pc = "reveal"
  /\ IF /\ Authorizes(log, grant, selected)
        /\ ~Contains(revealed, selected)
        /\ selected \in Matching
     THEN /\ revealed' = Append(revealed, selected)
          /\ spent' = spent + Cost[selected]
          /\ history' = Append(history, selected)
          /\ hull' = revealed
          /\ pc' = "record"
          /\ UNCHANGED <<outcome, policyUp>>
     ELSE /\ Abort
          /\ UNCHANGED <<revealed, spent, history, hull>>
  /\ UNCHANGED <<runs, runStart, budget, remaining, round, deviated, state, selected, grant,
                 events, log>>

\* The vault's reveal, then the charge, the history and the hull.
RevealSelected ==
  /\ pc = "reveal"
  /\ IF /\ Authorizes(log, grant, selected)
        /\ ~Contains(revealed, selected)
        /\ selected \in Matching
     THEN /\ revealed' = Append(revealed, selected)
          /\ spent' = spent + Cost[selected]
          /\ history' = Append(history, selected)
          /\ hull' = Append(hull, selected)
          /\ pc' = "record"
          /\ UNCHANGED <<outcome, policyUp>>
     ELSE /\ Abort
          /\ UNCHANGED <<revealed, spent, history, hull>>
  /\ UNCHANGED <<runs, runStart, budget, remaining, round, deviated, state, selected, grant,
                 events, log>>

PersistReveal ==
  LET record == RevealRecord(round, selected, grant.digest,
                             [hull |-> hull, archive |-> history]) IN
  /\ pc = "record"
  /\ IF MayAppendReveal(log, round, selected, grant.digest)
     THEN /\ log' = WithReveal(log, record)
          /\ events' = Append(events, selected)
          /\ round' = round + 1
          /\ pc' = "loop"
          /\ UNCHANGED <<outcome, policyUp>>
     ELSE /\ Abort
          /\ UNCHANGED <<log, events, round>>
  /\ UNCHANGED <<runs, runStart, budget, spent, remaining, deviated, state, selected, grant,
                 history, hull, revealed>>

PersistRevealRaises ==
  /\ pc = "record"
  /\ Abort
  /\ UNCHANGED <<runs, runStart, locals, hull, revealed, log>>

\* Nothing affordable is left: "selected actions and oracle reveals diverged"
\* unless the rounds of this call are all the vault ever revealed.  The close()
\* of the finally may raise over either: its last wait can expire.
EndLoop ==
  /\ pc = "loop" /\ Affordable = {}
  /\ outcome' \in (IF events = revealed THEN {"returned", "raised"} ELSE {"raised"})
  /\ pc' = "idle" /\ policyUp' = FALSE
  /\ UNCHANGED <<runs, runStart, locals, hull, revealed, log>>

Step ==
  \/ CreateState
  \/ \E id \in Candidates : Select(id)
  \/ SelectRaises
  \/ PersistAction \/ PersistActionRaises
  \/ RevealSelected
  \/ PersistReveal \/ PersistRevealRaises
  \/ EndLoop

Next == Step \/ Unblocked \/ \E b \in Budgets : StartRun(b)

\* run() is one thread of straight code.  Every wait in it has a timeout except
\* the write of a request (PersistentWorker), so Unblocked is left out of the
\* fairness.
Spec == Init /\ [][Next]_vars /\ WF_vars(Step)

-------------------------------------------------------------------------------
(* Properties.                                                              *)

Actions == {k \in 1..Len(log.records) : log.records[k].kind = "action"}

OneOf(S) == CHOOSE x \in S : TRUE

\* The pairs of the reveal records in a stretch of a log, in order: the i-th is
\* the one with i reveals up to it.
RevealsOf(records, first, last) ==
  LET at == {k \in first..last : records[k].kind = "reveal"}
      Rank(k) == Cardinality({j \in at : j <= k})
  IN  [i \in 1..Cardinality(at) |-> records[OneOf({k \in at : Rank(k) = i})].pair]

RevealsIn(first, last) == RevealsOf(log.records, first, last)

\* The variables have the shapes the code gives them.
TypeOK ==
  /\ pc \in {"idle", "loop", "blocked", "select", "append", "reveal", "record"}
  /\ runs \in 0..MaxRuns /\ outcome \in {"none", "returned", "raised"}
  /\ runStart \in 0..Len(log.records)
  /\ budget \in Nat /\ spent \in Nat /\ round \in Nat \ {0}
  /\ remaining \subseteq Candidates
  /\ deviated \in BOOLEAN /\ policyUp \in BOOLEAN
  /\ selected \in Candidates \union {<<>>}
  /\ \A s \in {history, events, hull, revealed} : ToSet(s) \subseteq Candidates
  /\ log.pending \in 0..Len(log.records)

\* A call charges each outcome it looked at once, and together they cost at
\* most the budget and one tolerance.
WithinBudget ==
  /\ spent = SumFunctionOnSet(Cost, ToSet(history))
  /\ pc # "idle" => spent <= budget + Tol

\* "selected actions and oracle reveals diverged" is raised, never returned
\* over: a result lists all outcomes the vault ever gave out, in order, and
\* the log holds a selection and a reveal record for each and nothing else.
\* Only an empty result may be returned over a selection that an earlier call
\* left without its reveal.
ResultIsWholeTrace ==
  outcome = "returned" =>
    /\ events = revealed
    /\ hull = revealed
    /\ RevealsIn(1, Len(log.records)) = revealed
    /\ log.pending = NoPending => Len(log.records) = 2 * Len(revealed)
    /\ log.pending # NoPending => revealed = <<>> /\ Len(log.records) = 1

\* Every selection in the log was decided on what the log shows: the policy
\* saw in its hull exactly the outcomes recorded before, and in its history
\* those of the same call.
DecidedOnTheRecord ==
  \A k \in Actions :
    /\ log.records[k].state.hull = RevealsIn(1, k - 1)
    /\ k > runStart => log.records[k].state.history = RevealsIn(runStart + 1, k - 1)

\* The record of a call is all there is to it: every selection was decided on
\* what the record shows, a result is the whole trace, and what it charges
\* stays within the budget.
DecidedOnItsRecord == TypeOK /\ DecidedOnTheRecord /\ ResultIsWholeTrace /\ WithinBudget

\* The conformal policy "permits at most one source-relative deviation" in a
\* call.
OneDeviation ==
  LET deviations == {k \in Actions : /\ k > runStart
                                    /\ log.records[k].pair # log.records[k].state.source}
  IN  Conformal => Cardinality(deviations) <= 1

\* A selection that was left without its reveal record shuts the log and with
\* it the vault: no later call reveals or records anything.
PoisonedLogStaysShut ==
  [][log.pending # NoPending /\ pc \in {"idle", "loop", "blocked", "select", "append"} =>
       UNCHANGED <<log, revealed, hull>>]_vars

\* Every call ends, returning or raising, with the policy process given up by
\* the runner, unless it hangs in the write of a request for ever: that write
\* has no timeout, and a policy process that never reads keeps it waiting.
EveryRunEnds ==
  pc # "idle" ~> \/ pc = "idle" /\ ~policyUp
                 \/ [](pc = "blocked")
===============================================================================

---------------------------- MODULE WBMSecureRunner ----------------------------
(***************************************************************************)
(* SecureWBMRunner.run(): one exact chemical system, its oracle vault, the *)
(* evaluator's causal hull, the FIFO evidence the policy may see, and the  *)
(* event log.                                                              *)
(*                                                                         *)
(* The geometry of the hull is a constant: HullAt[S][q] is the energy, at  *)
(* the composition of q, of the hull of the initial phases and the phases  *)
(* S.  Energies are counted in units of the final tolerance (1e-8), money  *)
(* in units of the affordability tolerance (1e-12), both exactly.          *)
(***************************************************************************)
EXTENDS WBMReplay, Integers, FiniteSets

CONSTANTS
  Queries,      \* query IDs of the runner
  Cost,         \* oracle cost of each
  Matching,     \* queries whose vault record agrees with them
  Universe,     \* queries of the frozen oracle universe
  Energy,       \* corrected formation energy of each query
  Threshold,    \* stability threshold of each query
  HullAt,       \* hull energies, see above
  AsOf,         \* as_of of each query when the run starts
  ObservedAt,   \* observed_at of each vault record
  Budgets, Checks,  \* oracle_budget and budget_prefix_checks
  Capacity,     \* capacity of the FIFO evidence
  Strategy,     \* "persistent" or "reconstructed"
  Tol, FinalTol

ASSUME WBMAssumption ==
  /\ Queries # {} /\ IsFiniteSet(Queries)
  /\ Cost \in [Queries -> Nat \ {0}]
  /\ Matching \subseteq Queries
  /\ Energy \in [Queries -> Int] /\ Threshold \in [Queries -> Nat]
  /\ Budgets \subseteq Nat \ {0} /\ Checks \subseteq Nat \ {0}
  /\ AsOf \in [Queries -> Nat] /\ ObservedAt \in [Queries -> Nat]
  /\ Capacity \in Nat /\ Tol \in Nat /\ FinalTol \in Nat
  /\ Strategy \in {"persistent", "reconstructed"}

\* More phases never raise the hull, and a phase is never below its own hull.
ASSUME HullAssumption ==
  LET Phases == Queries \union Universe IN
  /\ HullAt \in [SUBSET Phases -> [Queries -> Int]]
  /\ \A S, T \in SUBSET Phases, q \in Queries : S \subseteq T => HullAt[T][q] <= HullAt[S][q]
  /\ \A S \in SUBSET Phases : \A q \in S \intersect Queries : HullAt[S][q] <= Energy[q]

VARIABLES
  pc,          \* where run() is
  outcome,     \* "none", "returned" or "raised"
  budget, spent, remaining, round,  \* locals of run()
  snapshot,    \* phases of the hull snapshot each query carries
  asOf,        \* as_of of each query
  state,       \* the policy state of the round
  selected,    \* the ID the policy returned
  alternates,  \* IDs it returned for the compared budgets
  grant,       \* the authorization of the round
  archive,     \* cards, named by their queries
  causal,      \* causal flag of each archived card
  hull,        \* phases added to the causal hull
  fifo,        \* _active of PersistentFIFOEvidence
  events, parity,
  result,      \* the counters of WBMRunResult
  revealed,    \* IDs the vault has revealed
  log          \* the event log

vars == <<pc, outcome, budget, spent, remaining, round, snapshot, asOf, state, selected,
          alternates, grant, archive, causal, hull, fifo, events, parity, result,
          revealed, log>>

Init ==
  /\ pc = "loop" /\ outcome = "none"
  /\ budget \in Budgets /\ spent = 0 /\ remaining = Queries /\ round = 1
  /\ snapshot = [q \in Queries |-> {}] /\ asOf = AsOf
  /\ state = <<>> /\ selected = <<>> /\ alternates = <<>> /\ grant = <<>>
  /\ archive = <<>> /\ causal = <<>> /\ hull = <<>> /\ fifo = <<>>
  /\ events = <<>> /\ parity = <<>> /\ result = <<>>
  /\ revealed = <<>> /\ log = EmptyLog

Abort == pc' = "done" /\ outcome' = "raised"

-------------------------------------------------------------------------------
(* The evidence the policy may see.                                         *)

\* archive[-capacity:], and () for capacity 0.
LastOf(cards) ==
  SubSeq(cards, (IF Len(cards) > Capacity THEN Len(cards) - Capacity ELSE 0) + 1, Len(cards))

Active(cards, held) == IF Strategy = "persistent" THEN held ELSE LastOf(cards)

\* Faulty variant: a full FIFO drops the card that just came in.
AdmittedDroppingNewest(held, card) == IF Len(held) < Capacity THEN Append(held, card) ELSE held

\* append, then del _active[0] when the capacity is exceeded.
Admitted(held, card) ==
  IF Len(held) + 1 > Capacity THEN Tail(Append(held, card)) ELSE Append(held, card)

-------------------------------------------------------------------------------
Affordable == {q \in remaining : Cost[q] <= budget - spent + Tol}

\* PolicyState.create; a negative remaining budget does not validate.
CreateState ==
  /\ pc = "loop" /\ Affordable # {}
  /\ IF budget - spent < 0
     THEN Abort /\ UNCHANGED state
     ELSE /\ state' = [round |-> round, remaining |-> budget - spent,
                       queries |-> [q \in Affordable |-> snapshot[q]],
                       witnesses |-> Active(archive, fifo), history |-> archive]
          /\ pc' = "select"
          /\ UNCHANGED outcome
  /\ UNCHANGED <<budget, spent, remaining, round, snapshot, asOf, selected, alternates, grant,
                 archive, causal, hull, fifo, events, parity, result, revealed, log>>

\* The compared budgets of this round; run() refuses one above the budget
\* before it starts.
Compared == {b \in Checks : b <= budget /\ b # budget /\ spent < b}

\* The policy's own choice, and one for each compared budget.
Select(id) ==
  /\ pc = "select" /\ id \in DOMAIN state.queries
  /\ selected' = id
  /\ alternates' \in [Compared -> DOMAIN state.queries]
  /\ pc' = "append"
  /\ UNCHANGED <<outcome, budget, spent, remaining, round, snapshot, asOf, state, grant,
                 archive, causal, hull, fifo, events, parity, result, revealed, log>>

\* One of those subprocesses fails, times out or answers with an unknown ID.
SelectRaises ==
  /\ pc = "select"
  /\ Abort
  /\ UNCHANGED <<budget, spent, remaining, round, snapshot, asOf, state, selected, alternates,
                 grant, archive, causal, hull, fifo, events, parity, result, revealed, log>>

PersistAction ==
  LET record == ActionRecord(log, round, selected, state) IN
  /\ pc = "append" /\ MayAppendAction(log)
  /\ log' = WithAction(log, record)
  /\ grant' = AuthorizationFor(log, record)
  /\ remaining' = remaining \ {selected}
  /\ pc' = "reveal"
  /\ UNCHANGED <<outcome, budget, spent, round, snapshot, asOf, state, selected, alternates,
                 archive, causal, hull, fifo, events, parity, result, revealed>>

\* The log of this runner has the state and the checks of the protocol's.
AuthorizesReveal(q) == Authorizes(log, grant, q)
RevealMatchesAction == MayAppendReveal(log, round, selected, grant.digest)

\* WBMOracleVault.reveal hands out the outcome of q.
VaultReveals(q) ==
  /\ AuthorizesReveal(q)
  /\ ~Contains(revealed, q)
  /\ q \in Matching
  /\ ObservedAt[q] >= asOf[q]

\* Faulty variant: the snapshots keep the hull of the start.
RefreshedNever(phases) == snapshot

\* The waiting queries get a snapshot of the hull that now holds `phases`.
Refreshed(phases) ==
  [q \in Queries |-> IF q \in remaining THEN ToSet(phases) ELSE snapshot[q]]

\* The outcome arrives: it is judged against the snapshot of its query, then
\* archived and added to the hull, and the waiting queries are refreshed.
RevealSelected ==
  /\ pc = "reveal"
  /\ IF VaultReveals(selected)
     THEN /\ revealed' = Append(revealed, selected)
          /\ spent' = spent + Cost[selected]
          /\ causal' = Append(causal,
               Energy[selected] - HullAt[snapshot[selected]][selected] <= Threshold[selected])
          /\ archive' = Append(archive, selected)
          /\ hull' = Append(hull, selected)
          /\ snapshot' = Refreshed(hull')
          /\ asOf' = [q \in Queries |-> IF q \in remaining THEN ObservedAt[selected] ELSE asOf[q]]
          /\ pc' = "admit"
          /\ UNCHANGED outcome
     ELSE /\ Abort
          /\ UNCHANGED <<revealed, spent, causal, archive, hull, snapshot, asOf>>
  /\ UNCHANGED <<budget, remaining, round, state, selected, alternates, grant, fifo, events,
                 parity, result, log>>

\* The card reaches the evidence only after the hull; only the persistent
\* FIFO keeps anything.
Admit ==
  /\ pc = "admit"
  /\ IF Strategy = "persistent" /\ Contains(fifo, selected)
     THEN Abort /\ UNCHANGED fifo
     ELSE /\ fifo' = (IF Strategy = "persistent" THEN Admitted(fifo, selected) ELSE fifo)
          /\ pc' = "record"
          /\ UNCHANGED outcome
  /\ UNCHANGED <<budget, spent, remaining, round, snapshot, asOf, state, selected, alternates,
                 grant, archive, causal, hull, events, parity, result, revealed, log>>

PersistReveal ==
  LET evidence == [causal |-> Last(causal), active |-> Active(archive, fifo),
                   hull |-> hull, archive |-> archive]
  IN
  /\ pc = "record" /\ RevealMatchesAction
  /\ log' = WithReveal(log, RevealRecord(round, selected, grant.digest, evidence))
  /\ events' = Append(events, [round |-> round, pair |-> selected, evidence |-> evidence])
  /\ parity' = Append(parity, [b \in DOMAIN alternates |-> alternates[b] = selected])
  /\ round' = round + 1
  /\ pc' = "loop"
  /\ UNCHANGED <<outcome, budget, spent, remaining, snapshot, asOf, state, selected, alternates,
                 grant, archive, causal, hull, fifo, result, revealed>>

\* A write of the log raises; the record is not acknowledged.
PersistRaises ==
  /\ pc \in {"append", "record"}
  /\ Abort
  /\ UNCHANGED <<budget, spent, remaining, round, snapshot, asOf, state, selected, alternates,
                 grant, archive, causal, hull, fifo, events, parity, result, revealed, log>>

SelectedFinal(q) == Energy[q] - HullAt[ToSet(hull)][q] <= FinalTol
OracleFinal(q) == Energy[q] - HullAt[Universe][q] <= FinalTol

\* The counters of WBMRunResult over the cards of this run.
Counted ==
  LET discovered == {k \in 1..Len(archive) : causal[k]}
      confirmed  == {k \in 1..Len(archive) : SelectedFinal(archive[k])}
      real       == {k \in 1..Len(archive) : OracleFinal(archive[k])}
  IN  [discoveries |-> Cardinality(discovered), confirmations |-> Cardinality(confirmed),
       invalidations |-> Cardinality(discovered \ confirmed),
       trueDiscoveries |-> Cardinality(real),
       falseConfirmations |-> Cardinality(confirmed \ real)]

\* oracle_final_stability accepts the universe.
UniverseCovers == Universe # {} /\ ToSet(hull) \subseteq Universe

\* Nothing affordable is left: the three hulls are counted, or the universe
\* omits a selected query and the run raises.
EndLoop ==
  /\ pc = "loop" /\ Affordable = {}
  /\ IF UniverseCovers
     THEN result' = Counted /\ outcome' = "returned"
     ELSE outcome' = "raised" /\ UNCHANGED result
  /\ pc' = "done"
  /\ UNCHANGED <<budget, spent, remaining, round, snapshot, asOf, state, selected, alternates,
                 grant, archive, causal, hull, fifo, events, parity, revealed, log>>

Next ==
  \/ CreateState
  \/ \E q \in Queries : Select(q)
  \/ SelectRaises
  \/ PersistAction
  \/ RevealSelected
  \/ Admit
  \/ PersistReveal
  \/ PersistRaises
  \/ EndLoop

Spec == Init /\ [][Next]_vars

-------------------------------------------------------------------------------
(* Properties.                                                              *)

Reveals == {k \in 1..Len(log.records) : log.records[k].kind = "reveal"}

\* The pairs of the reveal records before record `k`.
RecordedBefore(k) == {log.records[j].pair : j \in Reveals \intersect 1..(k - 1)}

\* The variables have the shapes the code gives them; the evidence never
\* exceeds its capacity.
TypeOK ==
  /\ pc \in {"loop", "select", "append", "reveal", "admit", "record", "done"}
  /\ outcome \in {"none", "returned", "raised"}
  /\ budget \in Budgets /\ spent \in Nat /\ round \in 1..(Cardinality(Queries) + 1)
  /\ remaining \subseteq Queries
  /\ snapshot \in [Queries -> SUBSET Queries] /\ asOf \in [Queries -> Nat]
  /\ \A s \in {archive, hull, fifo, revealed} : ToSet(s) \subseteq Queries
  /\ Len(fifo) <= Capacity /\ Len(causal) = Len(archive)
  /\ log.pending \in 0..Len(log.records)

\* "causal": whether a discovery counts is judged against the hull of exactly
\* the outcomes recorded before it, neither its own nor a stale hull.
CausalOnTheRecord ==
  \A k \in Reveals :
    LET q == log.records[k].pair IN
    log.records[k].evidence.causal <=>
      Energy[q] - HullAt[RecordedBefore(k)][q] <= Threshold[q]

\* No outcome is revealed for a query whose hull holds a later observation:
\* outcomes enter the record in the order in which they were observed.
NothingFromTheFuture ==
  \A i, j \in 1..Len(revealed) : i < j => ObservedAt[revealed[i]] <= ObservedAt[revealed[j]]

\* The final counters of a run relate its three hulls: what the oracle confirms
\* was confirmed by the selected hull, and what that confirms was a discovery
\* when it was revealed, except within the tolerance of the final hulls.
ThreeHulls ==
  outcome = "returned" =>
    LET slack == {k \in 1..Len(archive) :
                    ~causal[k] /\ SelectedFinal(archive[k]) /\ Threshold[archive[k]] < FinalTol}
    IN  /\ result.confirmations = result.trueDiscoveries + result.falseConfirmations
        /\ result.discoveries - result.invalidations + Cardinality(slack) = result.confirmations

\* Discoveries are judged by the hull that the record shows, nothing enters it
\* from the future, and the counters of the three hulls agree at the end.
JudgedCausally == TypeOK /\ CausalOnTheRecord /\ NothingFromTheFuture /\ ThreeHulls

\* A log of which an interrupted run left any prefix replays exactly when no
\* action of it lacks its reveal, and then to the events of that many rounds.
PrefixReplays ==
  \A n \in 0..Len(log.records) :
    LET lines == SubSeq(log.records, 1, n) IN
    /\ ReplayPasses(lines, Universe \union ToSet(hull)) <=> n % 2 = 0
    /\ n % 2 = 0 => ReplayedEvents(lines) = SubSeq(events, 1, n \div 2)

Exchanged(lines, i, j) == [lines EXCEPT ![i] = lines[j], ![j] = lines[i]]
RoundLost(lines, k) == SubSeq(lines, 1, 2 * k - 2) \o SubSeq(lines, 2 * k + 1, Len(lines))

\* Round k was written by another run that made the same selections up to it
\* but had a larger budget.
Stitched(lines, k) ==
  LET before == [records |-> SubSeq(lines, 1, 2 * k - 2), pending |-> NoPending]
      pair   == ActionAt(lines, k).pair
      larger == [ActionAt(lines, k).state EXCEPT !.remaining = @ + 1]
      action == ActionRecord(before, k, pair, larger)
      reveal == RevealRecord(k, pair, action.digest, RevealAt(lines, k).evidence)
  IN  [lines EXCEPT ![2 * k - 1] = action, ![2 * k] = reveal]

Rounds == Len(log.records) \div 2

\* The lines of the log after one accident: a line or a round lost, two lines
\* exchanged, or a round before the last taken from another run.
Damaged ==
  {RemoveAt(log.records, i) : i \in 1..Len(log.records)}
  \union {Exchanged(log.records, i, j) : i, j \in 1..Len(log.records)}
  \union {RoundLost(log.records, k) : k \in 1..Rounds}
  \union {Stitched(log.records, k) : k \in 1..(Rounds - 1)}

\* A damaged log does not replay, unless what is left is the start of the run.
DamageIsRefused ==
  \A lines \in Damaged :
    ReplayPasses(lines, Universe \union ToSet(hull)) => IsPrefix(lines, log.records)

\* A log replays exactly as far as it was written by one run.
ReplayIsExact == PrefixReplays /\ DamageIsRefused
===============================================================================

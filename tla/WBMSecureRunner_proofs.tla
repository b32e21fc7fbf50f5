------------------------ MODULE WBMSecureRunner_proofs ------------------------
(***************************************************************************)
(* Proofs about WBMSecureRunner, for any queries, costs, budgets, universe *)
(* and hull that HullAssumption allows: every discovery is judged by the   *)
(* hull of the outcomes recorded before it, no outcome is older than one   *)
(* its query already knew, and the counters of the three hulls add up.     *)
(*                                                                         *)
(* The properties are about the log and the result, the code works on the  *)
(* snapshots of the queries that wait.  The invariant says that a snapshot *)
(* is the archive, and that the archive is the record except between a     *)
(* reveal and its record.                                                  *)
(*                                                                         *)
(* The replay of the log is judged by the rounds: a second invariant says  *)
(* which line is the action and which the reveal of a round, and that they *)
(* chain.                                                                  *)
(***************************************************************************)
EXTENDS FIFOEmulation, DataFacts, FiniteSetTheorems

Before(k) == {archive[i] : i \in 1..(k - 1)}
Recorded == {log.records[j].pair : j \in Reveals}

\* The queries that may still be revealed.
Waiting == remaining \union (IF pc = "reveal" THEN {selected} ELSE {})

Shape ==
  /\ archive \in Seq(Queries) /\ fifo \in Seq(Queries) /\ causal \in Seq(BOOLEAN)
  /\ hull = archive /\ revealed = archive
  /\ AnySeq(log.records)

\* What was selected is one of the queries that waited, and the rounds count
\* those that do no longer.
Chosen ==
  /\ pc = "select" => DOMAIN state.queries \subseteq remaining
  /\ pc = "append" => selected \in remaining
  /\ pc \in {"reveal", "admit", "record"} => selected \in Queries
  /\ round + Cardinality(remaining) <= Cardinality(Queries) + 1
  /\ pc \in {"reveal", "admit", "record"} =>
       round + Cardinality(remaining) <= Cardinality(Queries)

\* The snapshots of the waiting queries hold all that was revealed, and none
\* was observed after the query's own time.
Fresh ==
  \A q \in Waiting :
    /\ snapshot[q] = ToSet(archive)
    /\ \A i \in 1..Len(archive) : ObservedAt[archive[i]] <= asOf[q]

\* Every archived card was judged by the hull of those before it.
Judged ==
  \A k \in 1..Len(archive) :
    causal[k] <=>
      Energy[archive[k]] - HullAt[Before(k)][archive[k]] <= Threshold[archive[k]]

\* The log records what is archived, but for the card that is being recorded.
OnRecord ==
  /\ pc \in {"loop", "select", "append", "reveal"} => Recorded = ToSet(archive)
  /\ pc \in {"admit", "record"} =>
       /\ archive # <<>> /\ selected = archive[Len(archive)]
       /\ Recorded = Before(Len(archive))

Ended == outcome = "returned" => pc = "done" /\ UniverseCovers /\ result = Counted

IInv ==
  /\ TypeOK /\ Shape /\ Chosen /\ Fresh /\ Judged /\ OnRecord
  /\ CausalOnTheRecord /\ NothingFromTheFuture /\ Ended

-------------------------------------------------------------------------------
LEMMA ArchiveFacts ==
  ASSUME Shape
  PROVE  /\ Len(archive) \in Nat /\ ToSet(archive) \subseteq Queries
         /\ ToSet(archive) = {archive[i] : i \in 1..Len(archive)}
         /\ \A i \in 1..Len(archive) : archive[i] \in Queries
         /\ Reveals \subseteq 1..Len(log.records) /\ Len(log.records) \in Nat
<1>1. Len(archive) \in Nat /\ DOMAIN archive = 1..Len(archive)
  BY LenProperties DEF Shape
<1>2. \A i \in 1..Len(archive) : archive[i] \in Queries
  BY ElementOfSeq DEF Shape
<1>3. ToSet(archive) = {archive[i] : i \in 1..Len(archive)}
  BY <1>1 DEF ToSet
<1>4. ToSet(archive) \subseteq Queries
  BY <1>2, <1>3
<1>5. Len(log.records) \in Nat
  BY SeqIsAnySeq DEF Shape, AnySeq
<1> QED
  BY <1>1, <1>2, <1>3, <1>4, <1>5 DEF Reveals

LEMMA InitIInv == Init => IInv
<1> SUFFICES ASSUME Init
             PROVE  IInv
  OBVIOUS
<1>1. /\ archive = <<>> /\ hull = <<>> /\ revealed = <<>> /\ fifo = <<>> /\ causal = <<>>
      /\ log.records = <<>> /\ log.pending = 0
      /\ pc = "loop" /\ outcome = "none" /\ remaining = Queries /\ round = 1
      /\ budget \in Budgets /\ spent = 0
      /\ snapshot = [q \in Queries |-> {}] /\ asOf = AsOf
  BY DEF Init, EmptyLog, NoPending
<1>2. Shape
  BY <1>1, EmptySeq, EmptyFacts DEF Shape
<1>3. Cardinality(Queries) \in Nat
  BY WBMAssumption, FS_CardinalityType
<1>4. /\ Reveals = {} /\ Recorded = {}
      /\ Len(archive) = 0 /\ ToSet(archive) = {} /\ Len(log.records) = 0
  BY <1>1, EmptyFacts DEF Reveals, Recorded, ToSet
<1>5. TypeOK
  <2>1. \A t \in {archive, hull, fifo, revealed} : ToSet(t) \subseteq Queries
    BY <1>1, <1>4
  <2>2. Len(fifo) <= Capacity /\ Len(causal) = Len(archive)
    BY <1>1, EmptyFacts, WBMAssumption
  <2>3. round \in 1..(Cardinality(Queries) + 1) /\ log.pending \in 0..Len(log.records)
    BY <1>1, <1>3, <1>4
  <2>4. snapshot \in [Queries -> SUBSET Queries] /\ asOf \in [Queries -> Nat]
    BY <1>1, WBMAssumption
  <2> QED
    BY <1>1, <2>1, <2>2, <2>3, <2>4 DEF TypeOK
<1>6. Chosen
  BY <1>1, <1>3 DEF Chosen
<1>7. Fresh
  BY <1>1, <1>4 DEF Fresh, Waiting
<1>8. Judged /\ OnRecord /\ CausalOnTheRecord /\ NothingFromTheFuture /\ Ended
  BY <1>1, <1>4 DEF Judged, OnRecord, CausalOnTheRecord, NothingFromTheFuture, Ended
<1> QED
  BY <1>2, <1>5, <1>6, <1>7, <1>8 DEF IInv

\* A step that leaves what was revealed, judged and recorded alone: the policy's
\* side, the FIFO, a raise.
Frame ==
  UNCHANGED <<budget, spent, remaining, round, snapshot, asOf, archive, causal, hull,
              revealed, log>>

LEMMA FrameKeeps ==
  ASSUME IInv, Frame,
         pc' \in {"loop", "select", "append", "reveal", "admit", "record", "done"},
         outcome' \in {"none", "returned", "raised"},
         fifo' \in Seq(Queries), Len(fifo') <= Capacity,
         pc' = "select" => DOMAIN state'.queries \subseteq remaining,
         pc' = "append" => selected' \in remaining,
         pc' = "reveal" => pc = "reveal" /\ selected' = selected,
         pc' \in {"admit", "record"} => pc \in {"admit", "record"} /\ selected' = selected,
         pc' \in {"loop", "select", "append"} => pc \in {"loop", "select", "append"},
         Ended'
  PROVE  IInv'
<1>1. ToSet(fifo') \subseteq Queries
  BY LenProperties, ElementOfSeq DEF ToSet
<1>2. TypeOK'
  BY <1>1 DEF IInv, TypeOK, Frame, Shape
<1>3. Shape'
  BY DEF IInv, Shape, Frame
<1>4. Chosen'
  BY DEF IInv, Chosen, Frame
<1>5. Waiting' \subseteq Waiting
  BY DEF Waiting, Frame
<1>6. Fresh'
  BY <1>5 DEF IInv, Fresh, Frame
<1>7. Judged' /\ NothingFromTheFuture'
  BY DEF IInv, Judged, Before, NothingFromTheFuture, Frame
<1>8. OnRecord'
  <2>1. log' = log /\ archive' = archive
    BY DEF Frame
  <2>2. Reveals' = Reveals
    BY <2>1 DEF Reveals
  <2>3. Recorded' = Recorded /\ Before(Len(archive))' = Before(Len(archive))
    BY <2>1, <2>2 DEF Recorded, Before
  <2>4. pc \in {"loop", "select", "append", "reveal", "admit", "record", "done"}
    BY DEF IInv, TypeOK
  <2> HIDE DEF Recorded, Before
  <2> QED
    BY <2>1, <2>3, <2>4 DEF IInv, OnRecord
<1>9. CausalOnTheRecord'
  <2>1. log' = log
    BY DEF Frame
  <2>2. Reveals' = Reveals
    BY <2>1 DEF Reveals
  <2>3. ASSUME NEW k \in Reveals
        PROVE  RecordedBefore(k)' = RecordedBefore(k)
    BY <2>1, <2>2 DEF RecordedBefore
  <2> HIDE DEF RecordedBefore
  <2> QED
    BY <2>1, <2>2, <2>3 DEF IInv, CausalOnTheRecord
<1> QED
  BY <1>2, <1>3, <1>4, <1>6, <1>7, <1>8, <1>9 DEF IInv

LEMMA FifoFacts ==
  ASSUME IInv
  PROVE  fifo \in Seq(Queries) /\ Len(fifo) <= Capacity
  BY DEF IInv, Shape, TypeOK

LEMMA CreateStateIInv ==
  ASSUME IInv, CreateState
  PROVE  IInv'
<1>1. Frame /\ UNCHANGED fifo /\ pc = "loop"
  BY DEF CreateState, Frame
<1>2. CASE budget - spent < 0
  <2>1. pc' = "done" /\ outcome' = "raised"
    BY <1>2 DEF CreateState, Abort
  <2> QED
    BY <1>1, <2>1, FrameKeeps, FifoFacts DEF Ended
<1>3. CASE ~(budget - spent < 0)
  <2>1. pc' = "select" /\ outcome' = outcome /\ DOMAIN state'.queries = Affordable
    BY <1>3 DEF CreateState
  <2>2. Affordable \subseteq remaining
    BY DEF Affordable
  <2>3. outcome # "returned" /\ outcome \in {"none", "returned", "raised"}
    BY <1>1 DEF IInv, Ended, TypeOK
  <2> QED
    BY <1>1, <2>1, <2>2, <2>3, FrameKeeps, FifoFacts DEF Ended
<1> QED
  BY <1>2, <1>3

LEMMA SelectIInv ==
  ASSUME IInv, NEW id \in Queries, Select(id)
  PROVE  IInv'
<1>1. /\ Frame /\ UNCHANGED <<fifo, outcome>>
      /\ pc = "select" /\ pc' = "append" /\ selected' = id /\ id \in DOMAIN state.queries
  BY DEF Select, Frame
<1>2. id \in remaining
  BY <1>1 DEF IInv, Chosen
<1>3. outcome # "returned" /\ outcome \in {"none", "returned", "raised"}
  BY <1>1 DEF IInv, Ended, TypeOK
<1> QED
  BY <1>1, <1>2, <1>3, FrameKeeps, FifoFacts DEF Ended

LEMMA RaiseIInv ==
  ASSUME IInv, Frame, UNCHANGED fifo, Abort
  PROVE  IInv'
<1>1. pc' = "done" /\ outcome' = "raised"
  BY DEF Abort
<1> QED
  BY <1>1, FrameKeeps, FifoFacts DEF Ended

\* The FIFO drops its oldest card when one too many comes in.
LEMMA AdmittedFacts ==
  ASSUME IInv, selected \in Queries
  PROVE  Admitted(fifo, selected) \in Seq(Queries) /\ Len(Admitted(fifo, selected)) <= Capacity
<1> DEFINE longer == Append(fifo, selected)
<1>1. /\ longer \in Seq(Queries) /\ longer # <<>>
      /\ Len(longer) = Len(fifo) + 1 /\ Len(fifo) \in Nat
  BY AppendProperties, LenProperties DEF IInv, Shape
<1>2. Tail(longer) \in Seq(Queries) /\ Len(Tail(longer)) = Len(longer) - 1
  <2> HIDE DEF longer
  <2> QED
    BY <1>1, HeadTailProperties
<1>3. Len(fifo) <= Capacity /\ Capacity \in Nat
  BY WBMAssumption DEF IInv, TypeOK
<1> HIDE DEF longer
<1>4. Admitted(fifo, selected) = IF Len(fifo) + 1 > Capacity THEN Tail(longer) ELSE longer
  BY DEF Admitted, longer
<1> QED
  BY <1>1, <1>2, <1>3, <1>4

LEMMA AdmitIInv ==
  ASSUME IInv, Admit
  PROVE  IInv'
<1>1. /\ Frame /\ UNCHANGED <<selected, state>>
      /\ pc = "admit" /\ selected \in Queries
  BY DEF Admit, Frame, IInv, Chosen
<1>2. CASE Strategy = "persistent" /\ Contains(fifo, selected)
  <2>1. Abort /\ UNCHANGED fifo
    BY <1>2 DEF Admit
  <2> QED
    BY <1>1, <2>1, RaiseIInv
<1>3. CASE ~(Strategy = "persistent" /\ Contains(fifo, selected))
  <2>1. /\ fifo' = (IF Strategy = "persistent" THEN Admitted(fifo, selected) ELSE fifo)
        /\ pc' = "record" /\ outcome' = outcome
    BY <1>3 DEF Admit
  <2>2. fifo' \in Seq(Queries) /\ Len(fifo') <= Capacity
    BY <1>1, <2>1, AdmittedFacts, FifoFacts
  <2>3. outcome # "returned" /\ outcome \in {"none", "returned", "raised"}
    BY <1>1 DEF IInv, Ended, TypeOK
  <2> QED
    BY <1>1, <2>1, <2>2, <2>3, FrameKeeps DEF Ended
<1> QED
  BY <1>2, <1>3

LEMMA EndLoopIInv ==
  ASSUME IInv, EndLoop
  PROVE  IInv'
<1>1. Frame /\ UNCHANGED fifo /\ pc' = "done"
  BY DEF EndLoop, Frame
<1>2. CASE UniverseCovers
  <2>1. result' = Counted /\ outcome' = "returned"
    BY <1>2 DEF EndLoop
  <2>2. Counted' = Counted /\ UniverseCovers'
    BY <1>1, <1>2 DEF Counted, SelectedFinal, OracleFinal, UniverseCovers, Frame
  <2> QED
    BY <1>1, <2>1, <2>2, FrameKeeps, FifoFacts DEF Ended
<1>3. CASE ~UniverseCovers
  <2>1. outcome' = "raised"
    BY <1>3 DEF EndLoop
  <2> QED
    BY <1>1, <2>1, FrameKeeps, FifoFacts DEF Ended
<1> QED
  BY <1>2, <1>3

-------------------------------------------------------------------------------
\* A record is appended: what is recorded before the older records stays, and
\* all of it is recorded before the new one.
LEMMA LogGrows ==
  ASSUME Shape, NEW record, log'.records = Append(log.records, record)
  PROVE  /\ AnySeq(log'.records)
         /\ Len(log'.records) = Len(log.records) + 1 /\ Len(log.records) \in Nat
         /\ \A k \in 1..Len(log.records) : log'.records[k] = log.records[k]
         /\ log'.records[Len(log.records) + 1] = record
         /\ Reveals' = Reveals \union
              (IF record.kind = "reveal" THEN {Len(log.records) + 1} ELSE {})
         /\ \A k \in 1..(Len(log.records) + 1) : RecordedBefore(k)' = RecordedBefore(k)
         /\ RecordedBefore(Len(log.records) + 1) = Recorded
         /\ Recorded' = Recorded \union (IF record.kind = "reveal" THEN {record.pair} ELSE {})
<1> DEFINE n == Len(log.records)
<1>1. /\ AnySeq(log'.records) /\ Len(log'.records) = n + 1 /\ n \in Nat
      /\ \A k \in 1..n : log'.records[k] = log.records[k]
      /\ log'.records[n + 1] = record
  BY AppendFacts DEF Shape
<1>2. Reveals' = Reveals \union (IF record.kind = "reveal" THEN {n + 1} ELSE {})
  BY <1>1 DEF Reveals
<1>3. Reveals \subseteq 1..n
  BY DEF Reveals
<1>4. ASSUME NEW k \in 1..(n + 1)
      PROVE  /\ Reveals' \intersect 1..(k - 1) = Reveals \intersect 1..(k - 1)
             /\ \A j \in Reveals \intersect 1..(k - 1) : log'.records[j] = log.records[j]
  BY <1>1, <1>2, <1>3
<1>5. ASSUME NEW k \in 1..(n + 1)
      PROVE  RecordedBefore(k)' = RecordedBefore(k)
  BY <1>4 DEF RecordedBefore
<1>6. RecordedBefore(n + 1) = Recorded
  <2>1. (n + 1) - 1 = n
    BY <1>1
  <2>2. Reveals \intersect 1..((n + 1) - 1) = Reveals
    BY <1>3, <2>1
  <2> QED
    BY <2>2 DEF RecordedBefore, Recorded
<1>7. Recorded' = Recorded \union (IF record.kind = "reveal" THEN {record.pair} ELSE {})
  <2>1. \A j \in Reveals : log'.records[j] = log.records[j]
    BY <1>1, <1>3
  <2> QED
    BY <1>1, <1>2, <2>1 DEF Recorded
<1> QED
  BY <1>1, <1>2, <1>5, <1>6, <1>7

LEMMA PersistActionIInv ==
  ASSUME IInv, PersistAction
  PROVE  IInv'
<1> DEFINE record == ActionRecord(log, round, selected, state)
           n == Len(log.records)
<1>1. /\ pc = "append" /\ pc' = "reveal" /\ log' = WithAction(log, record)
      /\ remaining' = remaining \ {selected}
      /\ UNCHANGED <<outcome, budget, spent, round, snapshot, asOf, state, selected, archive,
                     causal, hull, fifo, revealed, result>>
  BY DEF PersistAction
<1>2. record.kind = "action"
  BY DEF ActionRecord
<1> HIDE DEF record
<1>3. log'.records = Append(log.records, record) /\ log'.pending = n + 1
  BY <1>1 DEF WithAction
<1>4. Shape
  BY DEF IInv
<1>5. /\ AnySeq(log'.records) /\ Len(log'.records) = n + 1 /\ n \in Nat
      /\ \A k \in 1..n : log'.records[k] = log.records[k]
      /\ Reveals' = Reveals /\ Recorded' = Recorded
      /\ \A k \in 1..(n + 1) : RecordedBefore(k)' = RecordedBefore(k)
  BY <1>2, <1>3, <1>4, LogGrows
<1>6. selected \in remaining /\ remaining \subseteq Queries
  BY <1>1 DEF IInv, Chosen, TypeOK
<1>7. Shape'
  BY <1>1, <1>4, <1>5 DEF Shape
<1>8. TypeOK'
  BY <1>1, <1>3, <1>5, <1>6 DEF IInv, TypeOK
<1>9. Chosen'
  <2>1. IsFiniteSet(remaining) /\ Cardinality(Queries) \in Nat
    BY <1>6, WBMAssumption, FS_Subset, FS_CardinalityType
  <2>2. Cardinality(remaining') = Cardinality(remaining) - 1 /\ Cardinality(remaining) \in Nat
    BY <1>1, <1>6, <2>1, FS_RemoveElement, FS_CardinalityType
  <2>3. round \in Nat
    BY <2>1 DEF IInv, TypeOK
  <2> QED
    BY <1>1, <1>6, <2>1, <2>2, <2>3 DEF IInv, Chosen
<1>10. Waiting' \subseteq Waiting
  BY <1>1, <1>6 DEF Waiting
<1>11. Fresh'
  BY <1>1, <1>10 DEF IInv, Fresh
<1>12. Judged' /\ NothingFromTheFuture'
  BY <1>1 DEF IInv, Judged, Before, NothingFromTheFuture
<1>13. OnRecord'
  BY <1>1, <1>5 DEF IInv, OnRecord
<1>14. CausalOnTheRecord'
  <2>1. Reveals \subseteq 1..n
    BY DEF Reveals
  <2> HIDE DEF RecordedBefore
  <2> QED
    BY <1>5, <2>1 DEF IInv, CausalOnTheRecord
<1>15. Ended'
  BY <1>1 DEF IInv, Ended
<1> QED
  BY <1>7, <1>8, <1>9, <1>11, <1>12, <1>13, <1>14, <1>15 DEF IInv

LEMMA PersistRevealIInv ==
  ASSUME IInv, PersistReveal
  PROVE  IInv'
<1> DEFINE evidence == [causal |-> Last(causal), active |-> Active(archive, fifo),
                        hull |-> hull, archive |-> archive]
           record == RevealRecord(round, selected, grant.digest, evidence)
           n == Len(log.records)
<1>1. /\ pc = "record" /\ pc' = "loop" /\ log' = WithReveal(log, record)
      /\ round' = round + 1
      /\ UNCHANGED <<outcome, budget, spent, remaining, snapshot, asOf, state, selected, archive,
                     causal, hull, fifo, revealed, result>>
  BY DEF PersistReveal
<1>2. record.kind = "reveal" /\ record.pair = selected /\ record.evidence.causal = Last(causal)
  BY DEF RevealRecord
<1> HIDE DEF record
<1>3. log'.records = Append(log.records, record) /\ log'.pending = 0
  BY <1>1 DEF WithReveal, NoPending
<1>4. Shape
  BY DEF IInv
<1>5. /\ AnySeq(log'.records) /\ Len(log'.records) = n + 1 /\ n \in Nat
      /\ \A k \in 1..n : log'.records[k] = log.records[k]
      /\ log'.records[n + 1] = record
      /\ Reveals' = Reveals \union {n + 1} /\ Recorded' = Recorded \union {selected}
      /\ \A k \in 1..(n + 1) : RecordedBefore(k)' = RecordedBefore(k)
      /\ RecordedBefore(n + 1) = Recorded
  BY <1>2, <1>3, <1>4, LogGrows
<1>6. /\ archive # <<>> /\ selected = archive[Len(archive)] /\ Recorded = Before(Len(archive))
      /\ Len(archive) \in Nat \ {0} /\ selected \in Queries
      /\ ToSet(archive) = {archive[i] : i \in 1..Len(archive)}
      /\ Last(causal) = causal[Len(archive)]
  <2>1. archive # <<>> /\ selected = archive[Len(archive)] /\ Recorded = Before(Len(archive))
    BY <1>1 DEF IInv, OnRecord
  <2>2. Len(archive) # 0
    BY <2>1, <1>4, EmptySeq DEF Shape
  <2> QED
    BY <1>1, <1>4, <2>1, <2>2, ArchiveFacts DEF IInv, Chosen, TypeOK, Last
<1>7. Shape'
  BY <1>1, <1>4, <1>5 DEF Shape
<1>8. /\ round + Cardinality(remaining) <= Cardinality(Queries)
      /\ round \in Nat \ {0} /\ Cardinality(remaining) \in Nat /\ Cardinality(Queries) \in Nat
  <2>1. IsFiniteSet(remaining) /\ Cardinality(Queries) \in Nat
    BY WBMAssumption, FS_Subset, FS_CardinalityType DEF IInv, TypeOK
  <2> QED
    BY <1>1, <2>1, FS_CardinalityType DEF IInv, Chosen, TypeOK
<1>9. TypeOK'
  <2>1. round' \in 1..(Cardinality(Queries) + 1) /\ log'.pending \in 0..Len(log'.records)
    BY <1>1, <1>3, <1>5, <1>8
  <2>2. TypeOK
    BY DEF IInv
  <2>3. pc' \in {"loop", "select", "append", "reveal", "admit", "record", "done"}
    BY <1>1
  <2> QED
    BY <1>1, <2>1, <2>2, <2>3 DEF TypeOK
<1>10. Chosen'
  BY <1>1, <1>8 DEF Chosen
<1>11. Fresh'
  BY <1>1 DEF IInv, Fresh, Waiting
<1>12. Judged' /\ NothingFromTheFuture'
  BY <1>1 DEF IInv, Judged, Before, NothingFromTheFuture
<1>13. OnRecord'
  <2>1. Recorded' = ToSet(archive)
    BY <1>5, <1>6 DEF Before
  <2> QED
    BY <1>1, <2>1 DEF OnRecord
<1>14. CausalOnTheRecord'
  <2>1. Reveals \subseteq 1..n
    BY DEF Reveals
  <2>2. causal[Len(archive)] <=>
          Energy[selected] - HullAt[Recorded][selected] <= Threshold[selected]
    BY <1>6 DEF IInv, Judged
  <2> HIDE DEF RecordedBefore
  <2>3. ASSUME NEW k \in Reveals
        PROVE  LET q == log'.records[k].pair IN
               log'.records[k].evidence.causal <=>
                 Energy[q] - HullAt[RecordedBefore(k)'][q] <= Threshold[q]
    <3>1. log'.records[k] = log.records[k] /\ RecordedBefore(k)' = RecordedBefore(k)
      BY <1>5, <2>1
    <3>2. CausalOnTheRecord
      BY DEF IInv
    <3> QED
      BY <3>1, <3>2 DEF CausalOnTheRecord
  <2>4. ASSUME NEW k, k = n + 1
        PROVE  LET q == log'.records[k].pair IN
               log'.records[k].evidence.causal <=>
                 Energy[q] - HullAt[RecordedBefore(k)'][q] <= Threshold[q]
    <3>1. k \in 1..(n + 1) /\ RecordedBefore(k) = Recorded
      BY <1>5, <2>4
    <3>2. RecordedBefore(k)' = Recorded
      BY <1>5, <3>1
    <3> QED
      BY <1>2, <1>5, <1>6, <2>2, <2>4, <3>2
  <2>5. \A k \in Reveals' :
          LET q == log'.records[k].pair IN
          log'.records[k].evidence.causal <=>
            Energy[q] - HullAt[RecordedBefore(k)'][q] <= Threshold[q]
    BY <1>5, <2>3, <2>4
  <2> QED
    BY <2>5 DEF CausalOnTheRecord
<1>15. Ended'
  BY <1>1 DEF IInv, Ended
<1> QED
  BY <1>7, <1>9, <1>10, <1>11, <1>12, <1>13, <1>14, <1>15 DEF IInv

-------------------------------------------------------------------------------
\* The outcome is added to the archive, and judged by the hull of the snapshot
\* that is the archive before it.
LEMMA RevealSelectedIInv ==
  ASSUME IInv, RevealSelected
  PROVE  IInv'
<1>1. /\ pc = "reveal"
      /\ UNCHANGED <<budget, remaining, round, state, selected, fifo, result, log>>
  BY DEF RevealSelected
<1>2. CASE ~VaultReveals(selected)
  <2>1. Abort /\ UNCHANGED <<revealed, spent, causal, archive, hull, snapshot, asOf>>
    BY <1>2 DEF RevealSelected
  <2> QED
    BY <1>1, <2>1, RaiseIInv DEF Frame
<1>3. CASE VaultReveals(selected)
  <2> DEFINE n == Len(archive)
             verdict == Energy[selected] - HullAt[snapshot[selected]][selected]
                          <= Threshold[selected]
  <2>1. /\ revealed' = Append(revealed, selected)
        /\ spent' = spent + Cost[selected]
        /\ causal' = Append(causal, verdict)
        /\ archive' = Append(archive, selected)
        /\ hull' = Append(hull, selected)
        /\ snapshot' = Refreshed(hull')
        /\ asOf' = [q \in Queries |-> IF q \in remaining THEN ObservedAt[selected] ELSE asOf[q]]
        /\ pc' = "admit" /\ outcome' = outcome
    BY <1>3 DEF RevealSelected
  <2>2. ObservedAt[selected] >= asOf[selected]
    BY <1>3 DEF VaultReveals
  <2>3. /\ selected \in Queries /\ selected \in Waiting
        /\ snapshot[selected] = ToSet(archive)
        /\ \A i \in 1..n : ObservedAt[archive[i]] <= asOf[selected]
    BY <1>1 DEF IInv, Chosen, Waiting, Fresh
  <2>4. Shape
    BY DEF IInv
  <2>5. /\ n \in Nat /\ ToSet(archive) \subseteq Queries
        /\ ToSet(archive) = {archive[i] : i \in 1..n}
        /\ \A i \in 1..n : archive[i] \in Queries
    BY <2>4, ArchiveFacts
  <2>6. /\ archive' \in Seq(Queries) /\ Len(archive') = n + 1
        /\ \A i \in 1..n : archive'[i] = archive[i]
        /\ archive'[n + 1] = selected /\ archive' # <<>>
        /\ hull' = archive' /\ revealed' = archive'
    BY <2>1, <2>3, <2>4, AppendProperties DEF Shape
  <2>7. /\ causal' \in Seq(BOOLEAN) /\ Len(causal') = n + 1
        /\ \A i \in 1..n : causal'[i] = causal[i]
        /\ causal'[n + 1] = verdict
    <3>1. causal \in Seq(BOOLEAN) /\ Len(causal) = n
      BY DEF IInv, Shape, TypeOK
    <3>2. verdict \in BOOLEAN
      OBVIOUS
    <3> HIDE DEF verdict
    <3>3. /\ Append(causal, verdict) \in Seq(BOOLEAN)
          /\ Len(Append(causal, verdict)) = Len(causal) + 1
          /\ \A i \in 1..Len(causal) : Append(causal, verdict)[i] = causal[i]
          /\ Append(causal, verdict)[Len(causal) + 1] = verdict
      BY <3>1, <3>2, AppendProperties
    <3> QED
      BY <2>1, <3>1, <3>3
  <2>8. Shape'
    BY <1>1, <2>4, <2>6, <2>7 DEF Shape
  <2>9. ToSet(archive') = {archive'[i] : i \in 1..(n + 1)} /\ ToSet(archive') \subseteq Queries
    <3>1. DOMAIN archive' = 1..(n + 1)
      BY <2>6, LenProperties
    <3>2. \A i \in 1..(n + 1) : archive'[i] \in Queries
      BY <2>6, ElementOfSeq
    <3> QED
      BY <3>1, <3>2 DEF ToSet
  <2>10. TypeOK'
    <3>1. spent' \in Nat
      <4>1. spent \in Nat /\ Cost[selected] \in Nat
        BY <2>3, WBMAssumption DEF IInv, TypeOK
      <4> QED
        BY <2>1, <4>1
    <3>2. snapshot' \in [Queries -> SUBSET Queries]
      <4>1. snapshot \in [Queries -> SUBSET Queries]
        BY DEF IInv, TypeOK
      <4>2. snapshot' = [q \in Queries |-> IF q \in remaining THEN ToSet(archive') ELSE snapshot[q]]
        BY <2>1, <2>6 DEF Refreshed
      <4> QED
        BY <2>9, <4>1, <4>2
    <3>3. asOf' \in [Queries -> Nat]
      BY <2>1, <2>3, WBMAssumption DEF IInv, TypeOK
    <3>4. \A t \in {archive', hull', fifo', revealed'} : ToSet(t) \subseteq Queries
      BY <1>1, <2>6, <2>9 DEF IInv, TypeOK
    <3>5. Len(causal') = Len(archive')
      BY <2>6, <2>7
    <3> QED
      BY <1>1, <2>1, <3>1, <3>2, <3>3, <3>4, <3>5 DEF IInv, TypeOK
  <2>11. Chosen'
    BY <1>1, <2>1, <2>3 DEF IInv, Chosen
  <2>12. Fresh'
    <3>1. Waiting' = remaining /\ remaining \subseteq Queries
      BY <1>1, <2>1 DEF Waiting, IInv, TypeOK
    <3>2. ASSUME NEW q \in remaining
          PROVE  snapshot'[q] = ToSet(archive') /\ asOf'[q] = ObservedAt[selected]
      BY <2>1, <2>6, <3>1 DEF Refreshed
    <3>3. ASSUME NEW i \in 1..(n + 1)
          PROVE  ObservedAt[archive'[i]] <= ObservedAt[selected]
      <4>1. asOf[selected] \in Nat /\ ObservedAt \in [Queries -> Nat]
        BY <2>3, WBMAssumption DEF IInv, TypeOK
      <4>2. CASE i \in 1..n
        BY <2>2, <2>3, <2>5, <2>6, <4>1, <4>2
      <4>3. CASE i = n + 1
        BY <2>3, <2>6, <4>1, <4>3
      <4> QED
        BY <2>5, <4>2, <4>3
    <3> QED
      BY <2>6, <3>1, <3>2, <3>3 DEF Fresh
  <2>13. Judged'
    <3> SUFFICES ASSUME NEW k \in 1..(n + 1)
                 PROVE  causal'[k] <=>
                          Energy[archive'[k]] - HullAt[{archive'[i] : i \in 1..(k - 1)}][archive'[k]]
                            <= Threshold[archive'[k]]
      BY <2>6 DEF Judged, Before
    <3>1. {archive'[i] : i \in 1..(k - 1)} = {archive[i] : i \in 1..(k - 1)}
      BY <2>5, <2>6
    <3>2. CASE k \in 1..n
      BY <2>6, <2>7, <3>1, <3>2 DEF IInv, Judged, Before
    <3>3. CASE k = n + 1
      <4>1. k - 1 = n
        BY <2>5, <3>3
      <4>2. {archive'[i] : i \in 1..(k - 1)} = snapshot[selected]
        BY <2>3, <2>5, <3>1, <4>1
      <4> QED
        BY <2>6, <2>7, <3>3, <4>2
    <3> QED
      BY <2>5, <3>2, <3>3
  <2>14. OnRecord'
    <3>1. Recorded' = ToSet(archive)
      BY <1>1 DEF IInv, OnRecord, Recorded, Reveals
    <3>2. {archive'[i] : i \in 1..((n + 1) - 1)} = ToSet(archive)
      BY <2>5, <2>6
    <3> QED
      BY <1>1, <2>1, <2>6, <3>1, <3>2 DEF OnRecord, Before
  <2>15. CausalOnTheRecord'
    <3>1. log' = log
      BY <1>1
    <3>2. Reveals' = Reveals
      BY <3>1 DEF Reveals
    <3>3. ASSUME NEW k \in Reveals
          PROVE  RecordedBefore(k)' = RecordedBefore(k)
      BY <3>1, <3>2 DEF RecordedBefore
    <3> HIDE DEF RecordedBefore
    <3> QED
      BY <3>1, <3>2, <3>3 DEF IInv, CausalOnTheRecord
  <2>16. NothingFromTheFuture'
    <3> SUFFICES ASSUME NEW i \in 1..(n + 1), NEW j \in 1..(n + 1), i < j
                 PROVE  ObservedAt[archive'[i]] <= ObservedAt[archive'[j]]
      BY <2>6 DEF NothingFromTheFuture
    <3>1. i \in 1..n
      BY <2>5
    <3>2. CASE j \in 1..n
      <4>1. ObservedAt[archive[i]] <= ObservedAt[archive[j]]
        BY <2>4, <3>1, <3>2 DEF IInv, NothingFromTheFuture, Shape
      <4> QED
        BY <2>6, <3>1, <3>2, <4>1
    <3>3. CASE j = n + 1
      <4>1. asOf[selected] \in Nat /\ ObservedAt \in [Queries -> Nat]
        BY <2>3, WBMAssumption DEF IInv, TypeOK
      <4> QED
        BY <2>2, <2>3, <2>5, <2>6, <3>1, <3>3, <4>1
    <3> QED
      BY <2>5, <3>2, <3>3
  <2>17. Ended'
    BY <1>1, <2>1 DEF IInv, Ended
  <2> QED
    BY <2>8, <2>10, <2>11, <2>12, <2>13, <2>14, <2>15, <2>16, <2>17 DEF IInv
<1> QED
  BY <1>2, <1>3

LEMMA NextIInv ==
  ASSUME IInv, [Next]_vars
  PROVE  IInv'
<1>1. ASSUME SelectRaises \/ PersistRaises
      PROVE  IInv'
  <2>1. Frame /\ UNCHANGED fifo /\ Abort
    BY <1>1 DEF SelectRaises, PersistRaises, Frame
  <2> QED
    BY <2>1, RaiseIInv
<1>2. CASE UNCHANGED vars
  <2>1. Frame /\ UNCHANGED <<pc, outcome, fifo, state, selected, result>>
    BY <1>2 DEF vars, Frame
  <2>2. Ended'
    BY <2>1 DEF IInv, Ended, Counted, SelectedFinal, OracleFinal, UniverseCovers, Frame
  <2>3. /\ pc \in {"loop", "select", "append", "reveal", "admit", "record", "done"}
        /\ outcome \in {"none", "returned", "raised"}
        /\ pc = "select" => DOMAIN state.queries \subseteq remaining
        /\ pc = "append" => selected \in remaining
    BY DEF IInv, TypeOK, Chosen
  <2> QED
    BY <2>1, <2>2, <2>3, FrameKeeps, FifoFacts
<1> QED
  BY <1>1, <1>2, CreateStateIInv, SelectIInv, PersistActionIInv, RevealSelectedIInv,
     AdmitIInv, PersistRevealIInv, EndLoopIInv DEF Next

\* The inductive invariant of the run.
THEOREM WBMInvariant == Spec => []IInv
<1>1. Init => IInv
  BY InitIInv
<1>2. IInv /\ [Next]_vars => IInv'
  BY NextIInv
<1> QED
  BY <1>1, <1>2, PTL DEF Spec

-------------------------------------------------------------------------------
LEMMA PartsAddUp ==
  ASSUME NEW S, IsFiniteSet(S), NEW T
  PROVE  /\ Cardinality(S) = Cardinality(S \intersect T) + Cardinality(S \ T)
         /\ Cardinality(S) \in Nat /\ Cardinality(S \intersect T) \in Nat
         /\ Cardinality(S \ T) \in Nat
<1>1. IsFiniteSet(S \intersect T) /\ IsFiniteSet(S \ T)
  BY FS_Subset
<1>2. S = (S \intersect T) \union (S \ T) /\ (S \intersect T) \intersect (S \ T) = {}
  OBVIOUS
<1>3. /\ Cardinality(S) \in Nat /\ Cardinality(S \intersect T) \in Nat
      /\ Cardinality(S \ T) \in Nat
  BY <1>1, FS_CardinalityType
<1>4. Cardinality((S \intersect T) \union (S \ T)) =
        Cardinality(S \intersect T) + Cardinality(S \ T)
        - Cardinality((S \intersect T) \intersect (S \ T))
  BY <1>1, FS_Union
<1>5. Cardinality((S \intersect T) \intersect (S \ T)) = 0
  BY <1>2, FS_EmptySet
<1> QED
  BY <1>2, <1>3, <1>4, <1>5

\* A larger hull is a lower hull: what the oracle's universe confirms the
\* selected hull confirms, and what the selected hull confirms was below the
\* threshold when it was judged, but for the tolerance.
LEMMA CountersAddUp ==
  ASSUME IInv
  PROVE  ThreeHulls
<1> SUFFICES ASSUME outcome = "returned"
             PROVE  ThreeHulls
  BY DEF ThreeHulls
<1> DEFINE cards == 1..Len(archive)
           discovered == {k \in cards : causal[k]}
           confirmed == {k \in cards : SelectedFinal(archive[k])}
           real == {k \in cards : OracleFinal(archive[k])}
           slack == {k \in cards : ~causal[k] /\ SelectedFinal(archive[k])
                                     /\ Threshold[archive[k]] < FinalTol}
           Phases == Queries \union Universe
<1>1. UniverseCovers /\ result = Counted
  BY DEF IInv, Ended
<1>2. /\ Shape /\ Len(archive) \in Nat /\ hull = archive
      /\ \A k \in cards : archive[k] \in Queries
      /\ ToSet(archive) = {archive[i] : i \in cards} /\ ToSet(archive) \subseteq Queries
  BY ArchiveFacts DEF IInv, Shape
<1>3. /\ \A S \in SUBSET Phases, q \in Queries : HullAt[S][q] \in Int
      /\ \A S, T \in SUBSET Phases, q \in Queries : S \subseteq T => HullAt[T][q] <= HullAt[S][q]
      /\ Energy \in [Queries -> Int] /\ Threshold \in [Queries -> Nat] /\ FinalTol \in Nat
  <2>1. HullAt \in [SUBSET Phases -> [Queries -> Int]]
    BY HullAssumption
  <2>2. \A S, T \in SUBSET Phases, q \in Queries : S \subseteq T => HullAt[T][q] <= HullAt[S][q]
    BY HullAssumption
  <2>3. \A S \in SUBSET Phases, q \in Queries : HullAt[S][q] \in Int
    BY <2>1
  <2> QED
    BY <2>2, <2>3, WBMAssumption
<1>4. real \subseteq confirmed
  <2> SUFFICES ASSUME NEW k \in cards, OracleFinal(archive[k])
               PROVE  SelectedFinal(archive[k])
    OBVIOUS
  <2> DEFINE q == archive[k]
  <2>1. q \in Queries /\ ToSet(hull) \subseteq Universe
    BY <1>1, <1>2 DEF UniverseCovers
  <2>2. ToSet(hull) \in SUBSET Phases /\ Universe \in SUBSET Phases
    BY <2>1
  <2>3. /\ HullAt[Universe][q] <= HullAt[ToSet(hull)][q] /\ HullAt[Universe][q] \in Int
        /\ HullAt[ToSet(hull)][q] \in Int /\ Energy[q] \in Int
    BY <1>3, <2>1, <2>2
  <2>4. Energy[q] - HullAt[Universe][q] <= FinalTol
    BY DEF OracleFinal
  <2>5. Energy[q] - HullAt[ToSet(hull)][q] <= FinalTol
    <3> HIDE DEF q
    <3> QED
      BY <1>3, <2>3, <2>4
  <2> QED
    BY <2>5 DEF SelectedFinal
<1>5. slack = confirmed \ discovered
  <2> SUFFICES ASSUME NEW k \in cards, ~causal[k], SelectedFinal(archive[k])
               PROVE  Threshold[archive[k]] < FinalTol
    OBVIOUS
  <2> DEFINE q == archive[k]
  <2>1. /\ q \in Queries /\ Before(k) \subseteq ToSet(hull)
        /\ Before(k) \in SUBSET Phases /\ ToSet(hull) \in SUBSET Phases
    BY <1>2 DEF Before
  <2>2. /\ HullAt[ToSet(hull)][q] <= HullAt[Before(k)][q] /\ HullAt[Before(k)][q] \in Int
        /\ HullAt[ToSet(hull)][q] \in Int /\ Energy[q] \in Int /\ Threshold[q] \in Nat
    BY <1>3, <2>1
  <2>3. ~(Energy[q] - HullAt[Before(k)][q] <= Threshold[q])
    BY DEF IInv, Judged
  <2>4. Energy[q] - HullAt[ToSet(hull)][q] <= FinalTol
    BY DEF SelectedFinal
  <2> HIDE DEF q
  <2>5. Threshold[q] < FinalTol
    BY <1>3, <2>2, <2>3, <2>4
  <2> QED
    BY <2>5 DEF q
<1>6. IsFiniteSet(discovered) /\ IsFiniteSet(confirmed) /\ IsFiniteSet(real)
  <2>1. IsFiniteSet(cards)
    BY <1>2, FS_Interval
  <2> QED
    BY <2>1, FS_Subset
<1>7. /\ result.confirmations = Cardinality(confirmed)
      /\ result.discoveries = Cardinality(discovered)
      /\ result.invalidations = Cardinality(discovered \ confirmed)
      /\ result.trueDiscoveries = Cardinality(real)
      /\ result.falseConfirmations = Cardinality(confirmed \ real)
  BY <1>1 DEF Counted
<1> HIDE DEF discovered, confirmed, real
<1>8. Cardinality(confirmed) = Cardinality(real) + Cardinality(confirmed \ real)
  <2>1. confirmed \intersect real = real
    BY <1>4
  <2> QED
    BY <1>6, <2>1, PartsAddUp
<1>9. Cardinality(discovered) - Cardinality(discovered \ confirmed)
        + Cardinality(confirmed \ discovered) = Cardinality(confirmed)
  <2>1. confirmed \intersect discovered = discovered \intersect confirmed
    OBVIOUS
  <2>2. /\ Cardinality(discovered) = Cardinality(discovered \intersect confirmed)
                                      + Cardinality(discovered \ confirmed)
        /\ Cardinality(confirmed) = Cardinality(discovered \intersect confirmed)
                                     + Cardinality(confirmed \ discovered)
        /\ Cardinality(discovered \ confirmed) \in Nat /\ Cardinality(discovered) \in Nat
        /\ Cardinality(confirmed \ discovered) \in Nat /\ Cardinality(confirmed) \in Nat
        /\ Cardinality(discovered \intersect confirmed) \in Nat
    BY <1>6, <2>1, PartsAddUp
  <2> QED
    BY <2>2
<1> QED
  BY <1>5, <1>7, <1>8, <1>9 DEF ThreeHulls

\* Discoveries are judged by the hull of what was recorded before them, no
\* outcome enters a hull before it was observed, and the counters of the three
\* hulls add up, for any queries and any hull that only sinks as it grows.
THEOREM RunsAreJudgedCausally == Spec => []JudgedCausally
<1>1. IInv => JudgedCausally
  BY CountersAddUp DEF IInv, JudgedCausally
<1> QED
  BY <1>1, WBMInvariant, PTL

-------------------------------------------------------------------------------
(* The replay.  The log is a sequence of rounds: an action at every odd line,   *)
(* chained to the reveal before it, and at every even line its reveal.          *)

Lines == Len(log.records)

\* Line 2k - 1 is the action of round k.
IsAction(k) ==
  LET action == ActionAt(log.records, k) IN
  /\ action.kind = "action" /\ action.round = k
  /\ action.previous = (IF k = 1 THEN NoDigest ELSE RevealAt(log.records, k - 1).digest)
  /\ action.digest = Digest([round |-> action.round, pair |-> action.pair,
                             state |-> action.state, previous |-> action.previous])
  /\ "remaining" \in DOMAIN action.state /\ action.state.remaining \in Nat

\* Line 2k is its reveal, of the k-th archived card; the k-th event is the same.
IsReveal(k) ==
  LET action == ActionAt(log.records, k)
      reveal == RevealAt(log.records, k)
  IN
  /\ reveal.kind = "reveal" /\ reveal.round = k
  /\ reveal.pair = action.pair /\ reveal.action = action.digest
  /\ reveal.digest = Digest([round |-> reveal.round, pair |-> reveal.pair,
                             action |-> reveal.action, evidence |-> reveal.evidence])
  /\ action.pair = archive[k]
  /\ reveal.evidence.hull = [i \in 1..k |-> archive[i]]
  /\ events[k] = [round |-> k, pair |-> archive[k], evidence |-> reveal.evidence]

\* Where run() is says how many lines and events there are, and what the round is.
Written ==
  /\ Lines <= 2 * Len(archive) + 1
  /\ pc \in {"loop", "select", "append"} =>
       Lines = 2 * Len(archive) /\ round = Len(archive) + 1
  /\ pc = "reveal" => Lines = 2 * Len(archive) + 1 /\ round = Len(archive) + 1
  /\ pc \in {"admit", "record"} => Lines = 2 * Len(archive) - 1 /\ round = Len(archive)
  /\ pc \in {"reveal", "admit", "record"} => log.pending = Lines
  /\ pc \in {"select", "append"} => "remaining" \in DOMAIN state /\ state.remaining \in Nat
  /\ AnySeq(events) /\ Len(events) = Lines \div 2

Distinct == \A i, j \in 1..Len(archive) : archive[i] = archive[j] => i = j

ByRounds ==
  \A k \in Nat \ {0} :
    /\ 2 * k - 1 <= Lines => IsAction(k)
    /\ 2 * k <= Lines => IsReveal(k)

ReplayInv == Written /\ Distinct /\ ByRounds

\* What a reveal record and an event are about does not change when the log,
\* the archive and the events only grow.
LEMMA RoundsStay ==
  ASSUME IInv, ReplayInv, NEW k \in Nat \ {0}, Lines \in Nat, Len(archive) \in Nat,
         \A j \in 1..Lines : log'.records[j] = log.records[j],
         \A j \in 1..Len(archive) : archive'[j] = archive[j],
         \A j \in 1..Len(events) : events'[j] = events[j]
  PROVE  /\ 2 * k - 1 <= Lines => IsAction(k)'
         /\ 2 * k <= Lines => IsReveal(k)'
<1>1. ASSUME 2 * k - 1 <= Lines
      PROVE  IsAction(k)'
  <2>1. ActionAt(log'.records, k) = ActionAt(log.records, k)
    BY <1>1 DEF ActionAt
  <2>2. k # 1 => RevealAt(log'.records, k - 1) = RevealAt(log.records, k - 1)
    BY <1>1 DEF RevealAt
  <2>3. IsAction(k)
    BY <1>1 DEF ReplayInv, ByRounds
  <2> QED
    BY <2>1, <2>2, <2>3 DEF IsAction
<1>2. ASSUME 2 * k <= Lines
      PROVE  IsReveal(k)'
  <2>1. /\ ActionAt(log'.records, k) = ActionAt(log.records, k)
        /\ RevealAt(log'.records, k) = RevealAt(log.records, k)
    BY <1>2 DEF ActionAt, RevealAt
  <2>2. IsReveal(k)
    BY <1>2 DEF ReplayInv, ByRounds
  <2>3. k <= Len(archive) /\ k \in 1..Len(events)
    BY <1>2 DEF ReplayInv, Written
  <2>4. archive'[k] = archive[k] /\ events'[k] = events[k]
    BY <2>3
  <2>5. [i \in 1..k |-> archive'[i]] = [i \in 1..k |-> archive[i]]
    BY <2>3
  <2> QED
    BY <2>1, <2>2, <2>4, <2>5 DEF IsReveal
<1> QED
  BY <1>1, <1>2

LEMMA LineFacts ==
  ASSUME IInv
  PROVE  Lines \in Nat /\ Len(archive) \in Nat /\ AnySeq(log.records)
  BY ArchiveFacts DEF IInv, Lines, Shape

LEMMA InitReplay == Init => ReplayInv
<1> SUFFICES ASSUME Init
             PROVE  ReplayInv
  OBVIOUS
<1>1. /\ archive = <<>> /\ log.records = <<>> /\ events = <<>> /\ pc = "loop" /\ round = 1
  BY DEF Init, EmptyLog
<1>2. Lines = 0 /\ Len(archive) = 0 /\ Len(events) = 0 /\ AnySeq(events)
  BY <1>1, EmptyFacts DEF Lines
<1> QED
  BY <1>1, <1>2 DEF ReplayInv, Written, Distinct, ByRounds

\* A step that writes nothing and reveals nothing.
LEMMA QuietKeepsReplay ==
  ASSUME IInv, ReplayInv, UNCHANGED <<log, archive, events, round>>,
         pc' = "loop" => pc = "loop",
         pc' \in {"select", "append"} =>
           /\ pc \in {"loop", "select", "append"}
           /\ "remaining" \in DOMAIN state' /\ state'.remaining \in Nat,
         pc' = "reveal" => pc = "reveal",
         pc' \in {"admit", "record"} => pc \in {"admit", "record"}
  PROVE  ReplayInv'
<1>1. Lines' = Lines /\ Lines \in Nat /\ Len(archive) \in Nat
  BY LineFacts DEF Lines
<1>2. Written'
  BY <1>1 DEF ReplayInv, Written
<1>3. Distinct'
  BY DEF ReplayInv, Distinct
<1>4. ByRounds'
  BY <1>1, RoundsStay DEF ByRounds
<1> QED
  BY <1>2, <1>3, <1>4 DEF ReplayInv

LEMMA PersistActionReplay ==
  ASSUME IInv, ReplayInv, PersistAction
  PROVE  ReplayInv'
<1> DEFINE record == ActionRecord(log, round, selected, state)
           L == Len(archive)
<1>1. /\ pc = "append" /\ pc' = "reveal" /\ log' = WithAction(log, record)
      /\ UNCHANGED <<round, archive, events>>
  BY DEF PersistAction
<1>2. /\ record.kind = "action" /\ record.round = round /\ record.state = state
      /\ record.previous = ChainHead(log)
      /\ record.digest = Digest([round |-> record.round, pair |-> record.pair,
                                 state |-> record.state, previous |-> record.previous])
  BY DEF ActionRecord
<1> HIDE DEF record
<1>3. log'.records = Append(log.records, record) /\ log'.pending = Lines + 1
  BY <1>1 DEF WithAction, Lines
<1>4. Lines \in Nat /\ L \in Nat /\ AnySeq(log.records)
  BY LineFacts
<1>5. /\ Lines' = Lines + 1
      /\ \A j \in 1..Lines : log'.records[j] = log.records[j]
      /\ log'.records[Lines + 1] = record
  BY <1>3, <1>4, AppendFacts DEF Lines
<1>6. /\ Lines = 2 * L /\ round = L + 1
      /\ "remaining" \in DOMAIN state /\ state.remaining \in Nat
  BY <1>1 DEF ReplayInv, Written
<1>7. Written'
  <2>1. Lines' \div 2 = Lines \div 2
    BY <1>4, <1>5, <1>6
  <2> QED
    BY <1>1, <1>3, <1>4, <1>5, <1>6, <2>1 DEF ReplayInv, Written
<1>8. Distinct'
  BY <1>1 DEF ReplayInv, Distinct
<1>9. ByRounds'
  <2> SUFFICES ASSUME NEW k \in Nat \ {0}
               PROVE  (2 * k - 1 <= Lines' => IsAction(k)') /\ (2 * k <= Lines' => IsReveal(k)')
    BY DEF ByRounds
  <2>1. /\ 2 * k - 1 <= Lines => IsAction(k)'
        /\ 2 * k <= Lines => IsReveal(k)'
    BY <1>1, <1>4, <1>5, RoundsStay
  <2>2. CASE k = L + 1
    <3>1. ActionAt(log'.records, k) = record /\ record.round = k
      BY <1>2, <1>4, <1>5, <1>6, <2>2 DEF ActionAt
    <3>2. record.previous = (IF k = 1 THEN NoDigest ELSE RevealAt(log'.records, k - 1).digest)
      <4>1. CASE k = 1
        <5>1. Len(log.records) = 0
          BY <1>4, <1>6, <2>2, <4>1 DEF Lines
        <5>2. log.records = <<>>
          BY <1>4, <5>1, EmptySeq DEF AnySeq
        <5> QED
          BY <1>2, <4>1, <5>2 DEF ChainHead
      <4>2. CASE k # 1
        <5>1. Lines # 0 /\ Lines = 2 * (k - 1) /\ Lines \in 1..Lines
          BY <1>4, <1>6, <2>2, <4>2
        <5>2. log.records # <<>>
          BY <5>1, EmptyFacts DEF Lines
        <5>3. ChainHead(log) = log.records[Lines].digest
          BY <5>2 DEF ChainHead, Lines
        <5>4. RevealAt(log'.records, k - 1) = log.records[Lines]
          BY <1>5, <5>1 DEF RevealAt
        <5> QED
          BY <1>2, <4>2, <5>3, <5>4
      <4> QED
        BY <4>1, <4>2
    <3>3. IsAction(k)'
      BY <1>2, <1>6, <3>1, <3>2 DEF IsAction
    <3>4. ~(2 * k <= Lines')
      BY <1>4, <1>5, <1>6, <2>2
    <3> QED
      BY <3>3, <3>4
  <2>3. CASE k # L + 1
    <3>1. (2 * k - 1 <= Lines' => 2 * k - 1 <= Lines) /\ (2 * k <= Lines' => 2 * k <= Lines)
      BY <1>4, <1>5, <1>6, <2>3
    <3> QED
      BY <2>1, <3>1
  <2> QED
    BY <2>2, <2>3
<1> QED
  BY <1>7, <1>8, <1>9 DEF ReplayInv

LEMMA RevealSelectedReplay ==
  ASSUME IInv, ReplayInv, RevealSelected
  PROVE  ReplayInv'
<1>1. pc = "reveal" /\ UNCHANGED <<round, events, log>>
  BY DEF RevealSelected
<1>2. CASE ~VaultReveals(selected)
  <2>1. Abort /\ UNCHANGED archive
    BY <1>2 DEF RevealSelected
  <2> QED
    BY <1>1, <2>1, QuietKeepsReplay DEF Abort
<1>3. CASE VaultReveals(selected)
  <2> DEFINE L == Len(archive)
  <2>1. /\ archive' = Append(archive, selected) /\ pc' = "admit"
        /\ ~Contains(archive, selected)
    BY <1>3 DEF RevealSelected, VaultReveals, IInv, Shape
  <2>2. Lines \in Nat /\ L \in Nat /\ Lines' = Lines
    BY <1>1, LineFacts DEF Lines
  <2>3. archive \in Seq(Queries) /\ selected \in Queries
    BY <1>1 DEF IInv, Shape, Chosen
  <2>4. /\ Len(archive') = L + 1 /\ archive'[L + 1] = selected
        /\ \A j \in 1..L : archive'[j] = archive[j]
    BY <2>1, <2>3, AppendProperties
  <2>5. Written'
    BY <1>1, <2>1, <2>2, <2>4 DEF ReplayInv, Written
  <2>6. Distinct'
    <3>1. \A j \in 1..L : archive[j] # selected
      BY <2>1 DEF Contains
    <3> QED
      BY <2>2, <2>4, <3>1 DEF ReplayInv, Distinct
  <2>7. ByRounds'
    BY <1>1, <2>2, <2>4, RoundsStay DEF ByRounds
  <2> QED
    BY <2>5, <2>6, <2>7 DEF ReplayInv
<1> QED
  BY <1>2, <1>3

LEMMA PersistRevealReplay ==
  ASSUME IInv, ReplayInv, PersistReveal
  PROVE  ReplayInv'
<1> DEFINE evidence == [causal |-> Last(causal), active |-> Active(archive, fifo),
                        hull |-> hull, archive |-> archive]
           record == RevealRecord(round, selected, grant.digest, evidence)
           event == [round |-> round, pair |-> selected, evidence |-> evidence]
           L == Len(archive)
<1>1. /\ pc = "record" /\ pc' = "loop" /\ log' = WithReveal(log, record)
      /\ events' = Append(events, event) /\ round' = round + 1
      /\ UNCHANGED archive /\ RevealMatchesAction
  BY DEF PersistReveal
<1>2. /\ record.kind = "reveal" /\ record.round = round /\ record.pair = selected
      /\ record.action = grant.digest /\ record.evidence = evidence
      /\ record.digest = Digest([round |-> record.round, pair |-> record.pair,
                                 action |-> record.action, evidence |-> record.evidence])
      /\ event = [round |-> round, pair |-> selected, evidence |-> record.evidence]
  BY DEF RevealRecord
<1>3. evidence.hull = archive
  BY DEF IInv, Shape
<1> HIDE DEF record, evidence, event
<1>4. log'.records = Append(log.records, record)
  BY <1>1 DEF WithReveal
<1>5. Lines \in Nat /\ L \in Nat /\ AnySeq(log.records)
  BY LineFacts
<1>6. /\ Lines' = Lines + 1
      /\ \A j \in 1..Lines : log'.records[j] = log.records[j]
      /\ log'.records[Lines + 1] = record
  BY <1>4, <1>5, AppendFacts DEF Lines
<1>7. /\ Lines = 2 * L - 1 /\ round = L /\ log.pending = Lines /\ L # 0
      /\ Len(events) = Lines \div 2 /\ AnySeq(events)
  BY <1>1, <1>5 DEF ReplayInv, Written
<1>8. selected = archive[L]
  BY <1>1 DEF IInv, OnRecord
<1>9. /\ log.records[Lines].round = round /\ log.records[Lines].pair = selected
      /\ log.records[Lines].digest = grant.digest
  BY <1>1, <1>7 DEF RevealMatchesAction, MayAppendReveal
<1>10. /\ AnySeq(events') /\ Len(events') = Len(events) + 1 /\ events'[Len(events) + 1] = event
       /\ \A j \in 1..Len(events) : events'[j] = events[j]
       /\ Len(events) + 1 = L
  <2>1. (2 * L - 1) \div 2 = L - 1
    BY <1>5
  <2> QED
    BY <1>1, <1>5, <1>7, <2>1, AppendFacts
<1>11. Written'
  <2>1. Lines' = 2 * L /\ Len(events') = Lines' \div 2
    BY <1>5, <1>6, <1>7, <1>10
  <2> QED
    BY <1>1, <1>5, <1>7, <1>10, <2>1 DEF Written
<1>12. Distinct'
  BY <1>1 DEF ReplayInv, Distinct
<1>13. ByRounds'
  <2> SUFFICES ASSUME NEW k \in Nat \ {0}
               PROVE  (2 * k - 1 <= Lines' => IsAction(k)') /\ (2 * k <= Lines' => IsReveal(k)')
    BY DEF ByRounds
  <2>1. /\ 2 * k - 1 <= Lines => IsAction(k)'
        /\ 2 * k <= Lines => IsReveal(k)'
    BY <1>1, <1>5, <1>6, <1>10, RoundsStay
  <2>2. CASE k = L
    <3>1. RevealAt(log'.records, k) = record /\ ActionAt(log'.records, k) = log.records[Lines]
      <4>1. 2 * k = Lines + 1 /\ 2 * k - 1 = Lines /\ Lines \in 1..Lines
        BY <1>5, <1>7, <2>2
      <4> QED
        BY <1>6, <4>1 DEF RevealAt, ActionAt
    <3>2. archive = [i \in 1..k |-> archive[i]]
      BY <2>2, LenProperties DEF IInv, Shape
    <3>3. record.evidence.hull = [i \in 1..k |-> archive'[i]]
      BY <1>1, <1>2, <1>3, <3>2
    <3>4. events'[k] = [round |-> k, pair |-> archive'[k], evidence |-> record.evidence]
      BY <1>1, <1>2, <1>7, <1>8, <1>10, <2>2
    <3>5. /\ record.kind = "reveal" /\ record.round = k
          /\ record.pair = log.records[Lines].pair /\ record.action = log.records[Lines].digest
          /\ log.records[Lines].pair = archive'[k]
      BY <1>1, <1>2, <1>7, <1>8, <1>9, <2>2
    <3>6. IsReveal(k)'
      BY <1>2, <3>1, <3>3, <3>4, <3>5 DEF IsReveal
    <3>7. 2 * k - 1 <= Lines
      BY <1>5, <1>7, <2>2
    <3> QED
      BY <2>1, <3>6, <3>7
  <2>3. CASE k # L
    <3>1. (2 * k - 1 <= Lines' => 2 * k - 1 <= Lines) /\ (2 * k <= Lines' => 2 * k <= Lines)
      BY <1>5, <1>6, <1>7, <2>3
    <3> QED
      BY <2>1, <3>1
  <2> QED
    BY <2>2, <2>3
<1> QED
  BY <1>11, <1>12, <1>13 DEF ReplayInv

LEMMA NextReplay ==
  ASSUME IInv, ReplayInv, [Next]_vars
  PROVE  ReplayInv'
<1>1. CASE CreateState
  <2>1. UNCHANGED <<log, archive, events, round>> /\ pc = "loop"
    BY <1>1 DEF CreateState
  <2>2. CASE budget - spent < 0
    BY <1>1, <2>1, <2>2, QuietKeepsReplay DEF CreateState, Abort
  <2>3. CASE ~(budget - spent < 0)
    <3>1. pc' = "select" /\ "remaining" \in DOMAIN state' /\ state'.remaining = budget - spent
      BY <1>1, <2>3 DEF CreateState
    <3>2. budget - spent \in Nat
      BY <2>3, WBMAssumption DEF IInv, TypeOK
    <3> QED
      BY <2>1, <3>1, <3>2, QuietKeepsReplay
  <2> QED
    BY <2>2, <2>3
<1>2. ASSUME NEW q \in Queries, Select(q)
      PROVE  ReplayInv'
  <2>1. /\ UNCHANGED <<log, archive, events, round, state>> /\ pc = "select" /\ pc' = "append"
    BY <1>2 DEF Select
  <2>2. "remaining" \in DOMAIN state /\ state.remaining \in Nat
    BY <2>1 DEF ReplayInv, Written
  <2> QED
    BY <2>1, <2>2, QuietKeepsReplay
<1>3. CASE SelectRaises \/ PersistRaises \/ EndLoop
  <2>1. UNCHANGED <<log, archive, events, round>> /\ pc' = "done"
    BY <1>3 DEF SelectRaises, PersistRaises, EndLoop, Abort
  <2> QED
    BY <2>1, QuietKeepsReplay
<1>4. CASE Admit
  <2>1. UNCHANGED <<log, archive, events, round>> /\ pc = "admit" /\ pc' \in {"done", "record"}
    BY <1>4 DEF Admit, Abort
  <2> QED
    BY <2>1, QuietKeepsReplay
<1>5. CASE UNCHANGED vars
  <2>1. UNCHANGED <<log, archive, events, round, pc, state>>
    BY <1>5 DEF vars
  <2>2. pc \in {"select", "append"} => "remaining" \in DOMAIN state /\ state.remaining \in Nat
    BY DEF ReplayInv, Written
  <2> QED
    BY <2>1, <2>2, QuietKeepsReplay
<1> QED
  BY <1>1, <1>2, <1>3, <1>4, <1>5, PersistActionReplay, RevealSelectedReplay,
     PersistRevealReplay DEF Next

\* The inductive invariant of the rounds on the log.
THEOREM LogIsWrittenByRounds == Spec => []ReplayInv
<1>1. Init => ReplayInv
  BY InitReplay
<1>2. IInv /\ ReplayInv /\ [Next]_vars => ReplayInv'
  BY NextReplay
<1> QED
  BY <1>1, <1>2, WBMInvariant, PTL DEF Spec

-------------------------------------------------------------------------------
\* The hull replayed from lines that start as the log does is the archive.
LEMMA ReplayedHullFacts ==
  ASSUME IInv, ReplayInv, NEW lines, NEW k \in Nat, 2 * k <= Lines,
         \A j \in 1..(2 * k) : lines[j] = log.records[j]
  PROVE  /\ ReplayedHull(lines, k) = [i \in 1..k |-> archive[i]]
         /\ Len(ReplayedHull(lines, k)) = k /\ k <= Len(archive)
<1> DEFINE phases == [i \in 1..k |-> archive[i]]
<1>1. Lines \in Nat /\ Len(archive) \in Nat /\ k <= Len(archive)
  BY LineFacts DEF ReplayInv, Written
<1>2. ASSUME NEW i \in 1..k
      PROVE  ActionAt(lines, i).pair = archive[i]
  <2>1. IsReveal(i) /\ ActionAt(lines, i) = ActionAt(log.records, i)
    BY <1>1 DEF ReplayInv, ByRounds, ActionAt
  <2> QED
    BY <2>1 DEF IsReveal
<1>3. ReplayedHull(lines, k) = phases
  BY <1>2 DEF ReplayedHull
<1>4. phases \in [1..k -> Queries]
  BY <1>1, ElementOfSeq DEF IInv, Shape
<1>5. phases \in Seq(Queries) /\ DOMAIN phases = 1..k
  BY <1>4, SeqDef
<1> HIDE DEF phases
<1>6. Len(phases) \in Nat /\ 1..Len(phases) = 1..k
  BY <1>5, LenProperties
<1>7. Len(phases) = k
  BY <1>6
<1> QED
  BY <1>1, <1>3, <1>7 DEF phases

\* Round k of lines that start as the log does replays.
LEMMA RoundReplays ==
  ASSUME IInv, ReplayInv, NEW lines, NEW k \in Nat \ {0}, 2 * k <= Lines,
         \A j \in 1..(2 * k) : lines[j] = log.records[j]
  PROVE  /\ ActionReplays(lines, k)
         /\ RevealReplays(lines, Universe \union ToSet(hull), k)
         /\ events[k] = [round |-> k, pair |-> ActionAt(lines, k).pair,
                         evidence |-> RevealAt(lines, k).evidence]
<1>1. Lines \in Nat /\ Len(archive) \in Nat
  BY LineFacts
<1>2. IsAction(k) /\ IsReveal(k)
  BY <1>1 DEF ReplayInv, ByRounds
<1>3. /\ ActionAt(lines, k) = ActionAt(log.records, k)
      /\ RevealAt(lines, k) = RevealAt(log.records, k)
      /\ k # 1 => RevealAt(lines, k - 1) = RevealAt(log.records, k - 1)
  BY DEF ActionAt, RevealAt
<1>4. ActionReplays(lines, k)
  BY <1>2, <1>3 DEF IsAction, ActionReplays
<1>5. ReplayedHull(lines, k) = [i \in 1..k |-> archive[i]] /\ k <= Len(archive)
  BY ReplayedHullFacts
<1>6. /\ ReplayedHull(lines, k - 1) = [i \in 1..(k - 1) |-> archive[i]]
      /\ Len(ReplayedHull(lines, k - 1)) = k - 1
  <2>1. k - 1 \in Nat /\ 2 * (k - 1) <= Lines
    BY <1>1
  <2>2. \A j \in 1..(2 * (k - 1)) : lines[j] = log.records[j]
    OBVIOUS
  <2> QED
    BY <2>1, <2>2, ReplayedHullFacts
<1>7. archive[k] \in Universe \union ToSet(hull)
  BY <1>1, <1>5, ArchiveFacts DEF IInv, Shape
<1>8. ~Contains(ReplayedHull(lines, k - 1), archive[k])
  BY <1>1, <1>5, <1>6 DEF Contains, ReplayInv, Distinct
<1>9. RevealReplays(lines, Universe \union ToSet(hull), k)
  BY <1>2, <1>3, <1>5, <1>7, <1>8 DEF IsReveal, IsAction, RevealReplays
<1> QED
  BY <1>2, <1>3, <1>4, <1>9 DEF IsReveal

LEMMA PrefixesReplay ==
  ASSUME IInv, ReplayInv
  PROVE  PrefixReplays
<1> SUFFICES ASSUME NEW n \in 0..Len(log.records)
             PROVE  LET lines == SubSeq(log.records, 1, n) IN
                    /\ ReplayPasses(lines, Universe \union ToSet(hull)) <=> n % 2 = 0
                    /\ n % 2 = 0 => ReplayedEvents(lines) = SubSeq(events, 1, n \div 2)
  BY DEF PrefixReplays
<1> DEFINE lines == SubSeq(log.records, 1, n)
           registry == Universe \union ToSet(hull)
<1>1. Lines \in Nat /\ AnySeq(log.records) /\ n \in Nat /\ n <= Lines
  BY LineFacts DEF Lines
<1>2. AnySeq(lines) /\ Len(lines) = n /\ \A j \in 1..n : lines[j] = log.records[j]
  BY <1>1, PrefixFacts
<1> HIDE DEF lines, registry
<1>3. ASSUME n % 2 = 0, NEW k \in 1..(n \div 2)
      PROVE  /\ k \in Nat \ {0} /\ 2 * k <= Lines
             /\ \A j \in 1..(2 * k) : lines[j] = log.records[j]
  <2>1. 2 * k <= n
    BY <1>1, <1>3
  <2> QED
    BY <1>1, <1>2, <2>1
<1>4. ASSUME n % 2 = 0
      PROVE  ReplayPasses(lines, registry)
  <2>1. ASSUME NEW k \in 1..(n \div 2)
        PROVE  ActionReplays(lines, k) /\ RevealReplays(lines, registry, k)
    BY <1>3, <1>4, RoundReplays DEF registry
  <2> QED
    BY <1>2, <1>4, <2>1 DEF ReplayPasses
<1>5. ReplayPasses(lines, registry) => n % 2 = 0
  BY <1>2 DEF ReplayPasses
<1>6. ASSUME n % 2 = 0
      PROVE  ReplayedEvents(lines) = SubSeq(events, 1, n \div 2)
  <2> DEFINE m == n \div 2
  <2>1. m \in 0..Len(events) /\ AnySeq(events)
    BY <1>1 DEF ReplayInv, Written
  <2>2. /\ AnySeq(SubSeq(events, 1, m)) /\ Len(SubSeq(events, 1, m)) = m
        /\ \A i \in 1..m : SubSeq(events, 1, m)[i] = events[i]
    BY <2>1, PrefixFacts
  <2>3. SubSeq(events, 1, m) = [i \in 1..m |-> events[i]]
    BY <2>2, LenProperties DEF AnySeq
  <2>4. ASSUME NEW k \in 1..m
        PROVE  events[k] = [round |-> k, pair |-> ActionAt(lines, k).pair,
                            evidence |-> RevealAt(lines, k).evidence]
    BY <1>3, <1>6, RoundReplays
  <2> QED
    BY <1>2, <2>3, <2>4 DEF ReplayedEvents
<1> QED
  BY <1>4, <1>5, <1>6 DEF lines, registry

-------------------------------------------------------------------------------
\* What round k needs of the lines for the whole to replay.
LEMMA PassingRounds ==
  ASSUME NEW lines, NEW registry, ReplayPasses(lines, registry), Len(lines) \in Nat,
         NEW k \in Nat \ {0}
  PROVE  /\ Len(lines) % 2 = 0
         /\ 2 * k - 1 <= Len(lines) =>
              /\ ActionAt(lines, k).kind = "action" /\ ActionAt(lines, k).round = k
              /\ k # 1 => ActionAt(lines, k).previous = RevealAt(lines, k - 1).digest
              /\ RevealAt(lines, k).kind = "reveal"
              /\ RevealAt(lines, k).round = k
<1>1. Len(lines) % 2 = 0
  BY DEF ReplayPasses
<1>2. ASSUME 2 * k - 1 <= Len(lines)
      PROVE  ActionReplays(lines, k) /\ RevealReplays(lines, registry, k)
  <2>1. k \in 1..(Len(lines) \div 2)
    BY <1>1, <1>2
  <2> QED
    BY <2>1 DEF ReplayPasses
<1> QED
  BY <1>1, <1>2 DEF ActionReplays, RevealReplays

\* Lines 2k - 1 and 2k of the log, by their kinds and rounds.
LEMMA LineKinds ==
  ASSUME IInv, ReplayInv, NEW i \in 1..Lines
  PROVE  \/ \E k \in Nat \ {0} : /\ i = 2 * k - 1
                                 /\ log.records[i].kind = "action" /\ log.records[i].round = k
         \/ \E k \in Nat \ {0} : /\ i = 2 * k
                                 /\ log.records[i].kind = "reveal" /\ log.records[i].round = k
<1>1. Lines \in Nat
  BY LineFacts
<1>2. PICK k \in Nat \ {0} : i = 2 * k - 1 \/ i = 2 * k
  <2>1. (i + 1) \div 2 \in Nat \ {0}
    BY <1>1
  <2>2. i = 2 * ((i + 1) \div 2) - 1 \/ i = 2 * ((i + 1) \div 2)
    BY <1>1
  <2> QED
    BY <2>1, <2>2
<1>3. CASE i = 2 * k - 1
  <2>1. IsAction(k)
    BY <1>3 DEF ReplayInv, ByRounds
  <2> QED
    BY <1>3, <2>1 DEF IsAction, ActionAt
<1>4. CASE i = 2 * k
  <2>1. IsReveal(k)
    BY <1>4 DEF ReplayInv, ByRounds
  <2> QED
    BY <1>4, <2>1 DEF IsReveal, RevealAt
<1> QED
  BY <1>2, <1>3, <1>4

-------------------------------------------------------------------------------
\* A sequence that agrees with the start of another.
LEMMA SameStart ==
  ASSUME NEW s, AnySeq(s), NEW t, AnySeq(t), Len(s) <= Len(t),
         \A i \in 1..Len(s) : s[i] = t[i]
  PROVE  IsPrefix(s, t)
<1>1. Len(s) \in Nat /\ Len(t) \in Nat /\ Len(s) \in 0..Len(t) /\ Len(s) \in 0..Len(s)
  BY LenProperties DEF AnySeq
<1>2. /\ AnySeq(SubSeq(s, 1, Len(s))) /\ Len(SubSeq(s, 1, Len(s))) = Len(s)
      /\ \A i \in 1..Len(s) : SubSeq(s, 1, Len(s))[i] = s[i]
  BY <1>1, PrefixFacts
<1>3. /\ AnySeq(SubSeq(t, 1, Len(s))) /\ Len(SubSeq(t, 1, Len(s))) = Len(s)
      /\ \A i \in 1..Len(s) : SubSeq(t, 1, Len(s))[i] = t[i]
  BY <1>1, PrefixFacts
<1>4. SubSeq(s, 1, Len(s)) = [i \in 1..Len(s) |-> s[i]]
  BY <1>2, LenProperties DEF AnySeq
<1>5. SubSeq(t, 1, Len(s)) = [i \in 1..Len(s) |-> t[i]]
  BY <1>3, LenProperties DEF AnySeq
<1> QED
  BY <1>4, <1>5 DEF IsPrefix

\* The lines behind a lost one have the kinds of their neighbours.
LEMMA LostLine ==
  ASSUME IInv, ReplayInv, NEW registry, NEW i \in 1..Lines,
         ReplayPasses(RemoveAt(log.records, i), registry)
  PROVE  IsPrefix(RemoveAt(log.records, i), log.records)
<1> DEFINE lines == RemoveAt(log.records, i)
<1>1. Lines \in Nat /\ AnySeq(log.records)
  BY LineFacts
<1>2. /\ AnySeq(lines) /\ Len(lines) = Lines - 1
      /\ \A j \in 1..(i - 1) : lines[j] = log.records[j]
      /\ \A j \in i..(Lines - 1) : lines[j] = log.records[j + 1]
  <2>1. i - 1 \in Nat /\ i \in Nat /\ i - 1 <= i /\ i <= Lines
    BY <1>1
  <2>2. /\ AnySeq(lines) /\ Len(lines) = i - 1 + Lines - i
        /\ \A j \in 1..(i - 1) : lines[j] = log.records[j]
        /\ \A j \in ((i - 1) + 1)..(i - 1 + Lines - i) : lines[j] = log.records[j - (i - 1) + i]
    BY <1>1, <2>1, CutFacts DEF RemoveAt, Lines
  <2> QED
    BY <1>1, <2>2
<1> HIDE DEF lines
<1>3. CASE i = Lines
  <2>1. Len(lines) <= Lines /\ \A j \in 1..Len(lines) : lines[j] = log.records[j]
    BY <1>1, <1>2, <1>3
  <2> QED
    BY <1>1, <1>2, <2>1, SameStart DEF lines, Lines
<1>4. CASE i # Lines
  <2>1. /\ i \in 1..(Lines - 1) /\ lines[i] = log.records[i + 1] /\ i + 1 \in 1..Lines
        /\ Len(lines) \in Nat
    BY <1>1, <1>2, <1>4
  <2>2. ReplayPasses(lines, registry)
    BY DEF lines
  <2>3. ASSUME NEW k \in Nat \ {0}, i = 2 * k - 1
        PROVE  FALSE
    <3>1. lines[i].kind = "action"
      <4>1. 2 * k - 1 <= Len(lines)
        BY <1>1, <1>2, <2>1, <2>3
      <4>2. ActionAt(lines, k).kind = "action"
        BY <2>1, <2>2, <4>1, PassingRounds
      <4> QED
        BY <2>3, <4>2 DEF ActionAt
    <3>2. log.records[i + 1].kind = "reveal"
      BY <1>1, <2>1, <2>3, LineKinds
    <3> QED
      BY <2>1, <3>1, <3>2
  <2>4. ASSUME NEW k \in Nat \ {0}, i = 2 * k
        PROVE  FALSE
    <3>1. lines[i].kind = "reveal"
      <4>1. 2 * k - 1 <= Len(lines)
        BY <1>1, <1>2, <2>1, <2>4
      <4>2. RevealAt(lines, k).kind = "reveal"
        BY <2>1, <2>2, <4>1, PassingRounds
      <4> QED
        BY <2>4, <4>2 DEF RevealAt
    <3>2. log.records[i + 1].kind = "action"
      BY <1>1, <2>1, <2>4, LineKinds
    <3> QED
      BY <2>1, <3>1, <3>2
  <2> QED
    BY <2>3, <2>4, LineKinds
<1> QED
  BY <1>3, <1>4

\* Two exchanged lines differ in kind or in round from those they replace.
LEMMA ExchangedLines ==
  ASSUME IInv, ReplayInv, NEW registry, NEW i \in 1..Lines, NEW j \in 1..Lines,
         ReplayPasses(Exchanged(log.records, i, j), registry)
  PROVE  IsPrefix(Exchanged(log.records, i, j), log.records)
<1> DEFINE lines == Exchanged(log.records, i, j)
<1>1. Lines \in Nat /\ AnySeq(log.records)
  BY LineFacts
<1>2. /\ AnySeq(lines) /\ Len(lines) = Lines /\ lines[i] = log.records[j]
      /\ \A k \in 1..Lines : k # i /\ k # j => lines[k] = log.records[k]
  <2>1. lines = [log.records EXCEPT ![i] = log.records[j], ![j] = log.records[i]]
    BY DEF Exchanged
  <2> HIDE DEF lines
  <2>2. /\ AnySeq(lines) /\ Len(lines) = Lines
        /\ \A k \in 1..Lines : lines[k] = IF k = j THEN log.records[i]
                                ELSE IF k = i THEN log.records[j] ELSE log.records[k]
    <3>1. i \in 1..Len(log.records) /\ j \in 1..Len(log.records)
      BY DEF Lines
    <3>2. DOMAIN log.records = 1..Len(log.records)
      BY <1>1, LenProperties DEF AnySeq
    <3>3. lines = [k \in 1..Lines |-> lines[k]]
      BY <2>1, <3>2 DEF Lines
    <3>4. \A k \in 1..Lines : lines[k] = IF k = j THEN log.records[i]
                                ELSE IF k = i THEN log.records[j] ELSE log.records[k]
      BY <2>1, <3>2 DEF Lines
    <3> QED
      BY <1>1, <3>3, <3>4, SameIndices DEF Lines
  <2> QED
    BY <2>2
<1> HIDE DEF lines
<1>3. CASE i = j
  <2>1. \A k \in 1..Lines : lines[k] = log.records[k]
    BY <1>2, <1>3
  <2> QED
    BY <1>1, <1>2, <2>1, SameStart DEF lines, Lines
<1>4. CASE i # j
  <2>1. ReplayPasses(lines, registry)
    BY DEF lines
  <2>2. ASSUME NEW k \in Nat \ {0}, i = 2 * k - 1
        PROVE  FALSE
    <3>1. log.records[j].kind = "action" /\ log.records[j].round = k
      <4>1. 2 * k - 1 <= Len(lines) /\ ActionAt(lines, k) = log.records[j]
        BY <1>1, <1>2, <2>2 DEF ActionAt
      <4>2. ActionAt(lines, k).kind = "action" /\ ActionAt(lines, k).round = k
        BY <1>1, <1>2, <2>1, <4>1, PassingRounds
      <4> QED
        BY <4>1, <4>2
    <3> QED
      BY <1>4, <2>2, <3>1, LineKinds
  <2>3. ASSUME NEW k \in Nat \ {0}, i = 2 * k
        PROVE  FALSE
    <3>1. log.records[j].kind = "reveal" /\ log.records[j].round = k
      <4>1. 2 * k - 1 <= Len(lines) /\ RevealAt(lines, k) = log.records[j]
        BY <1>1, <1>2, <2>3 DEF RevealAt
      <4>2. RevealAt(lines, k).kind = "reveal" /\ RevealAt(lines, k).round = k
        BY <1>1, <1>2, <2>1, <4>1, PassingRounds
      <4> QED
        BY <4>1, <4>2
    <3> QED
      BY <1>4, <2>3, <3>1, LineKinds
  <2> QED
    BY <2>2, <2>3, LineKinds
<1> QED
  BY <1>3, <1>4

\* The round behind a lost one has the wrong number.
LEMMA LostRound ==
  ASSUME IInv, ReplayInv, NEW registry, NEW k \in 1..Rounds,
         ReplayPasses(RoundLost(log.records, k), registry)
  PROVE  IsPrefix(RoundLost(log.records, k), log.records)
<1> DEFINE lines == RoundLost(log.records, k)
<1>1. Lines \in Nat /\ AnySeq(log.records) /\ k \in Nat \ {0} /\ 2 * k <= Lines
  <2>1. Lines \in Nat /\ AnySeq(log.records)
    BY LineFacts
  <2>2. k \in 1..(Lines \div 2)
    BY DEF Rounds, Lines
  <2> QED
    BY <2>1, <2>2
<1>2. /\ AnySeq(lines) /\ Len(lines) = Lines - 2
      /\ \A j \in 1..(2 * k - 2) : lines[j] = log.records[j]
      /\ \A j \in (2 * k - 1)..(Lines - 2) : lines[j] = log.records[j + 2]
  <2>1. 2 * k - 2 \in Nat /\ 2 * k \in Nat /\ 2 * k - 2 <= 2 * k
    BY <1>1
  <2>2. /\ AnySeq(lines) /\ Len(lines) = 2 * k - 2 + Lines - 2 * k
        /\ \A j \in 1..(2 * k - 2) : lines[j] = log.records[j]
        /\ \A j \in ((2 * k - 2) + 1)..(2 * k - 2 + Lines - 2 * k) :
             lines[j] = log.records[j - (2 * k - 2) + 2 * k]
    BY <1>1, <2>1, CutFacts DEF RoundLost, Lines
  <2> QED
    BY <1>1, <2>2
<1> HIDE DEF lines
<1>3. ReplayPasses(lines, registry) /\ Len(lines) \in Nat
  BY <1>1, <1>2 DEF lines
<1>4. CASE 2 * k = Lines
  <2>1. Len(lines) <= Lines /\ \A j \in 1..Len(lines) : lines[j] = log.records[j]
    BY <1>1, <1>2, <1>4
  <2> QED
    BY <1>1, <1>2, <2>1, SameStart DEF lines, Lines
<1>5. CASE 2 * k # Lines
  <2>1. Len(lines) % 2 = 0
    BY <1>1, <1>3, PassingRounds
  <2>2. 2 * k + 1 \in 1..Lines /\ 2 * k - 1 <= Len(lines)
    BY <1>1, <1>2, <1>5, <2>1
  <2>3. log.records[2 * k + 1].round = k
    <3>1. ActionAt(lines, k).round = k
      BY <1>1, <1>3, <2>2, PassingRounds
    <3>2. lines[2 * k - 1] = log.records[2 * k + 1]
      BY <1>1, <1>2, <2>2
    <3> QED
      BY <3>1, <3>2 DEF ActionAt
  <2>4. IsAction(k + 1) /\ 2 * (k + 1) - 1 = 2 * k + 1
    BY <1>1, <2>2 DEF ReplayInv, ByRounds
  <2> QED
    BY <1>1, <2>3, <2>4 DEF IsAction, ActionAt
<1> QED
  BY <1>4, <1>5

\* The round after a round of another run names the digest it had here.
LEMMA StitchedRound ==
  ASSUME IInv, ReplayInv, NEW registry, NEW k \in 1..(Rounds - 1),
         ReplayPasses(Stitched(log.records, k), registry)
  PROVE  FALSE
<1> DEFINE before == [records |-> SubSeq(log.records, 1, 2 * k - 2), pending |-> NoPending]
           own    == ActionAt(log.records, k)
           larger == [own.state EXCEPT !.remaining = @ + 1]
           action == ActionRecord(before, k, own.pair, larger)
           reveal == RevealRecord(k, own.pair, action.digest, RevealAt(log.records, k).evidence)
           lines  == [log.records EXCEPT ![2 * k - 1] = action, ![2 * k] = reveal]
<1>1. /\ Lines \in Nat /\ AnySeq(log.records) /\ k \in Nat \ {0}
      /\ 2 * k + 2 <= Lines /\ 2 * k - 1 \in 1..Lines /\ 2 * k \in 1..Lines
  <2>1. Lines \in Nat /\ AnySeq(log.records)
    BY LineFacts
  <2>2. k \in 1..((Lines \div 2) - 1)
    BY DEF Rounds, Lines
  <2> QED
    BY <2>1, <2>2
<1>2. lines = Stitched(log.records, k)
  BY DEF Stitched
<1>3. \A x, y : Digest(x) = Digest(y) => x = y
  BY DEF Digest
<1>4. action.digest = Digest([round |-> k, pair |-> own.pair, state |-> larger,
                              previous |-> ChainHead(before)])
  BY DEF ActionRecord
<1>5. reveal.digest = Digest([round |-> k, pair |-> own.pair, action |-> action.digest,
                              evidence |-> RevealAt(log.records, k).evidence])
  BY DEF RevealRecord
<1> HIDE DEF action, reveal
<1>6. /\ AnySeq(lines) /\ Len(lines) = Lines
      /\ lines[2 * k] = reveal /\ lines[2 * k + 1] = log.records[2 * k + 1]
  <2>1. 2 * k + 1 \in 1..Lines /\ 2 * k + 1 # 2 * k /\ 2 * k + 1 # 2 * k - 1
    BY <1>1
  <2> QED
    <3>1. /\ AnySeq(lines) /\ Len(lines) = Lines
          /\ \A j \in 1..Lines : lines[j] = IF j = 2 * k THEN reveal
                                  ELSE IF j = 2 * k - 1 THEN action ELSE log.records[j]
      <4>1. DOMAIN log.records = 1..Lines
        BY <1>1, LenProperties DEF AnySeq, Lines
      <4>2. lines = [j \in 1..Lines |-> lines[j]]
        BY <4>1
      <4>3. \A j \in 1..Lines : lines[j] = IF j = 2 * k THEN reveal
                                  ELSE IF j = 2 * k - 1 THEN action ELSE log.records[j]
        BY <4>1
      <4> HIDE DEF lines
      <4> QED
        BY <1>1, <4>2, <4>3, SameIndices DEF Lines
    <3> HIDE DEF lines
    <3> QED
      BY <1>1, <2>1, <3>1
<1> HIDE DEF lines
<1>7. log.records[2 * k + 1].previous = reveal.digest
  <2>1. /\ k + 1 \in Nat \ {0} /\ 2 * (k + 1) - 1 <= Lines /\ k + 1 # 1
        /\ (k + 1) - 1 = k /\ 2 * (k + 1) - 1 = 2 * k + 1
    BY <1>1
  <2>2. ActionAt(lines, k + 1).previous = RevealAt(lines, (k + 1) - 1).digest
    BY <1>1, <1>2, <1>6, <2>1, PassingRounds
  <2> QED
    BY <1>6, <2>1, <2>2 DEF ActionAt, RevealAt
<1>8. IsAction(k) /\ IsReveal(k) /\ IsAction(k + 1)
  BY <1>1 DEF ReplayInv, ByRounds
<1>9. log.records[2 * k + 1].previous = RevealAt(log.records, k).digest
  <2>1. k + 1 # 1 /\ (k + 1) - 1 = k /\ 2 * (k + 1) - 1 = 2 * k + 1
    BY <1>1
  <2> QED
    BY <1>8, <2>1 DEF IsAction, ActionAt
<1>10. action.digest = own.digest
  <2> DEFINE r == RevealAt(log.records, k)
             mine == [round |-> r.round, pair |-> r.pair, action |-> r.action,
                      evidence |-> r.evidence]
             theirs == [round |-> k, pair |-> own.pair, action |-> action.digest,
                        evidence |-> r.evidence]
  <2>1. Digest(mine) = Digest(theirs)
    BY <1>5, <1>7, <1>8, <1>9 DEF IsReveal
  <2>2. mine = theirs
    BY <1>3, <2>1
  <2>3. mine.action = theirs.action
    BY <2>2
  <2> QED
    BY <1>8, <2>3 DEF IsReveal
<1>11. larger = own.state
  <2> DEFINE mine == [round |-> own.round, pair |-> own.pair, state |-> own.state,
                      previous |-> own.previous]
             theirs == [round |-> k, pair |-> own.pair, state |-> larger,
                        previous |-> ChainHead(before)]
  <2>1. Digest(mine) = Digest(theirs)
    BY <1>4, <1>8, <1>10 DEF IsAction
  <2>2. mine = theirs
    <3> HIDE DEF mine, theirs
    <3> QED
      BY <1>3, <2>1
  <2>3. mine.state = theirs.state
    BY <2>2
  <2> QED
    BY <2>3
<1>12. "remaining" \in DOMAIN own.state /\ own.state.remaining \in Nat
  BY <1>8 DEF IsAction
<1>13. larger.remaining = own.state.remaining + 1
  <2> HIDE DEF own
  <2> QED
    BY <1>12
<1> QED
  BY <1>11, <1>12, <1>13

LEMMA DamagedLogsAreRefused ==
  ASSUME IInv, ReplayInv
  PROVE  DamageIsRefused
<1> SUFFICES ASSUME NEW lines \in Damaged, ReplayPasses(lines, Universe \union ToSet(hull))
             PROVE  IsPrefix(lines, log.records)
  BY DEF DamageIsRefused
<1>1. CASE lines \in {RemoveAt(log.records, i) : i \in 1..Len(log.records)}
  BY <1>1, LostLine DEF Lines
<1>2. CASE lines \in {Exchanged(log.records, i, j) : i, j \in 1..Len(log.records)}
  BY <1>2, ExchangedLines DEF Lines
<1>3. CASE lines \in {RoundLost(log.records, k) : k \in 1..Rounds}
  BY <1>3, LostRound
<1>4. CASE lines \in {Stitched(log.records, k) : k \in 1..(Rounds - 1)}
  BY <1>4, StitchedRound
<1> QED
  BY <1>1, <1>2, <1>3, <1>4 DEF Damaged

\* The log of any run replays as far as it was written and to what run() kept, and
\* a log damaged by an accident replays only if what is left is the start of it.
THEOREM ReplaysAreExact == Spec => []ReplayIsExact
<1>1. IInv /\ ReplayInv => ReplayIsExact
  BY PrefixesReplay, DamagedLogsAreRefused DEF ReplayIsExact
<1> QED
  BY <1>1, WBMInvariant, LogIsWrittenByRounds, PTL

-------------------------------------------------------------------------------
(* The persistent FIFO is the end of the archive, but for the card that is  *)
(* archived and not yet admitted; it never refuses a card.                  *)

Earlier == SubSeq(archive, 1, Len(archive) - 1)

HoldsLast ==
  Strategy = "persistent" =>
    /\ pc \in {"loop", "select", "append", "reveal", "record"} => fifo = LastOf(archive)
    /\ pc = "admit" =>
         /\ archive = Append(Earlier, selected)
         /\ ~Contains(Earlier, selected)
         /\ fifo = LastOf(Earlier)

LEMMA LastFacts ==
  ASSUME NEW s \in Seq(Queries)
  PROVE  LET m == IF Len(s) > Capacity THEN Len(s) - Capacity ELSE 0 IN
         /\ m \in 0..Len(s) /\ Len(s) \in Nat
         /\ LastOf(s) \in Seq(Queries) /\ Len(LastOf(s)) = Len(s) - m
         /\ \A i \in 1..(Len(s) - m) : LastOf(s)[i] = s[m + i]
<1> DEFINE m == IF Len(s) > Capacity THEN Len(s) - Capacity ELSE 0
<1>1. Len(s) \in Nat /\ Capacity \in Nat
  BY LenProperties, WBMAssumption
<1>2. m \in 0..Len(s)
  BY <1>1
<1>3. LastOf(s) = SubSeq(s, m + 1, Len(s))
  BY DEF LastOf
<1> HIDE DEF m
<1>4. m + 1 \in Int /\ Len(s) \in Int /\ \A i \in (m + 1)..Len(s) : s[i] \in Queries
  BY <1>1, <1>2, ElementOfSeq
<1>5. /\ LastOf(s) \in Seq(Queries)
      /\ Len(LastOf(s)) = IF m + 1 <= Len(s) THEN Len(s) - (m + 1) + 1 ELSE 0
      /\ \A i \in 1..(Len(s) - (m + 1) + 1) : LastOf(s)[i] = s[(m + 1) + i - 1]
  BY <1>3, <1>4, SubSeqProperties
<1>6. Len(LastOf(s)) = Len(s) - m /\ Len(s) - (m + 1) + 1 = Len(s) - m
  BY <1>1, <1>2, <1>5
<1>7. \A i \in 1..(Len(s) - m) : (m + 1) + i - 1 = m + i
  BY <1>2
<1>8. \A i \in 1..(Len(s) - m) : LastOf(s)[i] = s[m + i]
  BY <1>5, <1>6, <1>7
<1> QED
  BY <1>1, <1>2, <1>5, <1>6, <1>8 DEF m

\* Admitting a card to the last cards of an archive gives the last cards of the
\* longer archive, for any capacity, 0 included.
LEMMA AdmitsTheLast ==
  ASSUME NEW s \in Seq(Queries), NEW card \in Queries
  PROVE  Admitted(LastOf(s), card) = LastOf(Append(s, card))
<1> DEFINE m == IF Len(s) > Capacity THEN Len(s) - Capacity ELSE 0
           held == LastOf(s)
           longer == Append(held, card)
           cards == Append(s, card)
           after == IF Len(cards) > Capacity THEN Len(cards) - Capacity ELSE 0
<1>1. /\ m \in 0..Len(s) /\ Len(s) \in Nat /\ Capacity \in Nat
      /\ held \in Seq(Queries) /\ Len(held) = Len(s) - m
      /\ \A i \in 1..(Len(s) - m) : held[i] = s[m + i]
  BY LastFacts, WBMAssumption
<1>2. /\ cards \in Seq(Queries) /\ Len(cards) = Len(s) + 1
      /\ \A i \in 1..Len(s) : cards[i] = s[i]
      /\ cards[Len(s) + 1] = card
  BY AppendProperties
<1>3. /\ LastOf(cards) \in Seq(Queries) /\ Len(LastOf(cards)) = Len(cards) - after
      /\ \A i \in 1..(Len(cards) - after) : LastOf(cards)[i] = cards[after + i]
  <2> HIDE DEF cards
  <2> QED
    BY <1>2, LastFacts
<1> HIDE DEF held
<1>4. /\ longer \in Seq(Queries) /\ longer # <<>> /\ Len(longer) = Len(held) + 1
      /\ \A i \in 1..Len(held) : longer[i] = held[i]
      /\ longer[Len(held) + 1] = card
  <2>1. held \in Seq(Queries)
    BY <1>1
  <2> QED
    BY <2>1, AppendProperties
<1>5. Admitted(held, card) = IF Len(held) + 1 > Capacity THEN Tail(longer) ELSE longer
  BY DEF Admitted
<1>6. /\ Len(s) < Capacity => m = 0 /\ after = 0
      /\ Len(s) >= Capacity => m = Len(s) - Capacity /\ after = m + 1
  <2> HIDE DEF cards
  <2> QED
    BY <1>1, <1>2
<1> HIDE DEF longer, cards, m, after
<1>7. /\ Len(held) = Len(s) - m /\ Len(held) \in Nat
      /\ Len(s) \in Nat /\ Capacity \in Nat /\ m \in Nat
  BY <1>1
<1>8. CASE Len(s) < Capacity
  <2>1. m = 0 /\ after = 0 /\ Len(held) = Len(s) /\ ~(Len(held) + 1 > Capacity)
    BY <1>1, <1>6, <1>7, <1>8
  <2>2. Len(longer) = Len(s) + 1 /\ Len(LastOf(cards)) = Len(s) + 1
    BY <1>1, <1>2, <1>3, <1>4, <2>1
  <2>3. ASSUME NEW i \in 1..(Len(s) + 1)
        PROVE  longer[i] = LastOf(cards)[i]
    <3>1. LastOf(cards)[i] = cards[i]
      <4>1. i \in 1..(Len(cards) - after) /\ after + i = i
        BY <1>1, <1>2, <2>1
      <4> QED
        BY <1>3, <4>1
    <3>2. CASE i \in 1..Len(s)
      <4>1. i \in 1..Len(held) /\ i \in 1..(Len(s) - m) /\ m + i = i
        BY <1>1, <2>1, <3>2
      <4>2. longer[i] = s[i]
        BY <1>1, <1>4, <4>1
      <4> QED
        BY <1>2, <3>1, <3>2, <4>2
    <3>3. CASE i = Len(s) + 1
      BY <1>2, <1>4, <2>1, <3>1, <3>3
    <3> QED
      BY <1>1, <3>2, <3>3
  <2>4. longer = LastOf(cards)
    BY <1>3, <1>4, <2>2, <2>3, SeqEqual
  <2> QED
    BY <1>5, <2>1, <2>4 DEF held, cards
<1>9. CASE Len(s) >= Capacity
  <2>1. m = Len(s) - Capacity /\ after = m + 1 /\ Len(held) = Capacity
    BY <1>6, <1>7, <1>9
  <2>2. Len(held) + 1 > Capacity
    BY <1>1, <2>1
  <2>3. /\ Tail(longer) \in Seq(Queries) /\ Len(Tail(longer)) = Len(longer) - 1
        /\ \A i \in 1..Len(Tail(longer)) : Tail(longer)[i] = longer[i + 1]
    BY <1>4, HeadTailProperties
  <2>4. Len(Tail(longer)) = Capacity /\ Len(cards) - after = Capacity
    BY <1>1, <1>2, <1>4, <2>1, <2>3
  <2>5. ASSUME NEW i \in 1..Capacity
        PROVE  Tail(longer)[i] = LastOf(cards)[i]
    <3>1. /\ Tail(longer)[i] = longer[i + 1]
          /\ LastOf(cards)[i] = cards[m + 1 + i]
      BY <1>3, <2>1, <2>3, <2>4
    <3>2. CASE i < Capacity
      <4>1. /\ i + 1 \in 1..Len(held) /\ i + 1 \in 1..(Len(s) - m)
            /\ m + (i + 1) \in 1..Len(s) /\ m + (i + 1) = m + 1 + i
        BY <1>1, <2>1, <3>2
      <4>2. longer[i + 1] = s[m + (i + 1)] /\ cards[m + 1 + i] = s[m + (i + 1)]
        BY <1>1, <1>2, <1>4, <4>1
      <4> QED
        BY <3>1, <4>2
    <3>3. CASE i = Capacity
      <4>1. i + 1 = Len(held) + 1 /\ m + 1 + i = Len(s) + 1
        BY <1>1, <2>1, <3>3
      <4> QED
        BY <1>2, <1>4, <3>1, <4>1
    <3>4. i < Capacity \/ i = Capacity
      BY <1>7
    <3> QED
      BY <3>2, <3>3, <3>4
  <2>6. Tail(longer) = LastOf(cards)
    BY <1>3, <2>3, <2>4, <2>5, SeqEqual
  <2> QED
    BY <1>5, <2>2, <2>6 DEF held, cards
<1> QED
  BY <1>1, <1>8, <1>9

\* What an archive does not contain its last cards do not contain.
LEMMA LastContains ==
  ASSUME NEW s \in Seq(Queries), NEW card, Contains(LastOf(s), card)
  PROVE  Contains(s, card)
<1> DEFINE m == IF Len(s) > Capacity THEN Len(s) - Capacity ELSE 0
<1>1. /\ m \in 0..Len(s) /\ Len(s) \in Nat /\ Len(LastOf(s)) = Len(s) - m
      /\ \A i \in 1..(Len(s) - m) : LastOf(s)[i] = s[m + i]
  BY LastFacts
<1> HIDE DEF m
<1>2. PICK i \in 1..(Len(s) - m) : LastOf(s)[i] = card
  BY <1>1 DEF Contains
<1>3. m + i \in 1..Len(s) /\ s[m + i] = card
  BY <1>1, <1>2
<1> QED
  BY <1>3 DEF Contains

\* The card that was just archived, and those before it.
LEMMA EarlierCards ==
  ASSUME NEW s \in Seq(Queries), NEW card \in Queries
  PROVE  SubSeq(Append(s, card), 1, Len(Append(s, card)) - 1) = s
<1> DEFINE t == Append(s, card)
           u == SubSeq(t, 1, Len(t) - 1)
<1>1. /\ t \in Seq(Queries) /\ Len(t) = Len(s) + 1 /\ Len(s) \in Nat
      /\ \A i \in 1..Len(s) : t[i] = s[i]
  BY AppendProperties, LenProperties
<1> HIDE DEF t
<1>2. AnySeq(t) /\ Len(t) - 1 = Len(s) /\ Len(t) - 1 \in 0..Len(t)
  BY <1>1, SeqIsAnySeq
<1>3. AnySeq(u) /\ Len(u) = Len(s) /\ \A i \in 1..Len(s) : u[i] = t[i]
  BY <1>2, PrefixFacts
<1> HIDE DEF u
<1>4. PICK S : s \in Seq(S) /\ u \in Seq(S)
  BY <1>3, SeqIsAnySeq, CommonSet
<1>5. u = s
  BY <1>1, <1>3, <1>4, SeqEqual
<1> QED
  BY <1>5 DEF u, t

\* They are queries too.
LEMMA EarlierInSeq ==
  ASSUME IInv, pc = "admit"
  PROVE  Earlier \in Seq(Queries)
<1>1. archive \in Seq(Queries) /\ archive # <<>> /\ Len(archive) \in Nat
  BY LenProperties DEF IInv, Shape, OnRecord
<1>2. Len(archive) - 1 \in Int /\ \A i \in 1..(Len(archive) - 1) : archive[i] \in Queries
  BY <1>1, ElementOfSeq
<1> QED
  BY <1>2, SubSeqProperties DEF Earlier

LEMMA InitHoldsLast == Init => HoldsLast
<1> SUFFICES ASSUME Init
             PROVE  HoldsLast
  OBVIOUS
<1>1. archive = <<>> /\ fifo = <<>> /\ pc = "loop"
  BY DEF Init
<1>2. LastOf(<<>>) = <<>>
  <2>1. <<>> \in Seq(Queries) /\ Len(<<>>) = 0
    BY EmptySeq
  <2>2. LastOf(<<>>) \in Seq(Queries) /\ Len(LastOf(<<>>)) = 0
    <3> DEFINE s == <<>>
               m == IF Len(s) > Capacity THEN Len(s) - Capacity ELSE 0
    <3>1. s \in Seq(Queries) /\ Len(s) = 0
      BY <2>1
    <3> HIDE DEF s
    <3>2. m \in 0..Len(s) /\ LastOf(s) \in Seq(Queries) /\ Len(LastOf(s)) = Len(s) - m
      BY <3>1, LastFacts
    <3> HIDE DEF m
    <3>3. m = 0
      BY <3>1, <3>2
    <3>4. Len(LastOf(s)) = 0
      BY <3>1, <3>2, <3>3
    <3> QED
      BY <3>2, <3>4 DEF s
  <2> QED
    BY <2>2, EmptySeq
<1> QED
  BY <1>1, <1>2 DEF HoldsLast

LEMMA NextHoldsLast ==
  ASSUME IInv, HoldsLast, [Next]_vars
  PROVE  HoldsLast'
<1> SUFFICES ASSUME Strategy = "persistent"
             PROVE  HoldsLast'
  BY DEF HoldsLast
<1>1. archive \in Seq(Queries) /\ revealed = archive
  BY DEF IInv, Shape
<1>2. ASSUME UNCHANGED <<archive, fifo>>,
             pc \in {"loop", "select", "append", "reveal", "record"} \/ pc' = "done",
             pc' # "admit"
      PROVE  HoldsLast'
  BY <1>2 DEF HoldsLast, LastOf
<1>3. ASSUME \/ CreateState \/ SelectRaises \/ PersistRaises \/ EndLoop
             \/ PersistAction \/ PersistReveal \/ \E q \in Queries : Select(q)
      PROVE  HoldsLast'
  <2>1. UNCHANGED <<archive, fifo>>
    BY <1>3 DEF CreateState, SelectRaises, PersistRaises, EndLoop, PersistAction, PersistReveal,
       Select
  <2>2. pc \in {"loop", "select", "append", "reveal", "record"} /\ pc' # "admit"
    BY <1>3 DEF CreateState, SelectRaises, PersistRaises, EndLoop, PersistAction, PersistReveal,
       Select, Abort
  <2> QED
    BY <1>2, <2>1, <2>2
<1>4. CASE RevealSelected
  <2>1. pc = "reveal" /\ fifo' = fifo /\ selected' = selected /\ selected \in Queries
    BY <1>4 DEF RevealSelected, IInv, Chosen
  <2>2. CASE ~VaultReveals(selected)
    <3>1. archive' = archive /\ pc' = "done"
      BY <1>4, <2>2 DEF RevealSelected, Abort
    <3> QED
      BY <1>2, <2>1, <3>1
  <2>3. CASE VaultReveals(selected)
    <3>1. archive' = Append(archive, selected) /\ pc' = "admit"
      BY <1>4, <2>3 DEF RevealSelected
    <3>2. Earlier' = archive
      BY <1>1, <2>1, <3>1, EarlierCards DEF Earlier
    <3>3. ~Contains(archive, selected)
      BY <1>1, <2>3 DEF VaultReveals
    <3>4. fifo = LastOf(archive)
      BY <2>1 DEF HoldsLast
    <3> QED
      BY <2>1, <3>1, <3>2, <3>3, <3>4 DEF HoldsLast, LastOf
  <2> QED
    BY <2>2, <2>3
<1>5. CASE Admit
  <2>1. pc = "admit" /\ archive' = archive /\ selected \in Queries
    BY <1>5 DEF Admit, IInv, Chosen
  <2>2. CASE Contains(fifo, selected)
    BY <1>2, <1>5, <2>1, <2>2 DEF Admit, Abort
  <2>3. CASE ~Contains(fifo, selected)
    <3>1. fifo' = Admitted(fifo, selected) /\ pc' = "record"
      BY <1>5, <2>3 DEF Admit
    <3>2. archive = Append(Earlier, selected) /\ fifo = LastOf(Earlier)
      BY <2>1 DEF HoldsLast
    <3>3. Earlier \in Seq(Queries)
      BY <1>1, <2>1, EarlierInSeq
    <3>4. fifo' = LastOf(archive')
      BY <2>1, <3>1, <3>2, <3>3, AdmitsTheLast
    <3> QED
      BY <3>1, <3>4 DEF HoldsLast, LastOf
  <2> QED
    BY <2>2, <2>3
<1>6. CASE UNCHANGED vars
  BY <1>6 DEF vars, HoldsLast, LastOf, Earlier, Contains
<1> QED
  BY <1>3, <1>4, <1>5, <1>6 DEF Next

-------------------------------------------------------------------------------
(* Step by step, the runner with the persistent FIFO is the one that        *)
(* reconstructs its evidence from the archive.                              *)

\* The operators that the two instances share.
LEMMA SharedOperators ==
  /\ \A s : Reconstructed!ToSet(s) = ToSet(s)
  /\ \A s : Reconstructed!Last(s) = Last(s)
  /\ \A s, e : Reconstructed!Contains(s, e) = Contains(s, e)
  /\ \A S : Reconstructed!Cardinality(S) = Cardinality(S)
<1>1. \A S : Reconstructed!Cardinality(S) = Cardinality(S)
  BY DEF Cardinality, Reconstructed!Cardinality
<1> QED
  BY <1>1 DEF ToSet, Last, Contains, Reconstructed!ToSet, Reconstructed!Last,
     Reconstructed!Contains

\* And those on logs.
LEMMA SharedLog ==
  /\ Reconstructed!EmptyLog = EmptyLog
  /\ \A l : Reconstructed!MayAppendAction(l) <=> MayAppendAction(l)
  /\ \A l, r, q, s : Reconstructed!ActionRecord(l, r, q, s) = ActionRecord(l, r, q, s)
  /\ \A l, r : Reconstructed!WithAction(l, r) = WithAction(l, r)
  /\ \A l, r : Reconstructed!AuthorizationFor(l, r) = AuthorizationFor(l, r)
  /\ \A l, g, q : Reconstructed!Authorizes(l, g, q) <=> Authorizes(l, g, q)
  /\ \A l, r, q, a : Reconstructed!MayAppendReveal(l, r, q, a) <=> MayAppendReveal(l, r, q, a)
  /\ \A r, q, a, e : Reconstructed!RevealRecord(r, q, a, e) = RevealRecord(r, q, a, e)
  /\ \A l, r : Reconstructed!WithReveal(l, r) = WithReveal(l, r)
<1> USE DEF NoPending, Reconstructed!NoPending, NoDigest, Reconstructed!NoDigest, Digest,
    Reconstructed!Digest
<1>1. Reconstructed!EmptyLog = EmptyLog
  BY DEF EmptyLog, Reconstructed!EmptyLog
<1>2. \A l : Reconstructed!MayAppendAction(l) <=> MayAppendAction(l)
  BY DEF MayAppendAction, Reconstructed!MayAppendAction
<1>3. \A l, r, q, s : Reconstructed!ActionRecord(l, r, q, s) = ActionRecord(l, r, q, s)
  BY DEF ActionRecord, Reconstructed!ActionRecord, ChainHead, Reconstructed!ChainHead
<1>4. \A l, r : Reconstructed!WithAction(l, r) = WithAction(l, r)
  BY DEF WithAction, Reconstructed!WithAction
<1>5. \A l, r : Reconstructed!AuthorizationFor(l, r) = AuthorizationFor(l, r)
  BY DEF AuthorizationFor, Reconstructed!AuthorizationFor
<1>6. \A l, g, q : Reconstructed!Authorizes(l, g, q) <=> Authorizes(l, g, q)
  BY DEF Authorizes, Reconstructed!Authorizes
<1>7. \A l, r, q, a : Reconstructed!MayAppendReveal(l, r, q, a) <=> MayAppendReveal(l, r, q, a)
  BY DEF MayAppendReveal, Reconstructed!MayAppendReveal
<1>8. \A r, q, a, e : Reconstructed!RevealRecord(r, q, a, e) = RevealRecord(r, q, a, e)
  BY DEF RevealRecord, Reconstructed!RevealRecord
<1>9. \A l, r : Reconstructed!WithReveal(l, r) = WithReveal(l, r)
  BY DEF WithReveal, Reconstructed!WithReveal
<1> QED
  BY <1>1, <1>2, <1>3, <1>4, <1>5, <1>6, <1>7, <1>8, <1>9

\* What both runners hand out as evidence, whenever they do.
LEMMA SameEvidence ==
  ASSUME HoldsLast, pc \in {"loop", "record"}
  PROVE  Reconstructed!Active(archive, <<>>) = Active(archive, fifo)
<1>1. Reconstructed!Active(archive, <<>>) = LastOf(archive)
  BY DEF Reconstructed!Active, Reconstructed!LastOf, LastOf
<1> QED
  BY <1>1 DEF Active, HoldsLast

LEMMA InitMaps == Init => Reconstructed!Init
  BY SharedLog DEF Init, Reconstructed!Init

LEMMA CreateStateMaps ==
  ASSUME HoldsLast, CreateState
  PROVE  Reconstructed!CreateState
<1>1. Reconstructed!Affordable = Affordable
  BY DEF Affordable, Reconstructed!Affordable
<1>2. Reconstructed!Active(archive, <<>>) = Active(archive, fifo)
  BY SameEvidence DEF CreateState
<1> QED
  BY <1>1, <1>2 DEF CreateState, Reconstructed!CreateState, Abort, Reconstructed!Abort

LEMMA SelectMaps ==
  ASSUME NEW q \in Queries, Select(q)
  PROVE  Reconstructed!Select(q)
<1>1. Reconstructed!Compared = Compared
  BY DEF Compared, Reconstructed!Compared
<1> QED
  BY <1>1 DEF Select, Reconstructed!Select

LEMMA PersistActionMaps ==
  ASSUME PersistAction
  PROVE  Reconstructed!PersistAction
  BY SharedLog DEF PersistAction, Reconstructed!PersistAction

LEMMA RevealSelectedMaps ==
  ASSUME RevealSelected
  PROVE  Reconstructed!RevealSelected
<1>1. Reconstructed!VaultReveals(selected) <=> VaultReveals(selected)
  BY SharedLog, SharedOperators DEF VaultReveals, Reconstructed!VaultReveals, AuthorizesReveal,
     Reconstructed!AuthorizesReveal
<1>2. Reconstructed!Refreshed(hull') = Refreshed(hull')
  BY SharedOperators DEF Refreshed, Reconstructed!Refreshed
<1> QED
  BY <1>1, <1>2 DEF RevealSelected, Reconstructed!RevealSelected, Abort, Reconstructed!Abort

\* The FIFO never refuses, and the other runner has nothing that could.
LEMMA AdmitMaps ==
  ASSUME IInv, HoldsLast, Admit
  PROVE  Reconstructed!Admit
<1>1. ~(Strategy = "persistent" /\ Contains(fifo, selected))
  <2>1. SUFFICES ASSUME Strategy = "persistent", Contains(fifo, selected)
                 PROVE  FALSE
    OBVIOUS
  <2>2. pc = "admit"
    BY DEF Admit
  <2>3. Earlier \in Seq(Queries) /\ ~Contains(Earlier, selected) /\ fifo = LastOf(Earlier)
    BY <2>1, <2>2, EarlierInSeq DEF HoldsLast
  <2> QED
    BY <2>1, <2>3, LastContains
<1> QED
  BY <1>1 DEF Admit, Reconstructed!Admit

LEMMA PersistRevealMaps ==
  ASSUME HoldsLast, PersistReveal
  PROVE  Reconstructed!PersistReveal
<1>1. Reconstructed!Active(archive, <<>>) = Active(archive, fifo)
  BY SameEvidence DEF PersistReveal
<1>2. Reconstructed!RevealMatchesAction <=> RevealMatchesAction
  BY SharedLog DEF RevealMatchesAction, Reconstructed!RevealMatchesAction
<1> QED
  BY <1>1, <1>2, SharedLog, SharedOperators DEF PersistReveal, Reconstructed!PersistReveal

LEMMA RaisesMap ==
  /\ SelectRaises => Reconstructed!SelectRaises
  /\ PersistRaises => Reconstructed!PersistRaises
  BY DEF SelectRaises, Reconstructed!SelectRaises, PersistRaises, Reconstructed!PersistRaises,
     Abort, Reconstructed!Abort

LEMMA EndLoopMaps ==
  ASSUME EndLoop
  PROVE  Reconstructed!EndLoop
<1>1. Reconstructed!Affordable = Affordable
  BY DEF Affordable, Reconstructed!Affordable
<1>2. Reconstructed!UniverseCovers <=> UniverseCovers
  BY SharedOperators DEF UniverseCovers, Reconstructed!UniverseCovers
<1>3. Reconstructed!Counted = Counted
  BY SharedOperators DEF Counted, Reconstructed!Counted, SelectedFinal, OracleFinal,
     Reconstructed!SelectedFinal, Reconstructed!OracleFinal
<1> QED
  BY <1>1, <1>2, <1>3 DEF EndLoop, Reconstructed!EndLoop

\* A run with the persistent FIFO is, record by record, a run that keeps no
\* evidence and reconstructs it from the archive: for any capacity, and for runs
\* that raise as for those that return.
THEOREM PersistentIsReconstructed == Spec => ExactEmulation
<1>1. Init => Reconstructed!Init /\ HoldsLast
  BY InitMaps, InitHoldsLast
<1>2. IInv /\ HoldsLast /\ [Next]_vars =>
        HoldsLast' /\ [Reconstructed!Next]_Reconstructed!vars
  <2> SUFFICES ASSUME IInv, HoldsLast, [Next]_vars
               PROVE  HoldsLast' /\ [Reconstructed!Next]_Reconstructed!vars
    OBVIOUS
  <2>1. UNCHANGED vars => UNCHANGED Reconstructed!vars
    BY DEF vars, Reconstructed!vars
  <2>2. Next => Reconstructed!Next
    BY CreateStateMaps, SelectMaps, PersistActionMaps, RevealSelectedMaps, AdmitMaps,
       PersistRevealMaps, RaisesMap, EndLoopMaps DEF Next, Reconstructed!Next
  <2> QED
    BY <2>1, <2>2, NextHoldsLast
<1> QED
  BY <1>1, <1>2, WBMInvariant, PTL DEF Spec, ExactEmulation, Reconstructed!Spec
===============================================================================

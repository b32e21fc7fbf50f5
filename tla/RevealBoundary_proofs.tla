------------------------ MODULE RevealBoundary_proofs -------------------------
(***************************************************************************)
(* Proofs about RevealBoundary, for every set of pairs, states, rounds and *)
(* evidence and for runs of any length; that it implements RevealContract. *)
(***************************************************************************)
EXTENDS RevealBoundary, DataFacts

\* The log value and the four sequences are what Append and \o expect.
Shape ==
  /\ log = [records |-> log.records, pending |-> log.pending]
  /\ AnySeq(log.records) /\ AnySeq(file) /\ AnySeq(buffer) /\ AnySeq(revealed)

\* The pending action is the latest record; a dead process has no log.
PendingIsLatest ==
  /\ log.pending # NoPending =>
       /\ log.pending = Len(log.records)
       /\ log.records[log.pending].kind = "action"
  /\ phase = "down" => log = EmptyLog

\* Every acknowledged record is on disk.
RecordsSynced ==
  \A j \in 1..Len(log.records) : \E b \in 1..synced : file[b] = log.records[j]

\* The vault reveals a pair once.
RevealedOnce ==
  \A i, j \in 1..Len(revealed) : revealed[i] = revealed[j] => i = j

IInv ==
  /\ TypeOK
  /\ Shape
  /\ PendingIsLatest
  /\ RecordsSynced
  /\ RevealedOnce
  /\ WriteAhead
  /\ RevealsAccounted

-------------------------------------------------------------------------------
(* What a write to the log does to the file.                               *)

\* The synced part of the file stays as it is and may grow.
DiskKept ==
  /\ AnySeq(file')
  /\ synced' \in 0..Len(file')
  /\ synced <= synced'
  /\ \A i \in 1..synced : file'[i] = file[i]

\* A record that reached the disk stays there.
LEMMA OnDiskKept ==
  ASSUME TypeOK, Shape, DiskKept, NEW pair, NEW kind
  PROVE  (\E i \in 1..Len(file) : OnDisk(i, kind, pair))
           => (\E i \in 1..Len(file') : OnDisk(i, kind, pair)')
<1> SUFFICES ASSUME NEW i \in 1..Len(file), OnDisk(i, kind, pair)
             PROVE  \E j \in 1..Len(file') : OnDisk(j, kind, pair)'
  OBVIOUS
<1>1. i \in 1..synced' /\ i \in 1..Len(file') /\ file'[i] = file[i]
  <2>1. Len(file) \in Nat /\ Len(file') \in Nat
    BY SeqIsAnySeq DEF Shape, DiskKept, AnySeq
  <2> QED
    BY <2>1 DEF OnDisk, DiskKept, TypeOK
<1> QED
  BY <1>1 DEF OnDisk

\* So the accounted pairs stay accounted, the write-ahead property holds of
\* what was revealed before, and the acknowledged records stay on disk.
LEMMA AccountedKept ==
  ASSUME TypeOK, Shape, DiskKept, NEW pair
  PROVE  Accounted(pair) => Accounted(pair)'
  BY OnDiskKept DEF Accounted

LEMMA WriteAheadKept ==
  ASSUME TypeOK, Shape, DiskKept, WriteAhead, UNCHANGED revealed
  PROVE  WriteAhead'
  BY OnDiskKept DEF WriteAhead

LEMMA RecordsSyncedKept ==
  ASSUME TypeOK, Shape, DiskKept, RecordsSynced, UNCHANGED log
  PROVE  RecordsSynced'
<1> SUFFICES ASSUME NEW j \in 1..Len(log.records)
             PROVE  \E b \in 1..synced' : file'[b] = log.records[j]
  BY DEF RecordsSynced
<1>1. PICK b \in 1..synced : file[b] = log.records[j]
  BY DEF RecordsSynced
<1>2. b \in 1..synced' /\ file'[b] = file[b]
  <2>1. Len(file) \in Nat /\ Len(file') \in Nat
    BY SeqIsAnySeq DEF Shape, DiskKept, AnySeq
  <2> QED
    BY <2>1 DEF DiskKept, TypeOK
<1> QED
  BY <1>1, <1>2

\* A complete write puts the record at the end of the disk.
LEMMA PersistedFacts ==
  ASSUME TypeOK, Shape, NEW record, IsRecord(record), Persisted(record)
  PROVE  /\ DiskKept
         /\ synced' = Len(file') /\ synced' \in Nat \ {0} /\ synced < synced'
         /\ file'[synced'] = record
         /\ IsLines(file)' /\ IsLines(buffer)'
         /\ AnySeq(buffer')
<1> DEFINE added == Append(buffer, record)
<1>1. /\ AnySeq(added) /\ Len(added) = Len(buffer) + 1 /\ Len(buffer) \in Nat
      /\ \A i \in 1..Len(buffer) : added[i] = buffer[i]
      /\ added[Len(buffer) + 1] = record
  BY AppendFacts DEF Shape
<1>2. AnySeq(file)
  BY DEF Shape
<1>3. file' = file \o added /\ synced' = Len(file) + Len(buffer) + 1 /\ buffer' = <<>>
  BY DEF Persisted
<1>4. \A i \in 1..Len(added) : IsRecord(added[i])
  <2> TAKE i \in 1..Len(added)
  <2>1. i \in 1..Len(buffer) \/ i = Len(buffer) + 1
    BY <1>1
  <2> QED
    BY <1>1, <2>1 DEF TypeOK, IsLines
<1> HIDE DEF added
<1>5. /\ AnySeq(file') /\ Len(file') = Len(file) + Len(added)
      /\ Len(file) \in Nat /\ Len(added) \in Nat
      /\ \A i \in 1..Len(file) : file'[i] = file[i]
      /\ \A i \in 1..Len(added) : file'[Len(file) + i] = added[i]
  <2>1. AnySeq(file \o added) /\ Len(file \o added) = Len(file) + Len(added)
    BY <1>1, <1>2, ConcatFacts
  <2>2. Len(file) \in Nat /\ Len(added) \in Nat
    BY <1>1, <1>2, ConcatFacts
  <2>3. \A i \in 1..Len(file) : (file \o added)[i] = file[i]
    BY <1>1, <1>2, ConcatFacts
  <2>4. \A i \in 1..Len(added) : (file \o added)[Len(file) + i] = added[i]
    BY <1>1, <1>2, ConcatFacts
  <2> QED
    BY <2>1, <2>2, <2>3, <2>4, <1>3
<1>6. DiskKept /\ synced < synced' /\ synced' = Len(file') /\ synced' \in Nat \ {0}
  BY <1>1, <1>3, <1>5 DEF DiskKept, TypeOK
<1>7. file'[synced'] = record
  <2>1. Len(buffer) + 1 \in 1..Len(added) /\ synced' = Len(file) + (Len(buffer) + 1)
    BY <1>1, <1>3, <1>5
  <2> QED
    BY <1>1, <1>5, <2>1
<1>8. IsLines(file)'
  <2> SUFFICES ASSUME NEW i \in 1..Len(file')
               PROVE  IsRecord(file'[i])
    BY DEF IsLines, IsRecord
  <2>1. CASE i \in 1..Len(file)
    BY <1>5, <2>1 DEF TypeOK, IsLines
  <2>2. CASE i \notin 1..Len(file)
    <3>1. i - Len(file) \in 1..Len(added) /\ Len(file) + (i - Len(file)) = i
      BY <1>5, <2>2
    <3> QED
      BY <1>4, <1>5, <3>1
  <2> QED
    BY <2>1, <2>2
<1> QED
  BY <1>3, <1>6, <1>7, <1>8, EmptyFacts DEF IsLines

\* A write that raises leaves the disk as it was.
LEMMA PersistRaisesFacts ==
  ASSUME TypeOK, Shape, NEW record, IsRecord(record), PersistRaises(record)
  PROVE  /\ DiskKept /\ UNCHANGED synced
         /\ IsLines(file)' /\ IsLines(buffer)'
         /\ AnySeq(buffer')
<1> DEFINE added == Append(buffer, record)
<1>1. /\ AnySeq(added) /\ Len(added) = Len(buffer) + 1 /\ Len(buffer) \in Nat
      /\ \A i \in 1..Len(buffer) : added[i] = buffer[i]
      /\ added[Len(buffer) + 1] = record
  BY AppendFacts DEF Shape
<1>2. AnySeq(file) /\ Len(file) \in Nat
  BY SeqIsAnySeq DEF Shape, AnySeq
<1>4. \A i \in 1..Len(added) : IsRecord(added[i])
  <2> TAKE i \in 1..Len(added)
  <2>1. i \in 1..Len(buffer) \/ i = Len(buffer) + 1
    BY <1>1
  <2> QED
    BY <1>1, <2>1 DEF TypeOK, IsLines
<1>5. CASE FlushRaises(record)
  <2>1. buffer' = added /\ UNCHANGED <<file, synced>>
    BY <1>5 DEF FlushRaises
  <2>2. IsLines(file)'
    BY <2>1 DEF TypeOK, IsLines, IsRecord
  <2> HIDE DEF added
  <2>3. IsLines(buffer)'
    BY <1>4, <2>1 DEF IsLines, IsRecord
  <2> QED
    BY <1>1, <1>2, <2>1, <2>2, <2>3 DEF DiskKept, TypeOK
<1>6. CASE FsyncRaises(record)
  <2>1. file' = file \o added /\ buffer' = <<>> /\ synced' = synced
    BY <1>6 DEF FsyncRaises
  <2> HIDE DEF added
  <2>2. /\ AnySeq(file') /\ Len(file') = Len(file) + Len(added)
        /\ Len(file) \in Nat /\ Len(added) \in Nat
        /\ \A i \in 1..Len(file) : file'[i] = file[i]
        /\ \A i \in 1..Len(added) : file'[Len(file) + i] = added[i]
    <3>1. AnySeq(file \o added) /\ Len(file \o added) = Len(file) + Len(added)
      BY <1>1, <1>2, ConcatFacts
    <3>2. Len(file) \in Nat /\ Len(added) \in Nat
      BY <1>1, <1>2, ConcatFacts
    <3>3. \A i \in 1..Len(file) : (file \o added)[i] = file[i]
      BY <1>1, <1>2, ConcatFacts
    <3>4. \A i \in 1..Len(added) : (file \o added)[Len(file) + i] = added[i]
      BY <1>1, <1>2, ConcatFacts
    <3> QED
      BY <3>1, <3>2, <3>3, <3>4, <2>1
  <2>3. DiskKept
    BY <1>1, <1>2, <2>1, <2>2 DEF DiskKept, TypeOK
  <2>4. IsLines(file)'
    <3> SUFFICES ASSUME NEW i \in 1..Len(file')
                 PROVE  IsRecord(file'[i])
      BY DEF IsLines, IsRecord
    <3>1. CASE i \in 1..Len(file)
      BY <2>2, <3>1 DEF TypeOK, IsLines
    <3>2. CASE i \notin 1..Len(file)
      <4>1. i - Len(file) \in 1..Len(added) /\ Len(file) + (i - Len(file)) = i
        BY <2>2, <3>2
      <4> QED
        BY <1>4, <2>2, <4>1
    <3> QED
      BY <3>1, <3>2
  <2> QED
    BY <2>1, <2>3, <2>4, EmptyFacts DEF IsLines
<1> QED
  BY <1>5, <1>6 DEF PersistRaises

-------------------------------------------------------------------------------
(* The invariant: one lemma per action that does more than move phases.    *)

LEMMA InitIInv == Init => IInv
  BY EmptyFacts DEF Init, IInv, TypeOK, Shape, PendingIsLatest, RecordsSynced,
     RevealedOnce, WriteAhead, RevealsAccounted, IsLines, EmptyLog, NoPending, Accounted

\* A record that append_action or append_reveal builds is a record.
LEMMA RecordTypes ==
  ASSUME NEW round \in Rounds, NEW pair \in Pairs
  PROVE  /\ \A state \in States : IsRecord(ActionRecord(log, round, pair, state))
         /\ \A action, evidence :
              evidence \in Evidence => IsRecord(RevealRecord(round, pair, action, evidence))
  BY DEF IsRecord, ActionRecord, RevealRecord

LEMMA AppendActionIInv ==
  ASSUME IInv, NEW round \in Rounds, NEW pair \in Pairs, NEW state \in States,
         AppendAction(round, pair, state)
  PROVE  IInv'
<1> DEFINE record == ActionRecord(log, round, pair, state)
<1>1. /\ IsRecord(record) /\ record.kind = "action" /\ record.pair = pair
  BY RecordTypes DEF ActionRecord
<1>2. /\ phase = "open" /\ log.pending = NoPending
      /\ Persisted(record)
      /\ log' = [records |-> Append(log.records, record), pending |-> Len(log.records) + 1]
      /\ grants' = grants \union {AuthorizationFor(log, record)}
      /\ UNCHANGED <<phase, present, revealed>>
  BY DEF AppendAction, MayAppendAction, WithAction
<1>3. TypeOK /\ Shape /\ AnySeq(log.records) /\ AnySeq(revealed)
  BY DEF IInv, Shape
<1> HIDE DEF record
<1>4. /\ DiskKept
      /\ synced' = Len(file') /\ synced' \in Nat \ {0} /\ synced < synced'
      /\ file'[synced'] = record
      /\ IsLines(file)' /\ IsLines(buffer)'
      /\ AnySeq(buffer')
  BY <1>1, <1>2, <1>3, PersistedFacts
<1>5. /\ AnySeq(log'.records) /\ Len(log'.records) = Len(log.records) + 1
      /\ Len(log.records) \in Nat
      /\ \A i \in 1..Len(log.records) : log'.records[i] = log.records[i]
      /\ log'.records[Len(log.records) + 1] = record
      /\ log'.pending = Len(log.records) + 1
      /\ log' = [records |-> log'.records, pending |-> log'.pending]
  BY <1>2, <1>3, AppendFacts
<1>6. TypeOK'
  <2>1. IsLines(log.records)'
    <3> SUFFICES ASSUME NEW i \in 1..Len(log'.records)
                 PROVE  IsRecord(log'.records[i])
      BY DEF IsLines, IsRecord
    <3>1. i \in 1..Len(log.records) \/ i = Len(log.records) + 1
      BY <1>5
    <3> QED
      BY <1>1, <1>3, <1>5, <3>1 DEF TypeOK, IsLines
  <2>2. \A grant \in grants' : grant.index \in Nat \ {0} /\ grant.pair \in Pairs
    BY <1>1, <1>2, <1>3, <1>5 DEF TypeOK, AuthorizationFor
  <2>3. log'.pending \in 0..Len(log'.records) /\ synced' \in 0..Len(file')
    BY <1>4, <1>5 DEF DiskKept
  <2> QED
    BY <1>2, <1>3, <1>4, <2>1, <2>2, <2>3 DEF TypeOK
<1>7. Shape'
  BY <1>2, <1>3, <1>4, <1>5 DEF Shape, DiskKept
<1>8. PendingIsLatest'
  BY <1>1, <1>2, <1>5 DEF PendingIsLatest, NoPending
<1>9. RecordsSynced'
  <2> SUFFICES ASSUME NEW j \in 1..Len(log'.records)
               PROVE  \E b \in 1..synced' : file'[b] = log'.records[j]
    BY DEF RecordsSynced
  <2>1. CASE j \in 1..Len(log.records)
    <3>1. PICK b \in 1..synced : file[b] = log.records[j]
      BY <2>1 DEF IInv, RecordsSynced
    <3>2. b \in 1..synced' /\ file'[b] = file[b]
      <4>1. Len(file) \in Nat
        BY <1>3, SeqIsAnySeq DEF Shape, AnySeq
      <4> QED
        BY <1>3, <1>4, <4>1 DEF DiskKept, TypeOK
    <3> QED
      BY <1>5, <2>1, <3>1, <3>2
  <2>2. CASE j = Len(log.records) + 1
    BY <1>4, <1>5, <2>2
  <2> QED
    BY <1>5, <2>1, <2>2
<1>10. RevealedOnce'
  BY <1>2 DEF IInv, RevealedOnce
<1>11. WriteAhead'
  BY <1>2, <1>3, <1>4, WriteAheadKept DEF IInv
<1>12. RevealsAccounted'
  <2>1. \A i \in 1..Len(revealed) : Accounted(revealed[i])
    BY <1>2 DEF IInv, RevealsAccounted
  <2>2. \A i \in 1..Len(revealed) : Accounted(revealed[i])'
    BY <1>2, <1>3, <1>4, <2>1, AccountedKept
  <2> QED
    BY <1>2, <2>2 DEF RevealsAccounted
<1> QED
  BY <1>6, <1>7, <1>8, <1>9, <1>10, <1>11, <1>12 DEF IInv

LEMMA AppendRevealIInv ==
  ASSUME IInv, NEW round \in Rounds, NEW pair \in Pairs, NEW action,
         NEW evidence \in Evidence, AppendReveal(round, pair, action, evidence)
  PROVE  IInv'
<1> DEFINE record == RevealRecord(round, pair, action, evidence)
<1>1. IsRecord(record) /\ record.kind = "reveal" /\ record.pair = pair
  BY RecordTypes DEF RevealRecord
<1>2. /\ phase = "open" /\ log.pending # NoPending
      /\ log.records[log.pending].pair = pair
      /\ Persisted(record)
      /\ log' = [records |-> Append(log.records, record), pending |-> NoPending]
      /\ UNCHANGED <<phase, present, grants, revealed>>
  BY DEF AppendReveal, MayAppendReveal, WithReveal
<1>3. TypeOK /\ Shape /\ AnySeq(log.records) /\ AnySeq(revealed)
  BY DEF IInv, Shape
<1> HIDE DEF record
<1>4. /\ DiskKept
      /\ synced' = Len(file') /\ synced' \in Nat \ {0} /\ synced < synced'
      /\ file'[synced'] = record
      /\ IsLines(file)' /\ IsLines(buffer)'
      /\ AnySeq(buffer')
  BY <1>1, <1>2, <1>3, PersistedFacts
<1>5. /\ AnySeq(log'.records) /\ Len(log'.records) = Len(log.records) + 1
      /\ Len(log.records) \in Nat
      /\ \A i \in 1..Len(log.records) : log'.records[i] = log.records[i]
      /\ log'.records[Len(log.records) + 1] = record
      /\ log'.pending = 0
      /\ log' = [records |-> log'.records, pending |-> log'.pending]
  BY <1>2, <1>3, AppendFacts DEF NoPending
<1>6. TypeOK'
  <2>1. IsLines(log.records)'
    <3> SUFFICES ASSUME NEW i \in 1..Len(log'.records)
                 PROVE  IsRecord(log'.records[i])
      BY DEF IsLines, IsRecord
    <3>1. i \in 1..Len(log.records) \/ i = Len(log.records) + 1
      BY <1>5
    <3> QED
      BY <1>1, <1>3, <1>5, <3>1 DEF TypeOK, IsLines
  <2>2. log'.pending \in 0..Len(log'.records) /\ synced' \in 0..Len(file')
    BY <1>4, <1>5 DEF DiskKept
  <2> QED
    BY <1>2, <1>3, <1>4, <2>1, <2>2 DEF TypeOK
<1>7. Shape'
  BY <1>2, <1>3, <1>4, <1>5 DEF Shape, DiskKept
<1>8. PendingIsLatest'
  BY <1>1, <1>2, <1>5 DEF PendingIsLatest, NoPending
<1>9. RecordsSynced'
  <2> SUFFICES ASSUME NEW j \in 1..Len(log'.records)
               PROVE  \E b \in 1..synced' : file'[b] = log'.records[j]
    BY DEF RecordsSynced
  <2>1. CASE j \in 1..Len(log.records)
    <3>1. PICK b \in 1..synced : file[b] = log.records[j]
      BY <2>1 DEF IInv, RecordsSynced
    <3>2. b \in 1..synced' /\ file'[b] = file[b]
      <4>1. Len(file) \in Nat
        BY <1>3, SeqIsAnySeq DEF Shape, AnySeq
      <4> QED
        BY <1>3, <1>4, <4>1 DEF DiskKept, TypeOK
    <3> QED
      BY <1>5, <2>1, <3>1, <3>2
  <2>2. CASE j = Len(log.records) + 1
    BY <1>4, <1>5, <2>2
  <2> QED
    BY <1>5, <2>1, <2>2
<1>10. RevealedOnce'
  BY <1>2 DEF IInv, RevealedOnce
<1>11. WriteAhead'
  BY <1>2, <1>3, <1>4, WriteAheadKept DEF IInv
<1>12. RevealsAccounted'
  <2>1. Accounted(pair)'
    BY <1>1, <1>4 DEF Accounted, OnDisk
  <2>2. \A i \in 1..Len(revealed) : Accounted(revealed[i])'
    <3> TAKE i \in 1..Len(revealed)
    <3>1. Accounted(revealed[i]) \/ revealed[i] = pair
      BY <1>2 DEF IInv, RevealsAccounted
    <3>2. Accounted(revealed[i]) => Accounted(revealed[i])'
      BY <1>2, <1>3, <1>4, AccountedKept
    <3> QED
      BY <1>2, <2>1, <3>1, <3>2
  <2> QED
    BY <1>2, <2>2 DEF RevealsAccounted
<1> QED
  BY <1>6, <1>7, <1>8, <1>9, <1>10, <1>11, <1>12 DEF IInv

\* A write that raises changes only the file and the buffer.
LEMMA PersistRaisesIInv ==
  ASSUME IInv, NEW record, IsRecord(record), PersistRaises(record),
         UNCHANGED <<phase, present, log, grants, revealed>>
  PROVE  IInv'
<1>1. TypeOK /\ Shape
  BY DEF IInv
<1>2. /\ DiskKept /\ UNCHANGED synced
      /\ IsLines(file)' /\ IsLines(buffer)'
      /\ AnySeq(buffer')
  BY <1>1, PersistRaisesFacts
<1>3. TypeOK'
  BY <1>1, <1>2 DEF TypeOK, DiskKept, IsLines, IsRecord
<1>4. Shape'
  BY <1>1, <1>2 DEF Shape, DiskKept
<1>5. RecordsSynced' /\ WriteAhead'
  BY <1>1, <1>2, RecordsSyncedKept, WriteAheadKept DEF IInv
<1>6. RevealsAccounted'
  <2>1. \A i \in 1..Len(revealed) : Accounted(revealed[i]) => Accounted(revealed[i])'
    BY <1>1, <1>2, AccountedKept
  <2> QED
    BY <2>1 DEF IInv, RevealsAccounted
<1> QED
  BY <1>3, <1>4, <1>5, <1>6 DEF IInv, PendingIsLatest, RevealedOnce

LEMMA RevealIInv ==
  ASSUME IInv, NEW pair, NEW authorization, Reveal(pair, authorization)
  PROVE  IInv'
<1>1. /\ phase # "down" /\ log.pending # NoPending
      /\ log.records[log.pending].pair = pair
      /\ \A i \in 1..Len(revealed) : revealed[i] # pair
      /\ pair \in Matching
      /\ revealed' = Append(revealed, pair)
      /\ UNCHANGED <<phase, present, log, file, synced, buffer, grants>>
  BY DEF Reveal, Authorizes
<1>2. TypeOK /\ Shape /\ AnySeq(revealed) /\ AnySeq(log.records)
  BY DEF IInv, Shape
<1>3. /\ AnySeq(revealed') /\ Len(revealed') = Len(revealed) + 1
      /\ Len(revealed) \in Nat
      /\ \A i \in 1..Len(revealed) : revealed'[i] = revealed[i]
      /\ revealed'[Len(revealed) + 1] = pair
  BY <1>1, <1>2, AppendFacts
<1>4. \A i \in 1..Len(revealed') : i \in 1..Len(revealed) \/ i = Len(revealed) + 1
  BY <1>3
<1>5. TypeOK'
  <2>1. \A i \in 1..Len(revealed') : revealed'[i] \in Matching
    BY <1>1, <1>2, <1>3, <1>4 DEF TypeOK
  <2> QED
    BY <1>1, <1>2, <2>1 DEF TypeOK, IsLines, IsRecord
<1>6. Shape'
  BY <1>1, <1>2, <1>3 DEF Shape
<1>7. PendingIsLatest' /\ RecordsSynced'
  BY <1>1 DEF IInv, PendingIsLatest, RecordsSynced
<1>8. RevealedOnce'
  <2> SUFFICES ASSUME NEW i \in 1..Len(revealed'), NEW j \in 1..Len(revealed'),
                      revealed'[i] = revealed'[j]
               PROVE  i = j
    BY DEF RevealedOnce
  <2> QED
    BY <1>1, <1>3, <1>4 DEF IInv, RevealedOnce
<1>9. \E b \in 1..Len(file) : OnDisk(b, "action", pair)
  <2>1. /\ log.pending \in 1..Len(log.records)
        /\ log.records[log.pending].kind = "action"
    BY <1>1, <1>2 DEF IInv, PendingIsLatest, TypeOK, NoPending
  <2>2. PICK b \in 1..synced : file[b] = log.records[log.pending]
    BY <2>1 DEF IInv, RecordsSynced
  <2>3. b \in 1..Len(file)
    <3>1. Len(file) \in Nat
      BY <1>2, SeqIsAnySeq DEF Shape, AnySeq
    <3> QED
      BY <1>2, <3>1 DEF TypeOK
  <2> QED
    BY <1>1, <2>1, <2>2, <2>3 DEF OnDisk
<1>10. WriteAhead'
  <2> SUFFICES ASSUME NEW i \in 1..Len(revealed')
               PROVE  \E b \in 1..Len(file) : OnDisk(b, "action", revealed'[i])
    BY <1>1 DEF WriteAhead, OnDisk
  <2>1. CASE i \in 1..Len(revealed)
    BY <1>3, <2>1 DEF IInv, WriteAhead
  <2>2. CASE i = Len(revealed) + 1
    BY <1>3, <1>9, <2>2
  <2> QED
    BY <1>4, <2>1, <2>2
<1>11. RevealsAccounted'
  <2>1. \A i \in 1..Len(revealed) : Accounted(revealed[i])
    BY <1>1 DEF IInv, RevealsAccounted
  <2>2. \A i \in 1..Len(revealed') :
          Accounted(revealed'[i]) \/ (i = Len(revealed) + 1 /\ revealed'[i] = pair)
    BY <1>3, <1>4, <2>1
  <2>3. \A p : Accounted(p)' <=> Accounted(p)
    BY <1>1 DEF Accounted, OnDisk
  <2> QED
    BY <1>1, <2>2, <2>3 DEF RevealsAccounted
<1> QED
  BY <1>5, <1>6, <1>7, <1>8, <1>10, <1>11 DEF IInv

\* The process ends: what is on disk stays, the log in memory is gone.
LEMMA DownIInv ==
  ASSUME IInv, DiskKept, UNCHANGED <<present, synced, revealed>>,
         phase' = "down", log' = EmptyLog, buffer' = <<>>, grants' = {}, IsLines(file)'
  PROVE  IInv'
<1>1. TypeOK /\ Shape /\ AnySeq(revealed)
  BY DEF IInv, Shape
<1>2. TypeOK'
  BY <1>1, EmptyFacts DEF TypeOK, EmptyLog, NoPending, IsLines, DiskKept
<1>3. Shape'
  BY <1>1, EmptyFacts DEF Shape, EmptyLog, DiskKept
<1>4. PendingIsLatest' /\ RecordsSynced'
  BY EmptyFacts DEF PendingIsLatest, RecordsSynced, EmptyLog, NoPending
<1>5. WriteAhead'
  BY <1>1, WriteAheadKept DEF IInv
<1>6. RevealsAccounted'
  <2>1. \A i \in 1..Len(revealed) : Accounted(revealed[i]) => Accounted(revealed[i])'
    BY <1>1, AccountedKept
  <2> QED
    BY <2>1 DEF IInv, RevealsAccounted
<1> QED
  BY <1>2, <1>3, <1>4, <1>5, <1>6 DEF IInv, RevealedOnce

LEMMA KillIInv ==
  ASSUME IInv, Kill
  PROVE  IInv'
<1>1. DiskKept /\ IsLines(file)'
  BY DEF Kill, IInv, TypeOK, Shape, DiskKept, IsLines, IsRecord
<1> QED
  BY <1>1, DownIInv DEF Kill

LEMMA PowerLossIInv ==
  ASSUME IInv, PowerLoss
  PROVE  IInv'
<1>1. PICK n \in synced..Len(file) : file' = SubSeq(file, 1, n)
  BY DEF PowerLoss
<1>2. AnySeq(file) /\ Len(file) \in Nat /\ synced \in 0..Len(file) /\ IsLines(file)
  BY SeqIsAnySeq DEF IInv, Shape, AnySeq, TypeOK
<1>3. n \in 0..Len(file)
  BY <1>2
<1>4. /\ AnySeq(file') /\ Len(file') = n
      /\ \A i \in 1..n : file'[i] = file[i]
  BY <1>1, <1>2, <1>3, PrefixFacts
<1>5. DiskKept /\ IsLines(file)'
  BY <1>2, <1>3, <1>4 DEF PowerLoss, DiskKept, IsLines, IsRecord
<1> QED
  BY <1>5, DownIInv DEF PowerLoss

LEMMA CloseIInv ==
  ASSUME IInv, Close
  PROVE  IInv'
<1>1. TypeOK /\ Shape /\ AnySeq(file) /\ AnySeq(buffer)
  BY DEF IInv, Shape
<1>2. /\ phase = "open" /\ phase' = "closed"
      /\ file' = file \o buffer /\ buffer' = <<>>
      /\ UNCHANGED <<present, log, synced, grants, revealed>>
  BY DEF Close
<1>3. AnySeq(file \o buffer) /\ Len(file \o buffer) = Len(file) + Len(buffer)
  BY <1>1, ConcatFacts
<1>4. Len(file) \in Nat /\ Len(buffer) \in Nat
  BY <1>1, ConcatFacts
<1>5. \A i \in 1..Len(file) : file'[i] = file[i]
  BY <1>1, <1>2, ConcatFacts
<1>6. \A i \in 1..Len(buffer) : file'[Len(file) + i] = buffer[i]
  BY <1>1, <1>2, ConcatFacts
<1>7. DiskKept
  BY <1>1, <1>2, <1>3, <1>4, <1>5 DEF DiskKept, TypeOK
<1>8. IsLines(file)'
  <2> SUFFICES ASSUME NEW i \in 1..Len(file')
               PROVE  IsRecord(file'[i])
    BY DEF IsLines, IsRecord
  <2>1. CASE i \in 1..Len(file)
    BY <1>1, <1>5, <2>1 DEF TypeOK, IsLines
  <2>2. CASE i \notin 1..Len(file)
    <3>1. i - Len(file) \in 1..Len(buffer) /\ Len(file) + (i - Len(file)) = i
      BY <1>2, <1>3, <1>4, <2>2
    <3> QED
      BY <1>1, <1>6, <3>1 DEF TypeOK, IsLines
  <2> QED
    BY <2>1, <2>2
<1>9. TypeOK'
  BY <1>1, <1>2, <1>7, <1>8, EmptyFacts DEF TypeOK, IsLines, IsRecord, DiskKept
<1>10. Shape'
  BY <1>1, <1>2, <1>7, EmptyFacts DEF Shape, DiskKept
<1>11. RecordsSynced' /\ WriteAhead'
  BY <1>1, <1>2, <1>7, RecordsSyncedKept, WriteAheadKept DEF IInv
<1>12. RevealsAccounted'
  <2>1. \A i \in 1..Len(revealed) : Accounted(revealed[i]) => Accounted(revealed[i])'
    BY <1>1, <1>2, <1>7, AccountedKept
  <2> QED
    BY <1>2, <2>1 DEF IInv, RevealsAccounted
<1> QED
  BY <1>2, <1>9, <1>10, <1>11, <1>12 DEF IInv, PendingIsLatest, RevealedOnce

LEMMA UnlinkIInv ==
  ASSUME IInv, Unlink
  PROVE  IInv'
<1>1. present' = FALSE /\ UNCHANGED <<phase, log, file, synced, buffer, grants, revealed>>
  BY DEF Unlink
<1>2. TypeOK'
  BY <1>1 DEF IInv, TypeOK, IsLines, IsRecord
<1>3. WriteAhead'
  BY <1>1 DEF IInv, WriteAhead, OnDisk
<1>4. RevealsAccounted'
  BY <1>1 DEF IInv, RevealsAccounted, Accounted, OnDisk
<1> QED
  BY <1>1, <1>2, <1>3, <1>4 DEF IInv, Shape, PendingIsLatest, RecordsSynced, RevealedOnce

LEMMA ReopenIInv ==
  ASSUME IInv, Reopen
  PROVE  IInv'
<1>1. /\ log' = EmptyLog /\ phase' = "open" /\ present' = TRUE
      /\ file' = <<>> /\ synced' = 0 /\ revealed' = <<>>
      /\ UNCHANGED <<buffer, grants>>
  BY DEF Reopen, IInv, PendingIsLatest
<1>2. TypeOK'
  BY <1>1, EmptyFacts DEF IInv, TypeOK, EmptyLog, NoPending, IsLines, IsRecord
<1> QED
  BY <1>1, <1>2, EmptyFacts DEF IInv, Shape, PendingIsLatest, RecordsSynced, RevealedOnce,
     WriteAhead, RevealsAccounted, EmptyLog, NoPending

LEMMA NextIInv ==
  ASSUME IInv, [Next]_vars
  PROVE  IInv'
<1>1. ASSUME NEW round \in Rounds, NEW pair \in Pairs, NEW state \in States,
             AppendAction(round, pair, state)
      PROVE  IInv'
  BY <1>1, AppendActionIInv
<1>2. ASSUME NEW round \in Rounds, NEW pair \in Pairs, NEW state \in States,
             AppendActionRaises(round, pair, state)
      PROVE  IInv'
  <2>1. IsRecord(ActionRecord(log, round, pair, state))
    BY RecordTypes
  <2> QED
    BY <1>2, <2>1, PersistRaisesIInv DEF AppendActionRaises
<1>3. ASSUME NEW pair \in Pairs, NEW authorization \in grants, Reveal(pair, authorization)
      PROVE  IInv'
  BY <1>3, RevealIInv
<1>4. ASSUME NEW authorization \in grants, NEW round \in Rounds, NEW evidence \in Evidence,
             AppendReveal(round, authorization.pair, authorization.digest, evidence)
      PROVE  IInv'
  <2>1. authorization.pair \in Pairs
    BY DEF IInv, TypeOK
  <2> QED
    BY <1>4, <2>1, AppendRevealIInv
<1>5. ASSUME NEW authorization \in grants, NEW round \in Rounds, NEW evidence \in Evidence,
             AppendRevealRaises(round, authorization.pair, authorization.digest, evidence)
      PROVE  IInv'
  <2>1. IsRecord(RevealRecord(round, authorization.pair, authorization.digest, evidence))
    BY RecordTypes DEF IInv, TypeOK
  <2> QED
    BY <1>5, <2>1, PersistRaisesIInv DEF AppendRevealRaises
<1>6. CASE UNCHANGED vars
  BY <1>6 DEF vars, IInv, TypeOK, Shape, PendingIsLatest, RecordsSynced, RevealedOnce,
     WriteAhead, RevealsAccounted, Accounted, OnDisk, IsLines, IsRecord
<1> QED
  BY <1>1, <1>2, <1>3, <1>4, <1>5, <1>6,
     CloseIInv, UnlinkIInv, KillIInv, PowerLossIInv, ReopenIInv DEF Next

\* The invariant holds of every run of the boundary.
THEOREM BoundaryInvariant == Spec => []IInv
<1>1. Init => IInv
  BY InitIInv
<1>2. IInv /\ [Next]_vars => IInv'
  BY NextIInv
<1> QED
  BY <1>1, <1>2, PTL DEF Spec

\* The variables keep their shapes.
THEOREM BoundaryTypeOK == Spec => []TypeOK
<1>1. IInv => TypeOK
  BY DEF IInv
<1> QED
  BY <1>1, BoundaryInvariant, PTL

\* No outcome is handed out whose selection is not on disk, whatever the
\* callers do, whichever writes fail and whenever the process dies.
THEOREM SelectionsBeforeReveals == Spec => []WriteAhead
<1>1. IInv => WriteAhead
  BY DEF IInv
<1> QED
  BY <1>1, BoundaryInvariant, PTL

\* At any moment at most one outcome handed out has no reveal record on
\* disk, and it is the outcome of the action in flight.
THEOREM AtMostOneUnaccounted == Spec => []RevealsAccounted
<1>1. IInv => RevealsAccounted
  BY DEF IInv
<1> QED
  BY <1>1, BoundaryInvariant, PTL

-------------------------------------------------------------------------------
(* What the disk keeps: the acknowledged records in their order, and, while *)
(* the path names the file, every line that ever reached it.                *)

\* Every step but the opening of a new file keeps what is on disk.
LEMMA StepKeepsDisk ==
  ASSUME IInv, Next
  PROVE  DiskKept \/ Reopen
<1>1. TypeOK /\ Shape /\ AnySeq(file) /\ AnySeq(buffer)
  BY DEF IInv, Shape
<1>2. Len(file) \in Nat /\ synced \in 0..Len(file)
  BY <1>1, SeqIsAnySeq DEF AnySeq, TypeOK
<1>3. ASSUME UNCHANGED <<file, synced>>
      PROVE  DiskKept
  BY <1>1, <1>2, <1>3 DEF DiskKept
<1>4. ASSUME NEW round \in Rounds, NEW pair \in Pairs, NEW state \in States,
             AppendAction(round, pair, state) \/ AppendActionRaises(round, pair, state)
      PROVE  DiskKept
  <2>1. IsRecord(ActionRecord(log, round, pair, state))
    BY RecordTypes
  <2> QED
    BY <1>1, <1>4, <2>1, PersistedFacts, PersistRaisesFacts DEF AppendAction, AppendActionRaises
<1>5. ASSUME NEW authorization \in grants, NEW round \in Rounds, NEW evidence \in Evidence,
             \/ AppendReveal(round, authorization.pair, authorization.digest, evidence)
             \/ AppendRevealRaises(round, authorization.pair, authorization.digest, evidence)
      PROVE  DiskKept
  <2>1. IsRecord(RevealRecord(round, authorization.pair, authorization.digest, evidence))
    BY <1>1, RecordTypes DEF TypeOK
  <2> QED
    BY <1>1, <1>5, <2>1, PersistedFacts, PersistRaisesFacts DEF AppendReveal, AppendRevealRaises
<1>6. ASSUME NEW pair \in Pairs, NEW authorization \in grants, Reveal(pair, authorization)
      PROVE  DiskKept
  BY <1>3, <1>6 DEF Reveal
<1>7. CASE Close
  <2>1. AnySeq(file \o buffer) /\ Len(file \o buffer) = Len(file) + Len(buffer)
    BY <1>1, ConcatFacts
  <2>2. Len(buffer) \in Nat /\ \A i \in 1..Len(file) : (file \o buffer)[i] = file[i]
    BY <1>1, ConcatFacts
  <2> QED
    BY <1>2, <1>7, <2>1, <2>2 DEF Close, DiskKept
<1>8. CASE Unlink \/ Kill
  BY <1>3, <1>8 DEF Unlink, Kill
<1>9. CASE PowerLoss
  <2>1. PICK n \in synced..Len(file) : file' = SubSeq(file, 1, n)
    BY <1>9 DEF PowerLoss
  <2>2. n \in 0..Len(file)
    BY <1>2
  <2>3. /\ AnySeq(file') /\ Len(file') = n
        /\ \A i \in 1..n : file'[i] = file[i]
    BY <1>1, <2>1, <2>2, PrefixFacts
  <2> QED
    BY <1>2, <1>9, <2>3 DEF PowerLoss, DiskKept
<1> QED
  BY <1>4, <1>5, <1>6, <1>7, <1>8, <1>9 DEF Next

\* Acknowledged records that are on disk in their order stay so.
LEMMA AcknowledgedKept ==
  ASSUME IInv, DiskKept, AcknowledgedOnDisk, log'.records = log.records
  PROVE  AcknowledgedOnDisk'
<1>1. Len(file) \in Nat /\ Len(file') \in Nat /\ synced \in 0..Len(file)
  BY SeqIsAnySeq DEF IInv, Shape, DiskKept, AnySeq, TypeOK
<1> SUFFICES ASSUME NEW j \in 1..Len(log.records)
             PROVE  \E b \in 1..synced' :
                      /\ file'[b] = log.records[j]
                      /\ \A i \in 1..(j - 1) : \E a \in 1..(b - 1) : file'[a] = log.records[i]
  BY DEF AcknowledgedOnDisk
<1>2. PICK b \in 1..synced :
        /\ file[b] = log.records[j]
        /\ \A i \in 1..(j - 1) : \E a \in 1..(b - 1) : file[a] = log.records[i]
  BY DEF AcknowledgedOnDisk
<1>3. b \in 1..synced' /\ \A a \in 1..b : file'[a] = file[a]
  BY <1>1 DEF DiskKept
<1>4. \A i \in 1..(j - 1) : \E a \in 1..(b - 1) : file'[a] = log.records[i]
  <2> TAKE i \in 1..(j - 1)
  <2>1. PICK a \in 1..(b - 1) : file[a] = log.records[i]
    BY <1>2
  <2> QED
    BY <1>1, <1>3, <2>1
<1> QED
  BY <1>1, <1>2, <1>3, <1>4

\* A record is acknowledged when it is the last line of the disk, behind all
\* that were acknowledged before it.
LEMMA AcknowledgedExtended ==
  ASSUME IInv, AcknowledgedOnDisk, NEW record, IsRecord(record), Persisted(record),
         log'.records = Append(log.records, record)
  PROVE  AcknowledgedOnDisk'
<1>1. TypeOK /\ Shape /\ AnySeq(log.records)
  BY DEF IInv, Shape
<1>2. /\ DiskKept
      /\ synced' = Len(file') /\ synced' \in Nat \ {0} /\ synced < synced'
      /\ file'[synced'] = record
  BY <1>1, PersistedFacts
<1>3. /\ Len(log'.records) = Len(log.records) + 1 /\ Len(log.records) \in Nat
      /\ \A i \in 1..Len(log.records) : log'.records[i] = log.records[i]
      /\ log'.records[Len(log.records) + 1] = record
  BY <1>1, AppendFacts
<1>4. Len(file) \in Nat /\ synced \in 0..Len(file)
  BY <1>1, SeqIsAnySeq DEF Shape, AnySeq, TypeOK
<1> SUFFICES ASSUME NEW j \in 1..Len(log'.records)
             PROVE  \E b \in 1..synced' :
                      /\ file'[b] = log'.records[j]
                      /\ \A i \in 1..(j - 1) : \E a \in 1..(b - 1) : file'[a] = log'.records[i]
  BY DEF AcknowledgedOnDisk
<1>5. CASE j \in 1..Len(log.records)
  <2>1. PICK b \in 1..synced :
          /\ file[b] = log.records[j]
          /\ \A i \in 1..(j - 1) : \E a \in 1..(b - 1) : file[a] = log.records[i]
    BY <1>5 DEF AcknowledgedOnDisk
  <2>2. b \in 1..synced' /\ \A a \in 1..b : file'[a] = file[a]
    BY <1>2, <1>4 DEF DiskKept
  <2>3. \A i \in 1..(j - 1) : \E a \in 1..(b - 1) : file'[a] = log'.records[i]
    <3> TAKE i \in 1..(j - 1)
    <3>1. PICK a \in 1..(b - 1) : file[a] = log.records[i]
      BY <2>1
    <3>2. i \in 1..Len(log.records) /\ a \in 1..b
      BY <1>3, <1>4, <1>5
    <3> QED
      BY <1>3, <2>2, <3>1, <3>2
  <2> QED
    BY <1>3, <1>5, <2>1, <2>2, <2>3
<1>6. CASE j = Len(log.records) + 1
  <2>1. synced' \in 1..synced' /\ file'[synced'] = log'.records[j]
    BY <1>2, <1>3, <1>6
  <2>2. \A i \in 1..(j - 1) : \E a \in 1..(synced' - 1) : file'[a] = log'.records[i]
    <3> TAKE i \in 1..(j - 1)
    <3>1. i \in 1..Len(log.records)
      BY <1>3, <1>6
    <3>2. PICK a \in 1..synced : file[a] = log.records[i]
      BY <3>1 DEF IInv, RecordsSynced
    <3>3. a \in 1..(synced' - 1) /\ file'[a] = file[a]
      BY <1>2, <1>4 DEF DiskKept
    <3> QED
      BY <1>3, <3>1, <3>2, <3>3
  <2> QED
    BY <2>1, <2>2
<1> QED
  BY <1>3, <1>5, <1>6

LEMMA AcknowledgedEmpty == log'.records = <<>> => AcknowledgedOnDisk'
  BY EmptyFacts DEF AcknowledgedOnDisk

LEMMA NextAcknowledged ==
  ASSUME IInv, AcknowledgedOnDisk, [Next]_vars
  PROVE  AcknowledgedOnDisk'
<1>1. ASSUME NEW round \in Rounds, NEW pair \in Pairs, NEW state \in States,
             AppendAction(round, pair, state)
      PROVE  AcknowledgedOnDisk'
  <2>1. IsRecord(ActionRecord(log, round, pair, state))
    BY RecordTypes
  <2> QED
    BY <1>1, <2>1, AcknowledgedExtended DEF AppendAction, WithAction
<1>2. ASSUME NEW authorization \in grants, NEW round \in Rounds, NEW evidence \in Evidence,
             AppendReveal(round, authorization.pair, authorization.digest, evidence)
      PROVE  AcknowledgedOnDisk'
  <2>1. IsRecord(RevealRecord(round, authorization.pair, authorization.digest, evidence))
    BY RecordTypes DEF IInv, TypeOK
  <2> QED
    BY <1>2, <2>1, AcknowledgedExtended DEF AppendReveal, WithReveal
<1>3. CASE Kill \/ PowerLoss \/ Reopen
  <2>1. log' = EmptyLog
    BY <1>3 DEF Kill, PowerLoss, Reopen, IInv, PendingIsLatest
  <2> QED
    BY <2>1, AcknowledgedEmpty DEF EmptyLog
<1>4. CASE UNCHANGED vars
  BY <1>4 DEF vars, AcknowledgedOnDisk
<1>5. ASSUME Next, UNCHANGED log, ~Reopen
      PROVE  AcknowledgedOnDisk'
  BY <1>5, StepKeepsDisk, AcknowledgedKept
<1> QED
  BY <1>1, <1>2, <1>3, <1>4, <1>5
     DEF Next, AppendActionRaises, AppendRevealRaises, Reveal, Close, Unlink

\* Whatever writes fail in between, a record the log acknowledged is on disk
\* behind every record it acknowledged before.
THEOREM AcknowledgedRecordsAreDurable == Spec => []AcknowledgedOnDisk
<1>1. Init => AcknowledgedOnDisk
  BY EmptyFacts DEF Init, AcknowledgedOnDisk, EmptyLog
<1>2. IInv /\ AcknowledgedOnDisk /\ [Next]_vars => AcknowledgedOnDisk'
  BY NextAcknowledged
<1> QED
  BY <1>1, <1>2, BoundaryInvariant, PTL DEF Spec

\* As long as the path names the file, no step of the log, of its callers or
\* of the environment changes or removes a line that is on disk.
THEOREM RunsAreNeverOverwritten == Spec => NeverOverwritten
<1> DEFINE A == present => /\ Len(file') >= synced
                           /\ \A i \in 1..synced : file'[i] = file[i]
<1>1. ASSUME IInv, [Next]_vars
      PROVE  [A]_vars
  <2>1. ASSUME DiskKept
        PROVE  A
    <3>1. Len(file') \in Nat /\ Len(file) \in Nat
      BY <1>1, <2>1, SeqIsAnySeq DEF IInv, Shape, DiskKept, AnySeq
    <3> QED
      BY <1>1, <2>1, <3>1 DEF DiskKept, IInv, TypeOK
  <2>2. CASE Reopen
    BY <2>2 DEF Reopen
  <2> HIDE DEF A
  <2> QED
    BY <1>1, <2>1, <2>2, StepKeepsDisk
<1>2. []IInv /\ [][Next]_vars => [][A]_vars
  BY <1>1, PTL
<1> QED
  BY <1>2, BoundaryInvariant, PTL DEF Spec, NeverOverwritten

-------------------------------------------------------------------------------
(* The boundary implements RevealContract, and the action properties.       *)

\* A reveal line that is not yet on disk belongs to the pending action: it
\* is what a failed append_reveal left behind.
LooseReveal(line) ==
  line.kind = "reveal" =>
    log.pending # NoPending /\ log.records[log.pending].pair = line.pair

LooseReveals ==
  IF phase = "down"
  THEN buffer = <<>>
  ELSE /\ \A i \in 1..Len(file) : i > synced => LooseReveal(file[i])
       /\ \A i \in 1..Len(buffer) : LooseReveal(buffer[i])

LEMMA LooseInit == Init => LooseReveals
  BY EmptyFacts DEF Init, LooseReveals

\* Where the lines of the file come from when a record is persisted.
LEMMA PersistedLines ==
  ASSUME TypeOK, Shape, NEW record, Persisted(record)
  PROVE  \A i \in 1..Len(file') :
           \/ i \in 1..Len(file) /\ file'[i] = file[i]
           \/ \E k \in 1..Len(buffer) : file'[i] = buffer[k]
           \/ i = synced' /\ file'[i] = record
<1> DEFINE added == Append(buffer, record)
<1>1. /\ AnySeq(added) /\ Len(added) = Len(buffer) + 1 /\ Len(buffer) \in Nat
      /\ \A i \in 1..Len(buffer) : added[i] = buffer[i]
      /\ added[Len(buffer) + 1] = record
  BY AppendFacts DEF Shape
<1>2. AnySeq(file)
  BY DEF Shape
<1>3. file' = file \o added /\ synced' = Len(file) + Len(buffer) + 1
  BY DEF Persisted
<1> HIDE DEF added
<1>4. Len(file') = Len(file) + Len(added) /\ Len(file) \in Nat
  BY <1>1, <1>2, <1>3, ConcatFacts
<1>5. \A i \in 1..Len(file) : file'[i] = file[i]
  BY <1>1, <1>2, <1>3, ConcatFacts
<1>6. \A i \in 1..Len(added) : file'[Len(file) + i] = added[i]
  BY <1>1, <1>2, <1>3, ConcatFacts
<1> TAKE i \in 1..Len(file')
<1>7. CASE i \in 1..Len(file)
  BY <1>5, <1>7
<1>8. CASE i \notin 1..Len(file)
  <2>1. i - Len(file) \in 1..Len(added) /\ Len(file) + (i - Len(file)) = i
    BY <1>1, <1>4, <1>8
  <2>2. file'[i] = added[i - Len(file)]
    BY <1>6, <2>1
  <2>3. CASE i - Len(file) \in 1..Len(buffer)
    BY <1>1, <2>2, <2>3
  <2>4. CASE i - Len(file) = Len(buffer) + 1
    BY <1>1, <1>3, <1>4, <2>1, <2>2, <2>4
  <2> QED
    BY <1>1, <2>1, <2>3, <2>4
<1> QED
  BY <1>7, <1>8

\* Where they come from when a write raises.
LEMMA RaisedLines ==
  ASSUME TypeOK, Shape, NEW record, PersistRaises(record)
  PROVE  /\ \A i \in 1..Len(file') :
              \/ i \in 1..Len(file) /\ file'[i] = file[i]
              \/ \E k \in 1..Len(buffer) : file'[i] = buffer[k]
              \/ file'[i] = record
         /\ \A i \in 1..Len(buffer') :
              \/ i \in 1..Len(buffer) /\ buffer'[i] = buffer[i]
              \/ buffer'[i] = record
<1> DEFINE added == Append(buffer, record)
<1>1. /\ AnySeq(added) /\ Len(added) = Len(buffer) + 1 /\ Len(buffer) \in Nat
      /\ \A i \in 1..Len(buffer) : added[i] = buffer[i]
      /\ added[Len(buffer) + 1] = record
  BY AppendFacts DEF Shape
<1>2. AnySeq(file)
  BY DEF Shape
<1>3. \A i \in 1..Len(added) :
        (i \in 1..Len(buffer) /\ added[i] = buffer[i]) \/ added[i] = record
  <2> TAKE i \in 1..Len(added)
  <2>1. i \in 1..Len(buffer) \/ i = Len(buffer) + 1
    BY <1>1
  <2> QED
    BY <1>1, <2>1
<1>4. CASE FlushRaises(record)
  BY <1>3, <1>4 DEF FlushRaises
<1>5. CASE FsyncRaises(record)
  <2>1. file' = file \o added /\ buffer' = <<>>
    BY <1>5 DEF FsyncRaises
  <2> HIDE DEF added
  <2>2. Len(file') = Len(file) + Len(added) /\ Len(file) \in Nat
    BY <1>1, <1>2, <2>1, ConcatFacts
  <2>3. \A i \in 1..Len(file) : file'[i] = file[i]
    BY <1>1, <1>2, <2>1, ConcatFacts
  <2>4. \A i \in 1..Len(added) : file'[Len(file) + i] = added[i]
    BY <1>1, <1>2, <2>1, ConcatFacts
  <2>5. ASSUME NEW i \in 1..Len(file')
        PROVE  \/ i \in 1..Len(file) /\ file'[i] = file[i]
               \/ \E k \in 1..Len(buffer) : file'[i] = buffer[k]
               \/ file'[i] = record
    <3>1. CASE i \in 1..Len(file)
      BY <2>3, <3>1
    <3>2. CASE i \notin 1..Len(file)
      <4>1. i - Len(file) \in 1..Len(added) /\ Len(file) + (i - Len(file)) = i
        BY <1>1, <2>2, <3>2
      <4> QED
        BY <1>3, <2>4, <4>1
    <3> QED
      BY <3>1, <3>2
  <2> QED
    BY <2>1, <2>5, EmptyFacts
<1> QED
  BY <1>4, <1>5 DEF PersistRaises

\* The pair of the action in flight, as the contract sees it.
InFlight == IF log.pending = NoPending THEN {} ELSE {log.records[log.pending].pair}
AccountedPairs == {pair \in Pairs : Accounted(pair)}
Disclosed == {revealed[i] : i \in 1..Len(revealed)}

\* A write that raises accounts for nothing, and what it leaves is loose.
LEMMA RaisesStep ==
  ASSUME IInv, LooseReveals, NEW record, IsRecord(record), PersistRaises(record),
         LooseReveal(record), UNCHANGED <<phase, present, log, grants, revealed>>,
         phase = "open"
  PROVE  LooseReveals' /\ UNCHANGED AccountedPairs
<1>1. TypeOK /\ Shape
  BY DEF IInv
<1>2. DiskKept /\ UNCHANGED synced
  BY <1>1, PersistRaisesFacts
<1>3. /\ \A i \in 1..Len(file') :
           \/ i \in 1..Len(file) /\ file'[i] = file[i]
           \/ \E k \in 1..Len(buffer) : file'[i] = buffer[k]
           \/ file'[i] = record
      /\ \A i \in 1..Len(buffer') :
           \/ i \in 1..Len(buffer) /\ buffer'[i] = buffer[i]
           \/ buffer'[i] = record
  BY <1>1, RaisedLines
<1>4. LooseReveals'
  <2>1. \A line : LooseReveal(line)' <=> LooseReveal(line)
    BY DEF LooseReveal
  <2>2. \A i \in 1..Len(file') : i > synced' => LooseReveal(file'[i])
    BY <1>2, <1>3 DEF LooseReveals
  <2>3. \A i \in 1..Len(buffer') : LooseReveal(buffer'[i])
    BY <1>3 DEF LooseReveals
  <2> QED
    BY <2>2, <2>3 DEF LooseReveals, LooseReveal
<1>5. \A i : i \in 1..synced' /\ i \in 1..Len(file') <=> i \in 1..synced /\ i \in 1..Len(file)
  <2>1. Len(file) \in Nat /\ Len(file') \in Nat
    BY <1>1, <1>2, SeqIsAnySeq DEF Shape, DiskKept, AnySeq
  <2> QED
    BY <1>1, <1>2, <2>1 DEF DiskKept, TypeOK
<1>6. \A pair : Accounted(pair)' <=> Accounted(pair)
  BY <1>2, <1>5 DEF Accounted, OnDisk, DiskKept
<1> QED
  BY <1>4, <1>6 DEF AccountedPairs

\* A complete write accounts for the pair of its record, if that is a
\* reveal record, and for nothing else; nothing loose is left.
LEMMA PersistedStep ==
  ASSUME IInv, LooseReveals, phase = "open",
         NEW record, IsRecord(record), Persisted(record),
         LooseReveal(record), record.kind = "action" => log.pending = NoPending
  PROVE  /\ LooseReveals'
         /\ AccountedPairs' = AccountedPairs \union
              (IF record.kind = "reveal" THEN {record.pair} ELSE {})
<1>1. TypeOK /\ Shape
  BY DEF IInv
<1>2. /\ DiskKept /\ synced' = Len(file') /\ synced' \in Nat \ {0}
      /\ file'[synced'] = record
  BY <1>1, PersistedFacts
<1>3. \A i \in 1..Len(file') :
        \/ i \in 1..Len(file) /\ file'[i] = file[i]
        \/ \E k \in 1..Len(buffer) : file'[i] = buffer[k]
        \/ i = synced' /\ file'[i] = record
  BY <1>1, PersistedLines
<1>4. LooseReveals'
  <2>1. buffer' = <<>>
    BY DEF Persisted
  <2> QED
    BY <1>2, <2>1, EmptyFacts DEF LooseReveals
<1>5. \A pair : Accounted(pair) => Accounted(pair)'
  BY <1>1, <1>2, AccountedKept
<1>6. record.kind = "reveal" => Accounted(record.pair)'
  BY <1>2 DEF Accounted, OnDisk
<1>7. ASSUME NEW pair, NEW line, LooseReveal(line), line.kind = "reveal", line.pair = pair
      PROVE  record.kind = "reveal" /\ record.pair = pair
  BY <1>7 DEF LooseReveal, IsRecord
<1>8. ASSUME NEW pair, Accounted(pair)'
      PROVE  Accounted(pair) \/ (record.kind = "reveal" /\ record.pair = pair)
  <2>1. PICK i \in 1..Len(file') : file'[i].kind = "reveal" /\ file'[i].pair = pair
    BY <1>8 DEF Accounted, OnDisk
  <2>2. CASE i \in 1..Len(file) /\ file'[i] = file[i]
    <3>1. CASE i \in 1..synced
      BY <2>1, <2>2, <3>1 DEF Accounted, OnDisk
    <3>2. CASE i \notin 1..synced
      <4>1. i > synced
        <5>1. Len(file) \in Nat
          BY <1>1, SeqIsAnySeq DEF Shape, AnySeq
        <5> QED
          BY <1>1, <2>2, <3>2, <5>1 DEF TypeOK
      <4>2. LooseReveal(file[i])
        BY <2>2, <4>1 DEF LooseReveals
      <4> QED
        BY <1>7, <2>1, <2>2, <4>2
    <3> QED
      BY <3>1, <3>2
  <2>3. CASE \E k \in 1..Len(buffer) : file'[i] = buffer[k]
    BY <1>7, <2>1, <2>3 DEF LooseReveals
  <2>4. CASE i = synced' /\ file'[i] = record
    BY <2>1, <2>4
  <2> QED
    BY <1>3, <2>2, <2>3, <2>4
<1>9. record.pair \in Pairs
  BY DEF IsRecord
<1> QED
  BY <1>4, <1>5, <1>6, <1>8, <1>9 DEF AccountedPairs

-------------------------------------------------------------------------------
(* The steps of the boundary, as steps of the contract.                     *)

AppendActionMaps ==
  \E pair \in Pairs :
    /\ phase # "down" /\ InFlight = {}
    /\ InFlight' = {pair}
    /\ phase' = phase
    /\ UNCHANGED <<Disclosed, AccountedPairs>>

LEMMA AppendActionStep ==
  ASSUME IInv, LooseReveals, NEW round \in Rounds, NEW pair \in Pairs, NEW state \in States,
         AppendAction(round, pair, state)
  PROVE  LooseReveals' /\ AppendActionMaps
<1> DEFINE record == ActionRecord(log, round, pair, state)
<1>1. IsRecord(record) /\ record.kind = "action" /\ record.pair = pair
  BY RecordTypes DEF ActionRecord
<1>2. /\ phase = "open" /\ log.pending = NoPending
      /\ Persisted(record)
      /\ log' = [records |-> Append(log.records, record), pending |-> Len(log.records) + 1]
      /\ UNCHANGED <<phase, present, revealed>>
  BY DEF AppendAction, MayAppendAction, WithAction
<1> HIDE DEF record
<1>3. LooseReveal(record)
  BY <1>1 DEF LooseReveal
<1>4. LooseReveals' /\ UNCHANGED AccountedPairs
  BY <1>1, <1>2, <1>3, PersistedStep
<1>5. /\ Len(log.records) \in Nat
      /\ Append(log.records, record)[Len(log.records) + 1] = record
  BY AppendFacts DEF IInv, Shape
<1>6. InFlight = {} /\ InFlight' = {pair}
  BY <1>1, <1>2, <1>5 DEF InFlight, NoPending
<1> QED
  BY <1>2, <1>4, <1>6 DEF AppendActionMaps, Disclosed

AppendRevealMaps ==
  /\ phase # "down" /\ InFlight # {}
  /\ AccountedPairs' = AccountedPairs \union InFlight
  /\ InFlight' = {}
  /\ phase' = phase
  /\ UNCHANGED Disclosed

LEMMA AppendRevealStep ==
  ASSUME IInv, LooseReveals, NEW round \in Rounds, NEW pair \in Pairs, NEW action,
         NEW evidence \in Evidence, AppendReveal(round, pair, action, evidence)
  PROVE  LooseReveals' /\ AppendRevealMaps
<1> DEFINE record == RevealRecord(round, pair, action, evidence)
<1>1. IsRecord(record) /\ record.kind = "reveal" /\ record.pair = pair
  BY RecordTypes DEF RevealRecord
<1>2. /\ phase = "open" /\ log.pending # NoPending
      /\ log.records[log.pending].pair = pair
      /\ Persisted(record)
      /\ log' = [records |-> Append(log.records, record), pending |-> NoPending]
      /\ UNCHANGED <<phase, present, grants, revealed>>
  BY DEF AppendReveal, MayAppendReveal, WithReveal
<1> HIDE DEF record
<1>3. LooseReveal(record)
  BY <1>1, <1>2 DEF LooseReveal
<1>4. LooseReveals' /\ AccountedPairs' = AccountedPairs \union {pair}
  BY <1>1, <1>2, <1>3, PersistedStep
<1>5. InFlight = {pair} /\ InFlight' = {}
  BY <1>2 DEF InFlight
<1> QED
  BY <1>2, <1>4, <1>5 DEF AppendRevealMaps, Disclosed

RevealMaps ==
  \E pair \in Pairs :
    /\ phase # "down" /\ InFlight = {pair}
    /\ pair \notin Disclosed
    /\ Disclosed' = Disclosed \union {pair}
    /\ phase' = phase
    /\ UNCHANGED <<InFlight, AccountedPairs>>

LEMMA RevealStep ==
  ASSUME IInv, LooseReveals, NEW pair \in Pairs, NEW authorization, Reveal(pair, authorization)
  PROVE  LooseReveals' /\ RevealMaps
<1>1. /\ phase # "down" /\ log.pending # NoPending
      /\ log.records[log.pending].pair = pair
      /\ \A i \in 1..Len(revealed) : revealed[i] # pair
      /\ revealed' = Append(revealed, pair)
      /\ UNCHANGED <<phase, present, log, file, synced, buffer, grants>>
  BY DEF Reveal, Authorizes
<1>2. AnySeq(revealed)
  BY DEF IInv, Shape
<1>3. /\ Len(revealed') = Len(revealed) + 1
      /\ Len(revealed) \in Nat
      /\ \A i \in 1..Len(revealed) : revealed'[i] = revealed[i]
      /\ revealed'[Len(revealed) + 1] = pair
  BY <1>1, <1>2, AppendFacts
<1>4. \A i \in 1..Len(revealed') : i \in 1..Len(revealed) \/ i = Len(revealed) + 1
  BY <1>3
<1>5. Disclosed' = Disclosed \union {pair}
  <2>1. \A i \in 1..Len(revealed) : i \in 1..Len(revealed')
    BY <1>3
  <2>2. Len(revealed) + 1 \in 1..Len(revealed')
    BY <1>3
  <2> QED
    BY <1>3, <1>4, <2>1, <2>2 DEF Disclosed
<1>6. LooseReveals'
  BY <1>1 DEF LooseReveals, LooseReveal
<1>7. UNCHANGED <<InFlight, AccountedPairs>>
  BY <1>1 DEF InFlight, AccountedPairs, Accounted, OnDisk
<1>8. InFlight = {pair} /\ pair \notin Disclosed
  BY <1>1 DEF InFlight, Disclosed
<1> QED
  BY <1>1, <1>5, <1>6, <1>7, <1>8 DEF RevealMaps

\* The process goes down: the synced part of the file stays.
DownMaps ==
  /\ phase # "down" /\ phase' = "down"
  /\ InFlight' = {}
  /\ UNCHANGED <<Disclosed, AccountedPairs>>

LEMMA SyncedSame ==
  ASSUME TypeOK, Shape, DiskKept, UNCHANGED synced
  PROVE  UNCHANGED AccountedPairs
<1>1. Len(file) \in Nat /\ Len(file') \in Nat
  BY SeqIsAnySeq DEF Shape, DiskKept, AnySeq
<1>2. \A i : i \in 1..synced' /\ i \in 1..Len(file') <=> i \in 1..synced /\ i \in 1..Len(file)
  BY <1>1 DEF DiskKept, TypeOK
<1>3. \A pair : Accounted(pair)' <=> Accounted(pair)
  BY <1>2 DEF Accounted, OnDisk, DiskKept
<1> QED
  BY <1>3 DEF AccountedPairs

LEMMA DownStep ==
  ASSUME IInv, Kill \/ PowerLoss
  PROVE  LooseReveals' /\ DownMaps
<1>1. TypeOK /\ Shape /\ AnySeq(file) /\ Len(file) \in Nat /\ synced \in 0..Len(file)
  BY SeqIsAnySeq DEF IInv, Shape, AnySeq, TypeOK
<1>2. DiskKept
  <2>1. CASE Kill
    BY <1>1, <2>1 DEF Kill, DiskKept
  <2>2. CASE PowerLoss
    <3>1. PICK n \in synced..Len(file) : file' = SubSeq(file, 1, n)
      BY <2>2 DEF PowerLoss
    <3>2. n \in 0..Len(file)
      BY <1>1
    <3>3. AnySeq(file') /\ Len(file') = n /\ \A i \in 1..n : file'[i] = file[i]
      BY <1>1, <3>1, <3>2, PrefixFacts
    <3> QED
      BY <1>1, <2>2, <3>2, <3>3 DEF PowerLoss, DiskKept
  <2> QED
    BY <2>1, <2>2
<1>3. /\ phase # "down" /\ phase' = "down" /\ log' = EmptyLog
      /\ UNCHANGED <<synced, revealed>>
  BY DEF Kill, PowerLoss
<1>4. UNCHANGED AccountedPairs
  BY <1>1, <1>2, <1>3, SyncedSame
<1> QED
  BY <1>3, <1>4 DEF DownMaps, LooseReveals, InFlight, Disclosed, EmptyLog, Kill, PowerLoss

LEMMA CloseStep ==
  ASSUME IInv, LooseReveals, Close
  PROVE  /\ LooseReveals' /\ phase # "down" /\ phase' # "down"
         /\ UNCHANGED <<InFlight, Disclosed, AccountedPairs>>
<1>1. TypeOK /\ Shape /\ AnySeq(file) /\ AnySeq(buffer)
  BY DEF IInv, Shape
<1>2. /\ phase = "open" /\ phase' = "closed"
      /\ file' = file \o buffer /\ buffer' = <<>>
      /\ UNCHANGED <<present, log, synced, grants, revealed>>
  BY DEF Close
<1>3. AnySeq(file') /\ Len(file') = Len(file) + Len(buffer)
  BY <1>1, <1>2, ConcatFacts
<1>4. Len(file) \in Nat /\ Len(buffer) \in Nat
  BY <1>1, ConcatFacts
<1>5. \A i \in 1..Len(file) : file'[i] = file[i]
  BY <1>1, <1>2, ConcatFacts
<1>6. \A i \in 1..Len(buffer) : file'[Len(file) + i] = buffer[i]
  BY <1>1, <1>2, ConcatFacts
<1>7. DiskKept
  BY <1>1, <1>2, <1>3, <1>4, <1>5 DEF DiskKept, TypeOK
<1>8. UNCHANGED AccountedPairs
  BY <1>1, <1>2, <1>7, SyncedSame
<1>9. \A i \in 1..Len(file') : i > synced => LooseReveal(file'[i])
  <2> TAKE i \in 1..Len(file')
  <2>1. CASE i \in 1..Len(file)
    BY <1>2, <1>5, <2>1 DEF LooseReveals
  <2>2. CASE i \notin 1..Len(file)
    <3>1. i - Len(file) \in 1..Len(buffer) /\ Len(file) + (i - Len(file)) = i
      BY <1>3, <1>4, <2>2
    <3> QED
      BY <1>2, <1>6, <3>1 DEF LooseReveals
  <2> QED
    BY <2>1, <2>2
<1>10. LooseReveals'
  BY <1>2, <1>9, EmptyFacts DEF LooseReveals, LooseReveal
<1> QED
  BY <1>2, <1>8, <1>10 DEF InFlight, Disclosed

LEMMA ReopenStep ==
  ASSUME IInv, LooseReveals, Reopen
  PROVE  /\ LooseReveals' /\ phase = "down" /\ phase' # "down"
         /\ Disclosed' = {} /\ AccountedPairs' = {} /\ InFlight' = InFlight
<1>1. /\ phase = "down" /\ phase' = "open" /\ file' = <<>> /\ revealed' = <<>>
      /\ UNCHANGED <<log, buffer>>
  BY DEF Reopen
<1>2. Len(buffer) = 0
  BY <1>1, EmptyFacts DEF LooseReveals
<1> QED
  BY <1>1, <1>2, EmptyFacts DEF LooseReveals, Disclosed, AccountedPairs, Accounted, InFlight

-------------------------------------------------------------------------------
(* The refinement.                                                          *)

LEMMA MapsToContract ==
  ASSUME IInv, LooseReveals, [Next]_vars
  PROVE  LooseReveals' /\ [Contract!Next]_Contract!contractVars
<1> USE DEF Contract!Next, Contract!contractVars
<1>1. ASSUME NEW round \in Rounds, NEW pair \in Pairs, NEW state \in States,
             AppendAction(round, pair, state)
      PROVE  LooseReveals' /\ Contract!Next
  <2>1. LooseReveals' /\ AppendActionMaps
    BY <1>1, AppendActionStep
  <2> QED
    BY <2>1 DEF AppendActionMaps, InFlight, Disclosed, AccountedPairs, Contract!Select
<1>2. ASSUME NEW round \in Rounds, NEW pair \in Pairs, NEW state \in States,
             AppendActionRaises(round, pair, state)
      PROVE  LooseReveals' /\ UNCHANGED Contract!contractVars
  <2> DEFINE record == ActionRecord(log, round, pair, state)
  <2>1. IsRecord(record) /\ record.kind = "action"
    BY RecordTypes DEF ActionRecord
  <2>2. /\ PersistRaises(record) /\ phase = "open"
        /\ UNCHANGED <<phase, present, log, grants, revealed>>
    BY <1>2 DEF AppendActionRaises
  <2> HIDE DEF record
  <2>3. LooseReveals' /\ UNCHANGED AccountedPairs
    BY <2>1, <2>2, RaisesStep DEF LooseReveal
  <2> QED
    BY <2>2, <2>3 DEF AccountedPairs
<1>3. ASSUME NEW pair \in Pairs, NEW authorization \in grants, Reveal(pair, authorization)
      PROVE  LooseReveals' /\ Contract!Next
  <2>1. LooseReveals' /\ RevealMaps
    BY <1>3, RevealStep
  <2> QED
    BY <2>1 DEF RevealMaps, InFlight, Disclosed, AccountedPairs, Contract!Disclose
<1>4. ASSUME NEW authorization \in grants, NEW round \in Rounds, NEW evidence \in Evidence,
             AppendReveal(round, authorization.pair, authorization.digest, evidence)
      PROVE  LooseReveals' /\ Contract!Next
  <2>1. authorization.pair \in Pairs
    BY DEF IInv, TypeOK
  <2>2. LooseReveals' /\ AppendRevealMaps
    BY <1>4, <2>1, AppendRevealStep
  <2> QED
    BY <2>2 DEF AppendRevealMaps, InFlight, Disclosed, AccountedPairs, Contract!Account
<1>5. ASSUME NEW authorization \in grants, NEW round \in Rounds, NEW evidence \in Evidence,
             AppendRevealRaises(round, authorization.pair, authorization.digest, evidence)
      PROVE  LooseReveals' /\ UNCHANGED Contract!contractVars
  <2> DEFINE record == RevealRecord(round, authorization.pair, authorization.digest, evidence)
  <2>1. /\ PersistRaises(record) /\ phase = "open"
        /\ log.pending # NoPending
        /\ log.records[log.pending].pair = authorization.pair
        /\ UNCHANGED <<phase, present, log, grants, revealed>>
    BY <1>5 DEF AppendRevealRaises, MayAppendReveal
  <2>2. IsRecord(record) /\ LooseReveal(record)
    BY <2>1, RecordTypes DEF IInv, TypeOK, LooseReveal, RevealRecord
  <2> HIDE DEF record
  <2>3. LooseReveals' /\ UNCHANGED AccountedPairs
    BY <2>1, <2>2, RaisesStep
  <2> QED
    BY <2>1, <2>3 DEF AccountedPairs
<1>6. CASE Close
  <2>1. /\ LooseReveals' /\ phase # "down" /\ phase' # "down"
        /\ UNCHANGED <<InFlight, Disclosed, AccountedPairs>>
    BY <1>6, CloseStep
  <2> QED
    BY <2>1 DEF InFlight, Disclosed, AccountedPairs
<1>7. CASE Unlink
  <2>1. UNCHANGED <<phase, log, file, synced, buffer, grants, revealed>>
    BY <1>7 DEF Unlink
  <2>2. LooseReveals' /\ UNCHANGED <<InFlight, Disclosed, AccountedPairs>>
    BY <2>1 DEF LooseReveals, LooseReveal, InFlight, Disclosed, AccountedPairs, Accounted, OnDisk
  <2> QED
    BY <2>1, <2>2 DEF InFlight, Disclosed, AccountedPairs
<1>8. CASE Kill \/ PowerLoss
  <2>1. LooseReveals' /\ DownMaps
    BY <1>8, DownStep
  <2> QED
    BY <2>1 DEF DownMaps, InFlight, Disclosed, AccountedPairs, Contract!Die
<1>9. CASE Reopen
  <2>1. /\ LooseReveals' /\ phase = "down" /\ phase' # "down"
        /\ Disclosed' = {} /\ AccountedPairs' = {} /\ InFlight' = InFlight
    BY <1>9, ReopenStep
  <2> QED
    BY <2>1 DEF InFlight, Disclosed, AccountedPairs, Contract!StartOver
<1>10. CASE UNCHANGED vars
  <2>1. LooseReveals' /\ UNCHANGED <<InFlight, Disclosed, AccountedPairs>> /\ phase' = phase
    BY <1>10 DEF vars, LooseReveals, LooseReveal, InFlight, Disclosed, AccountedPairs,
       Accounted, OnDisk
  <2> QED
    BY <2>1 DEF InFlight, Disclosed, AccountedPairs
<1> QED
  BY <1>1, <1>2, <1>3, <1>4, <1>5, <1>6, <1>7, <1>8, <1>9, <1>10 DEF Next

\* The event log and its vault implement RevealContract: one selection in
\* flight, only it disclosed, at most once, accounted for before the next.
THEOREM BoundaryImplementsContract == Spec => ImplementsContract
<1>1. Init => Contract!Init /\ LooseReveals
  <2> SUFFICES ASSUME Init PROVE Contract!Init /\ LooseReveals
    OBVIOUS
  <2>1. InFlight = {} /\ Disclosed = {} /\ AccountedPairs = {} /\ phase # "down"
    BY EmptyFacts DEF Init, InFlight, Disclosed, AccountedPairs, Accounted, EmptyLog
  <2> QED
    BY <2>1, LooseInit DEF Contract!Init, InFlight, Disclosed, AccountedPairs
<1>2. IInv /\ LooseReveals /\ [Next]_vars => LooseReveals' /\ [Contract!Next]_Contract!contractVars
  BY MapsToContract
<1> QED
  BY <1>1, <1>2, BoundaryInvariant, PTL DEF Spec, ImplementsContract, Contract!Spec

\* A reveal follows its own selection and nothing else: no authorization is
\* of use once its reveal record is there.
THEOREM NoStaleReveals == Spec => NoStaleReveal
<1> DEFINE A == revealed' # revealed /\ revealed' # <<>> =>
       LET latest == log.records[Len(log.records)] IN
       /\ log.records # <<>>
       /\ latest.kind = "action"
       /\ revealed' = Append(revealed, latest.pair)
<1>1. ASSUME IInv, [Next]_vars
      PROVE  [A]_vars
  <2>1. ASSUME NEW pair \in Pairs, NEW authorization \in grants, Reveal(pair, authorization)
        PROVE  A
    <3>1. /\ log.pending # NoPending
          /\ log.records[log.pending].pair = pair
          /\ revealed' = Append(revealed, pair)
      BY <2>1 DEF Reveal, Authorizes
    <3>2. /\ log.pending = Len(log.records)
          /\ log.records[log.pending].kind = "action"
      BY <1>1, <3>1 DEF IInv, PendingIsLatest
    <3>3. log.records # <<>>
      BY <3>1, <3>2, EmptyFacts DEF NoPending
    <3> QED
      BY <3>1, <3>2, <3>3
  <2>2. CASE UNCHANGED vars
    BY <2>2
  <2>3. ASSUME UNCHANGED revealed \/ revealed' = <<>>
        PROVE  A
    BY <2>3
  <2> HIDE DEF A
  <2> QED
    BY <1>1, <2>1, <2>2, <2>3 DEF Next, AppendAction, AppendActionRaises, AppendReveal,
       AppendRevealRaises, Close, Unlink, Kill, PowerLoss, Reopen
<1>2. [](IInv) /\ [][Next]_vars => [][A]_vars
  BY <1>1, PTL
<1> QED
  BY <1>2, BoundaryInvariant, PTL DEF Spec, NoStaleReveal
===============================================================================

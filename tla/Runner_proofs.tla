----------------------------- MODULE Runner_proofs -----------------------------
(***************************************************************************)
(* Proofs about SecureProtocolRunner and about PersistentWorker, for any   *)
(* candidates, costs, budgets, numbers of calls and of workers: the log of *)
(* a call holds at most one deviation of the conformal policy, a log left  *)
(* with a pending action is shut, every selection and every result is what *)
(* the record says; an answer of the worker belongs to the request that    *)
(* waits for it, and one that was given up is gone when its call returns,  *)
(* or that call raised because its last wait expired.                      *)
(*                                                                         *)
(* The worker keeps nothing between requests.  IInv follows the flag of    *)
(* run() through the state that is sent, the selection that comes back and *)
(* the record that is written, three steps apart; CallInv follows the hull *)
(* and the history against the list of reveals that the log holds, and the *)
(* charge against what was affordable when the state was made.             *)
(*                                                                         *)
(* The pipes of a worker have no sequence numbers.  What keeps an old      *)
(* answer from a later call is that a generation whose call failed is      *)
(* never current again, so the pipes of the current one hold what the call *)
(* in flight put there, and nothing between two calls.                     *)
(***************************************************************************)
EXTENDS SecureProtocolRunner, PersistentWorker, DataFacts, FiniteSetTheorems

Deviations ==
  {k \in Actions : /\ k > runStart
                   /\ log.records[k].pair # log.records[k].state.source}

LogShape ==
  /\ log = [records |-> log.records, pending |-> log.pending]
  /\ AnySeq(log.records)
  /\ runStart \in 0..Len(log.records)
  /\ deviated \in BOOLEAN

\* A deviation in the log, or selected and about to be logged, is known to the
\* flag; one that is about to be logged is the first.
Tracked ==
  Conformal =>
    /\ \A k, l \in Deviations : k = l
    /\ Deviations # {} => deviated
    /\ pc \in {"blocked", "select"} => state.deviated = deviated
    /\ pc = "append" /\ selected # state.source => deviated /\ Deviations = {}

IInv == LogShape /\ Tracked

-------------------------------------------------------------------------------
LEMMA InitIInv == Init => IInv
<1> SUFFICES ASSUME Init
             PROVE  IInv
  OBVIOUS
<1>1. log.records = <<>> /\ log = [records |-> log.records, pending |-> log.pending]
  BY DEF Init, EmptyLog
<1>2. LogShape
  <2>1. AnySeq(log.records) /\ Len(log.records) = 0
    BY <1>1, EmptyFacts
  <2>2. runStart = 0 /\ deviated = FALSE
    BY DEF Init
  <2>3. runStart \in 0..Len(log.records)
    BY <2>1, <2>2
  <2>4. deviated \in BOOLEAN
    BY <2>2
  <2> QED
    BY <1>1, <2>1, <2>3, <2>4 DEF LogShape
<1>3. Deviations = {}
  BY <1>1, EmptyFacts DEF Deviations, Actions
<1> QED
  BY <1>2, <1>3 DEF Init, IInv, Tracked

\* A step that leaves the log and the start of the call alone.
LEMMA LogKept ==
  ASSUME IInv, UNCHANGED <<log, runStart>>, deviated' \in BOOLEAN,
         deviated => deviated',
         pc' \in {"blocked", "select"} => (Conformal => state'.deviated = deviated'),
         pc' = "append" /\ selected' # state'.source =>
           (Conformal => deviated' /\ Deviations = {})
  PROVE  IInv'
<1>1. Deviations' = Deviations
  BY DEF Deviations, Actions
<1> QED
  BY <1>1 DEF IInv, LogShape, Tracked

LEMMA StartRunIInv ==
  ASSUME IInv, NEW b, StartRun(b)
  PROVE  IInv'
<1>1. UNCHANGED log /\ pc = "idle"
  BY DEF StartRun
<1>2. CASE b <= 0
  <2>1. UNCHANGED <<pc, runStart, deviated, state, selected>>
    BY <1>2 DEF StartRun, locals
  <2> QED
    BY <1>1, <2>1, LogKept DEF IInv, LogShape
<1>3. CASE ~(b <= 0)
  <2>1. pc' = "loop" /\ runStart' = Len(log.records) /\ deviated' = FALSE
    BY <1>3 DEF StartRun
  <2>2. Len(log.records) \in Nat
    BY SeqIsAnySeq DEF IInv, LogShape, AnySeq
  <2>3. LogShape'
    <3>1. runStart' \in 0..Len(log'.records)
      BY <1>1, <2>1, <2>2
    <3>2. deviated' \in BOOLEAN
      BY <2>1
    <3> QED
      BY <1>1, <3>1, <3>2 DEF IInv, LogShape
  <2>4. Deviations' = {}
    BY <1>1, <2>1, <2>2 DEF Deviations, Actions
  <2> QED
    BY <2>1, <2>3, <2>4 DEF IInv, Tracked
<1> QED
  BY <1>2, <1>3

LEMMA CreateStateIInv ==
  ASSUME IInv, CreateState
  PROVE  IInv'
<1>1. UNCHANGED <<log, runStart, deviated>> /\ pc = "loop"
  BY DEF CreateState
<1>2. CASE budget - spent < 0
  <2>1. pc' = "idle"
    BY <1>2 DEF CreateState, Abort
  <2> QED
    BY <1>1, <2>1, LogKept DEF IInv, LogShape
<1>3. CASE ~(budget - spent < 0)
  <2>1. pc' \in {"blocked", "select"} /\ state'.deviated = deviated
    BY <1>3 DEF CreateState
  <2> QED
    BY <1>1, <2>1, LogKept DEF IInv, LogShape
<1> QED
  BY <1>2, <1>3

LEMMA SelectIInv ==
  ASSUME IInv, NEW id \in Candidates, Select(id)
  PROVE  IInv'
<1>1. /\ pc = "select" /\ pc' = "append" /\ selected' = id
      /\ Conformal /\ state.deviated => id = state.source
      /\ deviated' = (deviated \/ (Conformal /\ id # state.source))
      /\ UNCHANGED <<log, runStart, state>>
  BY DEF Select
<1>2. deviated' \in BOOLEAN /\ (deviated => deviated')
  BY <1>1, RunnerAssumption DEF IInv, LogShape
<1>3. ASSUME Conformal, selected' # state'.source
      PROVE  deviated' /\ Deviations = {}
  <2>1. ~state.deviated /\ state.deviated = deviated
    BY <1>1, <1>3 DEF IInv, Tracked
  <2> QED
    BY <1>1, <1>3, <2>1 DEF IInv, Tracked
<1> QED
  BY <1>1, <1>2, <1>3, LogKept

LEMMA PersistActionIInv ==
  ASSUME IInv, PersistAction
  PROVE  IInv'
<1>1. /\ pc = "append"
      /\ UNCHANGED <<runStart, deviated, state, selected>>
  BY DEF PersistAction
<1>2. CASE ~MayAppendAction(log)
  <2>1. pc' = "idle" /\ UNCHANGED log
    BY <1>2 DEF PersistAction, Abort
  <2> QED
    BY <1>1, <2>1, LogKept DEF IInv, LogShape
<1>3. CASE MayAppendAction(log)
  <2> DEFINE record == ActionRecord(log, state.round, selected, state)
             last == Len(log.records) + 1
  <2>1. /\ pc' = "reveal"
        /\ log' = [records |-> Append(log.records, record), pending |-> last]
    BY <1>3 DEF PersistAction, WithAction
  <2>2. record.kind = "action" /\ record.pair = selected /\ record.state = state
    BY DEF ActionRecord
  <2> HIDE DEF record
  <2>3. /\ AnySeq(log'.records) /\ Len(log'.records) = last /\ Len(log.records) \in Nat
        /\ \A k \in 1..Len(log.records) : log'.records[k] = log.records[k]
        /\ log'.records[last] = record
        /\ log' = [records |-> log'.records, pending |-> log'.pending]
    BY <2>1, AppendFacts DEF IInv, LogShape
  <2>4. LogShape'
    BY <1>1, <2>3 DEF IInv, LogShape
  <2>5. \A k \in 1..last :
          k \in Deviations' <=> k \in Deviations \/ (k = last /\ selected # state.source)
    <3> TAKE k \in 1..last
    <3>1. CASE k \in 1..Len(log.records)
      BY <1>1, <2>3, <3>1 DEF Deviations, Actions
    <3>2. CASE k = last
      <4>1. k \notin Deviations /\ k > runStart
        BY <2>3, <3>2 DEF Deviations, Actions, IInv, LogShape
      <4> QED
        BY <1>1, <2>2, <2>3, <3>2, <4>1 DEF Deviations, Actions
    <3> QED
      BY <2>3, <3>1, <3>2
  <2>6. Deviations' \subseteq 1..last /\ Deviations \subseteq 1..last
    BY <2>3 DEF Deviations, Actions
  <2>7. Tracked'
    <3> SUFFICES ASSUME Conformal
                 PROVE  /\ \A k, l \in Deviations' : k = l
                        /\ Deviations' # {} => deviated
      BY <1>1, <2>1 DEF Tracked
    <3>1. CASE selected # state.source
      <4>1. deviated /\ Deviations = {}
        BY <1>1, <3>1 DEF IInv, Tracked
      <4> QED
        BY <2>5, <2>6, <4>1
    <3>2. CASE selected = state.source
      <4>1. Deviations' = Deviations
        BY <2>5, <2>6, <3>2
      <4> QED
        BY <4>1 DEF IInv, Tracked
    <3> QED
      BY <3>1, <3>2
  <2> QED
    BY <2>4, <2>7 DEF IInv
<1> QED
  BY <1>2, <1>3

LEMMA PersistRevealIInv ==
  ASSUME IInv, PersistReveal
  PROVE  IInv'
<1>1. /\ pc = "record" /\ pc' \in {"loop", "idle"}
      /\ UNCHANGED <<runStart, deviated, state, selected>>
  BY DEF PersistReveal, Abort
<1>2. CASE UNCHANGED log
  BY <1>1, <1>2, LogKept DEF IInv, LogShape
<1>3. ASSUME NEW record, record.kind = "reveal",
             log' = [records |-> Append(log.records, record), pending |-> NoPending]
      PROVE  IInv'
  <2>1. /\ AnySeq(log'.records) /\ Len(log'.records) = Len(log.records) + 1
        /\ Len(log.records) \in Nat
        /\ \A k \in 1..Len(log.records) : log'.records[k] = log.records[k]
        /\ log'.records[Len(log.records) + 1] = record
        /\ log' = [records |-> log'.records, pending |-> log'.pending]
    BY <1>3, AppendFacts DEF IInv, LogShape
  <2>2. LogShape'
    BY <1>1, <2>1 DEF IInv, LogShape
  <2>3. \A k \in 1..(Len(log.records) + 1) : k \in Deviations' <=> k \in Deviations
    <3> TAKE k \in 1..(Len(log.records) + 1)
    <3>1. CASE k \in 1..Len(log.records)
      BY <1>1, <2>1, <3>1 DEF Deviations, Actions
    <3>2. CASE k = Len(log.records) + 1
      BY <1>3, <2>1, <3>2 DEF Deviations, Actions
    <3> QED
      BY <2>1, <3>1, <3>2
  <2>4. /\ Deviations' \subseteq 1..(Len(log.records) + 1)
        /\ Deviations \subseteq 1..(Len(log.records) + 1)
    BY <2>1 DEF Deviations, Actions
  <2>5. Deviations' = Deviations
    BY <2>3, <2>4
  <2> QED
    BY <1>1, <2>2, <2>5 DEF IInv, Tracked
<1>4. RevealRecord(round, selected, grant.digest, [hull |-> hull, archive |-> history]).kind = "reveal"
  BY DEF RevealRecord
<1> QED
  BY <1>2, <1>3, <1>4 DEF PersistReveal, WithReveal

LEMMA NextIInv ==
  ASSUME IInv, [Next]_vars
  PROVE  IInv'
<1>1. CASE SelectRaises \/ PersistActionRaises \/ PersistRevealRaises \/ EndLoop
  <2>1. pc' = "idle" /\ UNCHANGED <<log, runStart, deviated>>
    BY <1>1 DEF SelectRaises, PersistActionRaises, PersistRevealRaises, EndLoop, Abort, locals
  <2> QED
    BY <2>1, LogKept DEF IInv, LogShape
<1>2. CASE RevealSelected
  <2>1. pc' \in {"record", "idle"} /\ UNCHANGED <<log, runStart, deviated>>
    BY <1>2 DEF RevealSelected, Abort
  <2> QED
    BY <2>1, LogKept DEF IInv, LogShape
<1>3. CASE UNCHANGED vars
  BY <1>3, LogKept DEF vars, locals, IInv, LogShape, Tracked
<1>4. CASE Unblocked
  <2>1. pc = "blocked" /\ pc' = "select" /\ UNCHANGED <<log, runStart, deviated, state>>
    BY <1>4 DEF Unblocked, locals
  <2> QED
    BY <2>1, LogKept DEF IInv, LogShape, Tracked
<1> QED
  BY <1>1, <1>2, <1>3, <1>4, StartRunIInv, CreateStateIInv, SelectIInv, PersistActionIInv,
     PersistRevealIInv DEF Next, Step

\* The invariant holds of every sequence of calls of run().
THEOREM RunnerInvariant == Spec => []IInv
<1>1. Init => IInv
  BY InitIInv
<1>2. IInv /\ [Next]_vars => IInv'
  BY NextIInv
<1> QED
  BY <1>1, <1>2, PTL DEF Spec

\* "permits at most one source-relative deviation": the actions that a call
\* logged hold at most one that is not the source action of its state.
THEOREM AtMostOneDeviation == Spec => []OneDeviation
<1>1. IInv => OneDeviation
  <2> SUFFICES ASSUME IInv, Conformal
               PROVE  Cardinality(Deviations) <= 1
    BY DEF OneDeviation, Deviations
  <2>1. CASE Deviations = {}
    BY <2>1, FS_EmptySet
  <2>2. CASE Deviations # {}
    <3>1. PICK k : k \in Deviations
      BY <2>2
    <3>2. Deviations = {k}
      BY <3>1 DEF IInv, Tracked
    <3> QED
      BY <3>2, FS_Singleton
  <2> QED
    BY <2>1, <2>2
<1> QED
  BY <1>1, RunnerInvariant, PTL

\* A selection left without its reveal record shuts the log, the vault and the
\* hull for every later call.
THEOREM PoisonedLogsStayShut == Spec => PoisonedLogStaysShut
<1> DEFINE A == log.pending # NoPending /\ pc \in {"idle", "loop", "blocked", "select", "append"} =>
                  UNCHANGED <<log, revealed, hull>>
<1>1. ASSUME [Next]_vars
      PROVE  [A]_vars
  <2>1. ASSUME PersistAction
        PROVE  A
    BY <2>1 DEF PersistAction, MayAppendAction
  <2>2. ASSUME pc \notin {"idle", "loop", "blocked", "select", "append"} \/ UNCHANGED <<log, revealed, hull>>
        PROVE  A
    BY <2>2
  <2> HIDE DEF A
  <2> QED
    BY <1>1, <2>1, <2>2 DEF Next, Step, StartRun, CreateState, Unblocked, Select, SelectRaises,
       PersistActionRaises, RevealSelected, PersistReveal, PersistRevealRaises, EndLoop
<1>2. [][Next]_vars => [][A]_vars
  BY <1>1, PTL
<1> QED
  BY <1>2, PTL DEF Spec, PoisonedLogStaysShut

-------------------------------------------------------------------------------
(* The list of the reveals in a stretch of a log. *)

RevealsAt(records, first, last) == {k \in first..last : records[k].kind = "reveal"}
RankIn(at, k) == Cardinality({j \in at : j <= k})

LEMMA RevealsOfAt ==
  ASSUME NEW records, NEW first, NEW last
  PROVE  LET at == RevealsAt(records, first, last) IN
         RevealsOf(records, first, last) =
           [i \in 1..Cardinality(at) |-> records[OneOf({k \in at : RankIn(at, k) = i})].pair]
  BY DEF RevealsOf, RevealsAt, RankIn

\* A list has one pair for each reveal record.
LEMMA RevealsOfFacts ==
  ASSUME NEW records, NEW first \in Nat, NEW last \in Nat
  PROVE  LET s == RevealsOf(records, first, last)
             at == RevealsAt(records, first, last) IN
         /\ IsFiniteSet(at) /\ Cardinality(at) \in Nat
         /\ AnySeq(s) /\ Len(s) = Cardinality(at) /\ DOMAIN s = 1..Len(s)
<1> DEFINE at == RevealsAt(records, first, last)
           s == RevealsOf(records, first, last)
           T == {s[i] : i \in 1..Cardinality(at)}
<1>1. IsFiniteSet(at) /\ Cardinality(at) \in Nat
  <2>1. IsFiniteSet(first..last) /\ at \subseteq first..last
    BY FS_Interval DEF RevealsAt
  <2> QED
    BY <2>1, FS_Subset, FS_CardinalityType
<1>2. s = [i \in 1..Cardinality(at) |-> records[OneOf({k \in at : RankIn(at, k) = i})].pair]
  BY RevealsOfAt
<1> HIDE DEF at, s
<1>3. s \in [1..Cardinality(at) -> T] /\ DOMAIN s = 1..Cardinality(at)
  BY <1>2
<1> HIDE DEF T
<1>4. s \in Seq(T)
  BY <1>1, <1>3, SeqDef
<1>5. Len(s) = Cardinality(at)
  BY <1>1, <1>3, <1>4, LenProperties
<1> QED
  BY <1>1, <1>3, <1>4, <1>5, SeqIsAnySeq DEF at, s

\* An empty stretch has no reveals.
LEMMA NoReveals ==
  ASSUME NEW records, NEW first \in Nat, NEW last \in Nat, last < first
  PROVE  RevealsOf(records, first, last) = <<>>
<1>1. RevealsAt(records, first, last) = {}
  BY DEF RevealsAt
<1>2. /\ AnySeq(RevealsOf(records, first, last))
      /\ Len(RevealsOf(records, first, last)) = 0
  BY <1>1, RevealsOfFacts, FS_EmptySet
<1> QED
  BY <1>2, EmptySeq DEF AnySeq

\* A record that is no reveal adds nothing.
LEMMA ActionAddsNothing ==
  ASSUME NEW records, NEW first \in Nat, NEW n \in Nat, records[n + 1].kind # "reveal"
  PROVE  RevealsOf(records, first, n + 1) = RevealsOf(records, first, n)
<1>1. RevealsAt(records, first, n + 1) = RevealsAt(records, first, n)
  BY DEF RevealsAt
<1> QED
  BY <1>1, RevealsOfAt

\* A reveal record adds its pair at the end.
LEMMA RevealAdds ==
  ASSUME NEW records, NEW first \in Nat, NEW n \in Nat, first <= n + 1,
         records[n + 1].kind = "reveal"
  PROVE  RevealsOf(records, first, n + 1) =
           Append(RevealsOf(records, first, n), records[n + 1].pair)
<1> DEFINE old == RevealsAt(records, first, n)
           new == RevealsAt(records, first, n + 1)
           c == Cardinality(old)
           s == RevealsOf(records, first, n)
           t == RevealsOf(records, first, n + 1)
<1>1. new = old \union {n + 1} /\ (n + 1) \notin old /\ \A k \in old : k \in Int /\ k <= n
  BY DEF RevealsAt
<1>2. IsFiniteSet(old) /\ c \in Nat /\ Cardinality(new) = c + 1
  <2>1. IsFiniteSet(old) /\ c \in Nat
    BY RevealsOfFacts
  <2> QED
    BY <1>1, <2>1, FS_AddElement
<1>3. /\ s = [i \in 1..c |-> records[OneOf({k \in old : RankIn(old, k) = i})].pair]
      /\ t = [i \in 1..(c + 1) |-> records[OneOf({k \in new : RankIn(new, k) = i})].pair]
  BY <1>2, RevealsOfAt
<1> HIDE DEF old, new, s, t
<1>4. \A k \in old : RankIn(new, k) = RankIn(old, k) /\ RankIn(old, k) <= c
  <2> TAKE k \in old
  <2>1. {j \in new : j <= k} = {j \in old : j <= k}
    BY <1>1
  <2>2. Cardinality({j \in old : j <= k}) <= c
    BY <1>2, FS_Subset
  <2> QED
    BY <2>1, <2>2 DEF RankIn
<1>5. RankIn(new, n + 1) = c + 1
  <2>1. {j \in new : j <= n + 1} = new
    BY <1>1
  <2> QED
    BY <1>2, <2>1 DEF RankIn
<1>6. ASSUME NEW i \in 1..c
      PROVE  {k \in new : RankIn(new, k) = i} = {k \in old : RankIn(old, k) = i}
  <2>1. c + 1 # i
    BY <1>2
  <2> QED
    BY <1>1, <1>4, <1>5, <2>1
<1>7. {k \in new : RankIn(new, k) = c + 1} = {n + 1}
  <2>1. ASSUME NEW k \in old
        PROVE  RankIn(new, k) # c + 1
    <3>1. RankIn(new, k) <= c /\ ~(c + 1 <= c)
      BY <1>2, <1>4
    <3> QED
      BY <3>1
  <2> QED
    BY <1>1, <1>5, <2>1
<1>8. OneOf({n + 1}) = n + 1
  BY DEF OneOf
<1>9. /\ DOMAIN t = 1..(c + 1) /\ t[c + 1] = records[n + 1].pair
      /\ \A i \in 1..c : t[i] = s[i]
  <2> DEFINE Of(r) == {k \in old : RankIn(old, k) = r}
             In(r) == {k \in new : RankIn(new, k) = r}
  <2>1. \A i \in 1..c : In(i) = Of(i)
    BY <1>6
  <2>2. In(c + 1) = {n + 1}
    BY <1>7
  <2>3. /\ s = [i \in 1..c |-> records[OneOf(Of(i))].pair]
        /\ t = [i \in 1..(c + 1) |-> records[OneOf(In(i))].pair]
    BY <1>3
  <2> HIDE DEF Of, In, c
  <2>4. c \in Nat
    BY <1>2 DEF c
  <2>5. t[c + 1] = records[n + 1].pair
    <3>1. c + 1 \in 1..(c + 1)
      BY <2>4
    <3>2. t[c + 1] = records[OneOf(In(c + 1))].pair
      BY <2>3, <3>1
    <3>3. OneOf(In(c + 1)) = n + 1
      BY <1>8, <2>2
    <3> QED
      BY <3>2, <3>3
  <2>6. \A i \in 1..c : t[i] = s[i]
    BY <2>1, <2>3, <2>4
  <2> QED
    BY <2>3, <2>5, <2>6
<1>10. /\ AnySeq(s) /\ Len(s) = c /\ AnySeq(t) /\ Len(t) = c + 1
  BY <1>2, RevealsOfFacts DEF s, t, old, new
<1>11. t = Append(s, records[n + 1].pair)
  BY <1>9, <1>10, SameAsAppend
<1> QED
  BY <1>11 DEF s, t

\* It depends on the records of the stretch alone.
LEMMA SameReveals ==
  ASSUME NEW records, NEW others, NEW first \in Nat \ {0}, NEW last \in Nat,
         \A k \in 1..last : records[k] = others[k]
  PROVE  RevealsOf(records, first, last) = RevealsOf(others, first, last)
<1> DEFINE P == {n \in Nat : n <= last => RevealsOf(records, first, n) = RevealsOf(others, first, n)}
<1>1. 0 \in P
  <2>1. /\ RevealsOf(records, first, 0) = <<>>
        /\ RevealsOf(others, first, 0) = <<>>
    BY NoReveals
  <2> QED
    BY <2>1
<1>2. ASSUME NEW n \in Nat, n \in P
      PROVE  n + 1 \in P
  <2> SUFFICES ASSUME n + 1 <= last
               PROVE  RevealsOf(records, first, n + 1) = RevealsOf(others, first, n + 1)
    OBVIOUS
  <2>1. /\ RevealsOf(records, first, n) = RevealsOf(others, first, n)
        /\ records[n + 1] = others[n + 1]
    BY <1>2
  <2>2. CASE n + 1 < first
    BY <2>2, NoReveals
  <2>3. CASE first <= n + 1 /\ records[n + 1].kind = "reveal"
    <3>1. RevealsOf(records, first, n + 1) =
            Append(RevealsOf(records, first, n), records[n + 1].pair)
      BY <2>3, RevealAdds
    <3>2. others[n + 1].kind = "reveal"
      BY <2>1, <2>3
    <3>3. RevealsOf(others, first, n + 1) =
            Append(RevealsOf(others, first, n), others[n + 1].pair)
      BY <2>3, <3>2, RevealAdds
    <3> QED
      BY <2>1, <3>1, <3>3
  <2>4. CASE records[n + 1].kind # "reveal"
    BY <2>1, <2>4, ActionAddsNothing
  <2> QED
    BY <2>2, <2>3, <2>4
<1> HIDE DEF P
<1>3. \A n \in Nat : n \in P
  BY <1>1, <1>2, NumberInduction
<1> QED
  BY <1>3 DEF P

-------------------------------------------------------------------------------
(* A call and its record. *)

Records == Len(log.records)
InLog == RevealsIn(1, Records)
InCall == RevealsIn(runStart + 1, Records)

\* Nothing waits for a reveal record but the selection of this round.
InStep == log.pending = NoPending \/ pc = "reveal"

\* The variables have their types, and these are sequences.
Shapes ==
  /\ TypeOK
  /\ history \in Seq(Candidates) /\ events \in Seq(Candidates) /\ revealed \in Seq(Candidates)
  /\ pc \in {"append", "reveal", "record"} => selected \in Candidates
  /\ pc \in {"blocked", "select"} => state.queries \subseteq Candidates
  /\ pc # "idle" => outcome # "returned"

\* The hull and the history are what the log says of the vault, but for the
\* outcome revealed in this round or lost in an earlier call.
Told ==
  /\ hull = revealed /\ ToSet(history) \subseteq ToSet(revealed)
  /\ pc \in {"reveal", "record"} => log.pending = Records /\ log.pending # NoPending
  /\ Records = 2 * Len(InLog) + (IF log.pending = NoPending THEN 0 ELSE 1)
  /\ Len(InLog) <= Len(hull)
  /\ InStep => hull = InLog /\ (pc # "idle" => history = InCall)
  /\ pc = "record" => hull = Append(InLog, selected) /\ history = Append(InCall, selected)
  /\ pc \in {"loop", "blocked", "select", "append"} /\ log.pending # NoPending => events = <<>>
  /\ pc \in {"blocked", "select", "append"} => state.hull = hull /\ state.history = history

\* What may be selected is affordable until it is charged.
Paid ==
  /\ spent = SumFunctionOnSet(Cost, ToSet(history))
  /\ pc # "idle" => spent <= budget + Tol
  /\ pc \in {"blocked", "select"} => \A q \in state.queries : Cost[q] <= budget - spent + Tol
  /\ pc \in {"append", "reveal"} => Cost[selected] <= budget - spent + Tol

CallInv == Shapes /\ Told /\ Paid /\ DecidedOnTheRecord /\ ResultIsWholeTrace

-------------------------------------------------------------------------------
LEMMA InitCallInv == Init => CallInv
<1> SUFFICES ASSUME Init
             PROVE  CallInv
  OBVIOUS
<1>1. /\ log.records = <<>> /\ log.pending = NoPending /\ Records = 0
      /\ hull = <<>> /\ revealed = <<>> /\ history = <<>> /\ events = <<>>
      /\ runStart = 0 /\ pc = "idle" /\ outcome = "none" /\ spent = 0 /\ budget = 0
  BY EmptyFacts DEF Init, EmptyLog, Records
<1>2. InLog = <<>> /\ InCall = <<>>
  BY <1>1, NoReveals DEF InLog, InCall, RevealsIn
<1>3. ToSet(<<>>) = {} /\ <<>> \in Seq(Candidates)
  BY DEF ToSet
<1>4. Shapes
  <2>1. \A s \in {history, events, hull, revealed} : ToSet(s) \subseteq Candidates
    BY <1>1, <1>3
  <2>2. runStart \in 0..Len(log.records) /\ log.pending \in 0..Len(log.records)
    BY <1>1 DEF Records, NoPending
  <2>3. runs \in 0..MaxRuns /\ round \in Nat \ {0} /\ budget \in Nat /\ spent \in Nat
    BY <1>1, RunnerAssumption DEF Init
  <2>4. TypeOK
    BY <1>1, <2>1, <2>2, <2>3 DEF Init, TypeOK
  <2> QED
    BY <1>1, <1>3, <2>4 DEF Shapes
<1>5. Told
  BY <1>1, <1>2, <1>3, EmptyFacts DEF Told
<1>6. Paid
  <2>1. SumFunctionOnSet(Cost, {}) = 0
    BY SumStep, FS_EmptySet
  <2> QED
    BY <1>1, <1>3, <2>1 DEF Paid
<1>7. DecidedOnTheRecord /\ ResultIsWholeTrace
  <2>1. Actions = {}
    BY <1>1 DEF Actions, Records
  <2> QED
    BY <1>1, <2>1 DEF DecidedOnTheRecord, ResultIsWholeTrace
<1> QED
  BY <1>4, <1>5, <1>6, <1>7 DEF CallInv

\* What the log says does not change while the log does not.
LEMMA LogSaysTheSame ==
  ASSUME UNCHANGED <<log, runStart>>
  PROVE  /\ Records' = Records /\ InLog' = InLog /\ InCall' = InCall
         /\ DecidedOnTheRecord => DecidedOnTheRecord'
<1>1. /\ Records' = Records /\ Actions' = Actions
      /\ \A f, l : RevealsIn(f, l)' = RevealsIn(f, l)
  BY DEF Records, Actions, RevealsIn
<1> QED
  BY <1>1 DEF InLog, InCall, RevealsIn, Records, Actions, DecidedOnTheRecord

\* A call that ends without a result.
LEMMA EndCallInv ==
  ASSUME CallInv, pc' = "idle", outcome' = "raised", policyUp' = FALSE, runs' \in 0..MaxRuns,
         UNCHANGED <<runStart, budget, spent, remaining, round, deviated, selected, history,
                     events, hull, revealed, log>>
  PROVE  CallInv'
<1>1. /\ Records' = Records /\ InLog' = InLog /\ InCall' = InCall
      /\ DecidedOnTheRecord'
  BY LogSaysTheSame DEF CallInv
<1>2. Shapes'
  <2>1. TypeOK'
    BY DEF CallInv, Shapes, TypeOK
  <2> QED
    BY <2>1 DEF CallInv, Shapes
<1>3. Told'
  BY <1>1 DEF CallInv, Told, InStep
<1>4. Paid'
  BY DEF CallInv, Paid
<1>5. ResultIsWholeTrace'
  BY DEF ResultIsWholeTrace
<1> QED
  BY <1>1, <1>2, <1>3, <1>4, <1>5 DEF CallInv

LEMMA StartRunCallInv ==
  ASSUME CallInv, NEW b \in Budgets, StartRun(b)
  PROVE  CallInv'
<1>1. /\ pc = "idle" /\ runs' = runs + 1 /\ runs < MaxRuns /\ UNCHANGED <<hull, revealed, log>>
      /\ runs \in 0..MaxRuns /\ b \in Int
  BY RunnerAssumption DEF StartRun, CallInv, Shapes, TypeOK
<1>2. runs' \in 0..MaxRuns
  BY <1>1, RunnerAssumption
<1>3. CASE b <= 0
  BY <1>1, <1>2, <1>3, EndCallInv DEF StartRun, locals
<1>4. CASE ~(b <= 0)
  <2>1. /\ pc' = "loop" /\ outcome' = "none" /\ runStart' = Records
        /\ budget' = b /\ spent' = 0 /\ remaining' = Candidates
        /\ round' = 1 /\ deviated' = FALSE
        /\ history' = <<>> /\ events' = <<>>
        /\ UNCHANGED <<state, selected, grant, policyUp>>
    BY <1>4 DEF StartRun, Records
  <2>2. Records' = Records /\ InLog' = InLog /\ Records \in Nat
    BY <1>1 DEF Records, InLog, RevealsIn, CallInv, Shapes, TypeOK
  <2>3. InCall' = <<>>
    <3>1. InCall' = RevealsOf(log.records, Records + 1, Records)
      BY <1>1, <2>1, <2>2 DEF InCall, RevealsIn
    <3> QED
      BY <2>2, <3>1, NoReveals
  <2>4. ToSet(<<>>) = {} /\ <<>> \in Seq(Candidates)
    BY DEF ToSet
  <2>5. Shapes'
    <3>1. runStart' \in 0..Len(log'.records)
      BY <1>1, <2>1, <2>2 DEF Records
    <3>2. budget' \in Nat
      BY <1>1, <1>4, <2>1
    <3>3. /\ policyUp' \in BOOLEAN /\ selected' \in Candidates \union {<<>>}
          /\ log'.pending \in 0..Len(log'.records)
          /\ ToSet(hull') \subseteq Candidates /\ ToSet(revealed') \subseteq Candidates
          /\ revealed' \in Seq(Candidates)
      BY <1>1, <2>1 DEF CallInv, Shapes, TypeOK
    <3>4. \A s \in {history', events', hull', revealed'} : ToSet(s) \subseteq Candidates
      BY <2>1, <2>4, <3>3
    <3>5. TypeOK'
      <4>1. pc' \in {"idle", "loop", "blocked", "select", "append", "reveal", "record"}
        BY <2>1
      <4>2. outcome' \in {"none", "returned", "raised"}
        BY <2>1
      <4>3. spent' \in Nat /\ round' \in Nat \ {0}
        BY <2>1
      <4>4. remaining' \subseteq Candidates /\ deviated' \in BOOLEAN
        BY <2>1
      <4> QED
        BY <1>2, <3>1, <3>2, <3>3, <3>4, <4>1, <4>2, <4>3, <4>4 DEF TypeOK
    <3> QED
      BY <2>1, <2>4, <3>3, <3>5 DEF Shapes
  <2>6. Told'
    BY <1>1, <2>1, <2>2, <2>3, <2>4 DEF CallInv, Told, InStep
  <2>7. Paid'
    <3>1. SumFunctionOnSet(Cost, {}) = 0
      BY SumStep, FS_EmptySet
    <3>2. 0 <= b + Tol
      BY <1>1, <1>4, RunnerAssumption
    <3> QED
      BY <2>1, <2>4, <3>1, <3>2 DEF Paid
  <2>8. DecidedOnTheRecord' /\ ResultIsWholeTrace'
    <3>1. Actions' = Actions /\ Actions \subseteq 1..Records
      BY <1>1 DEF Actions, Records
    <3>2. \A k \in Actions' : ~(k > runStart')
      BY <2>1, <2>2, <3>1
    <3>3. \A k \in Actions' : log'.records[k].state.hull = RevealsIn(1, k - 1)'
      BY <1>1, <3>1 DEF CallInv, DecidedOnTheRecord, RevealsIn
    <3> QED
      BY <2>1, <3>2, <3>3 DEF DecidedOnTheRecord, ResultIsWholeTrace
  <2> QED
    BY <2>5, <2>6, <2>7, <2>8 DEF CallInv
<1> QED
  BY <1>3, <1>4

LEMMA CreateStateCallInv ==
  ASSUME CallInv, CreateState
  PROVE  CallInv'
<1>1. /\ pc = "loop"
      /\ UNCHANGED <<runs, runStart, budget, spent, remaining, round, deviated, selected,
                     grant, history, events, hull, revealed, log>>
  BY DEF CreateState
<1>2. CASE budget - spent < 0
  BY <1>1, <1>2, EndCallInv DEF CreateState, Abort, CallInv, Shapes, TypeOK
<1>3. CASE ~(budget - spent < 0)
  <2>1. /\ pc' \in {"blocked", "select"} /\ UNCHANGED outcome
        /\ policyUp' = policyUp \/ policyUp' = TRUE
        /\ state'.queries = Affordable /\ state'.hull = hull /\ state'.history = history
    BY <1>3 DEF CreateState
  <2>2. /\ Records' = Records /\ InLog' = InLog /\ InCall' = InCall
        /\ DecidedOnTheRecord'
    BY <1>1, LogSaysTheSame DEF CallInv
  <2>3. Shapes'
    <3>1. TypeOK'
      <4>1. policyUp' \in BOOLEAN
        BY <2>1 DEF CallInv, Shapes, TypeOK
      <4> QED
        BY <1>1, <2>1, <4>1 DEF CallInv, Shapes, TypeOK
    <3>2. Affordable \subseteq Candidates
      BY DEF Affordable, CallInv, Shapes, TypeOK
    <3> QED
      BY <1>1, <2>1, <3>1, <3>2 DEF CallInv, Shapes
  <2>4. Told'
    BY <1>1, <2>1, <2>2 DEF CallInv, Told, InStep
  <2>5. Paid'
    BY <1>1, <2>1 DEF CallInv, Paid, Affordable
  <2>6. ResultIsWholeTrace'
    BY <1>1, <2>1 DEF CallInv, Shapes, ResultIsWholeTrace
  <2> QED
    BY <2>2, <2>3, <2>4, <2>5, <2>6 DEF CallInv
<1> QED
  BY <1>2, <1>3

LEMMA UnblockedCallInv ==
  ASSUME CallInv, Unblocked
  PROVE  CallInv'
<1>1. /\ pc = "blocked" /\ pc' = "select"
      /\ UNCHANGED <<runs, outcome, runStart, budget, spent, remaining, round, deviated, state,
                     selected, grant, history, events, hull, revealed, log, policyUp>>
  BY DEF Unblocked, locals
<1>2. /\ Records' = Records /\ InLog' = InLog /\ InCall' = InCall
      /\ DecidedOnTheRecord'
  BY <1>1, LogSaysTheSame DEF CallInv
<1>3. Shapes'
  <2>1. TypeOK'
    BY <1>1 DEF CallInv, Shapes, TypeOK
  <2> QED
    BY <1>1, <2>1 DEF CallInv, Shapes
<1>4. Told'
  BY <1>1, <1>2 DEF CallInv, Told, InStep
<1>5. Paid'
  BY <1>1 DEF CallInv, Paid
<1>6. ResultIsWholeTrace'
  BY <1>1 DEF CallInv, Shapes, ResultIsWholeTrace
<1> QED
  BY <1>2, <1>3, <1>4, <1>5, <1>6 DEF CallInv

LEMMA SelectCallInv ==
  ASSUME CallInv, NEW id \in Candidates, Select(id)
  PROVE  CallInv'
<1>1. /\ pc = "select" /\ pc' = "append" /\ selected' = id /\ id \in state.queries
      /\ deviated' = (deviated \/ (Conformal /\ id # state.source)) /\ policyUp' = TRUE
      /\ UNCHANGED <<runs, outcome, runStart, budget, spent, remaining, round, state, grant,
                     history, events, hull, revealed, log>>
  BY DEF Select
<1>2. /\ Records' = Records /\ InLog' = InLog /\ InCall' = InCall
      /\ DecidedOnTheRecord'
  BY <1>1, LogSaysTheSame DEF CallInv
<1>3. Shapes'
  <2>1. deviated' \in BOOLEAN
    BY <1>1, RunnerAssumption DEF CallInv, Shapes, TypeOK
  <2>2. TypeOK'
    BY <1>1, <2>1 DEF CallInv, Shapes, TypeOK
  <2> QED
    BY <1>1, <2>2 DEF CallInv, Shapes
<1>4. Told'
  BY <1>1, <1>2 DEF CallInv, Told, InStep
<1>5. Paid'
  BY <1>1 DEF CallInv, Paid
<1>6. ResultIsWholeTrace'
  BY <1>1 DEF CallInv, Shapes, ResultIsWholeTrace
<1> QED
  BY <1>2, <1>3, <1>4, <1>5, <1>6 DEF CallInv

\* What the log says once it has one more record.
LEMMA LogSaysMore ==
  ASSUME CallInv, LogShape, NEW record, log'.records = Append(log.records, record),
         UNCHANGED runStart
  PROVE  /\ Records \in Nat /\ Records' = Records + 1
         /\ \A k \in 1..Records : log'.records[k] = log.records[k]
         /\ log'.records[Records + 1] = record
         /\ \A f \in Nat \ {0} : \A l \in 0..Records : RevealsIn(f, l)' = RevealsIn(f, l)
         /\ record.kind = "reveal" =>
              /\ InLog' = Append(InLog, record.pair)
              /\ InCall' = Append(InCall, record.pair)
              /\ Actions' = Actions
         /\ record.kind = "action" =>
              /\ InLog' = InLog /\ InCall' = InCall /\ Actions' = Actions \union {Records + 1}
         /\ AnySeq(InLog) /\ Len(InLog) \in Nat /\ AnySeq(InCall)
<1>1. /\ Records \in Nat /\ Records' = Records + 1
      /\ \A k \in 1..Records : log'.records[k] = log.records[k]
      /\ log'.records[Records + 1] = record
  BY AppendFacts DEF LogShape, Records
<1>2. ASSUME NEW f \in Nat \ {0}, NEW l \in 0..Records
      PROVE  RevealsIn(f, l)' = RevealsIn(f, l)
  <2>1. l \in Nat /\ \A k \in 1..l : log'.records[k] = log.records[k]
    <3>1. l \in Nat /\ \A k \in 1..l : k \in 1..Records
      BY <1>1
    <3> QED
      BY <1>1, <3>1
  <2>2. RevealsOf(log'.records, f, l) = RevealsOf(log.records, f, l)
    BY <2>1, SameReveals
  <2> QED
    BY <2>2 DEF RevealsIn
<1>3. runStart \in 0..Records
  BY DEF CallInv, Shapes, TypeOK, Records
<1>4. ASSUME NEW f \in Nat \ {0}, f <= Records + 1
      PROVE  /\ record.kind = "reveal" =>
                  RevealsOf(log'.records, f, Records + 1) =
                    Append(RevealsIn(f, Records), record.pair)
             /\ record.kind = "action" =>
                  RevealsOf(log'.records, f, Records + 1) = RevealsIn(f, Records)
  <2>1. RevealsOf(log'.records, f, Records) = RevealsIn(f, Records)
    BY <1>1, SameReveals DEF RevealsIn
  <2>2. log'.records[Records + 1] = record
    BY <1>1
  <2>3. CASE record.kind = "reveal"
    <3>1. log'.records[Records + 1].kind = "reveal" /\ f \in Nat /\ Records \in Nat
      BY <1>1, <2>2, <2>3
    <3>2. RevealsOf(log'.records, f, Records + 1) =
            Append(RevealsOf(log'.records, f, Records), log'.records[Records + 1].pair)
      BY <1>4, <3>1, RevealAdds
    <3> QED
      BY <2>1, <2>2, <2>3, <3>2
  <2>4. CASE record.kind = "action"
    <3>1. log'.records[Records + 1].kind # "reveal"
      BY <2>2, <2>4
    <3> QED
      BY <1>1, <2>1, <2>4, <3>1, ActionAddsNothing
  <2> QED
    BY <2>3, <2>4
<1>5. /\ InLog' = RevealsOf(log'.records, 1, Records + 1)
      /\ InCall' = RevealsOf(log'.records, runStart + 1, Records + 1)
  BY <1>1 DEF InLog, InCall, RevealsIn
<1>6. 1 <= Records + 1 /\ runStart + 1 \in Nat \ {0} /\ runStart + 1 <= Records + 1
  BY <1>1, <1>3
<1>7. /\ record.kind = "reveal" =>
           /\ InLog' = Append(InLog, record.pair) /\ InCall' = Append(InCall, record.pair)
      /\ record.kind = "action" => InLog' = InLog /\ InCall' = InCall
  BY <1>4, <1>5, <1>6 DEF InLog, InCall
<1>8. \A k \in 1..(Records + 1) :
        k \in Actions' <=> k \in Actions \/ (k = Records + 1 /\ record.kind = "action")
  <2> TAKE k \in 1..(Records + 1)
  <2>1. CASE k \in 1..Records
    BY <1>1, <2>1 DEF Actions, Records
  <2>2. CASE k = Records + 1
    BY <1>1, <2>2 DEF Actions, Records
  <2> QED
    BY <1>1, <2>1, <2>2
<1>9. Actions' \subseteq 1..(Records + 1) /\ Actions \subseteq 1..(Records + 1)
  BY <1>1 DEF Actions, Records
<1>10. /\ record.kind = "reveal" => Actions' = Actions
       /\ record.kind = "action" => Actions' = Actions \union {Records + 1}
  <2>1. CASE record.kind = "reveal"
    <3>1. \A k \in 1..(Records + 1) : k \in Actions' <=> k \in Actions
      BY <1>8, <2>1
    <3> QED
      BY <1>9, <2>1, <3>1
  <2>2. CASE record.kind = "action"
    <3>1. Records + 1 \in 1..(Records + 1)
      BY <1>1
    <3> QED
      BY <1>8, <1>9, <2>2, <3>1
  <2> QED
    BY <2>1, <2>2
<1>11. AnySeq(InLog) /\ Len(InLog) \in Nat /\ AnySeq(InCall)
  BY <1>1, <1>6, RevealsOfFacts DEF InLog, InCall, RevealsIn
<1> QED
  BY <1>1, <1>2, <1>7, <1>10, <1>11

\* The selection is recorded with the state it was decided on.
LEMMA PersistActionCallInv ==
  ASSUME CallInv, LogShape, PersistAction
  PROVE  CallInv'
<1>1. /\ pc = "append"
      /\ UNCHANGED <<runs, runStart, budget, spent, round, deviated, state, selected,
                     history, events, hull, revealed>>
  BY DEF PersistAction
<1>2. CASE ~MayAppendAction(log)
  BY <1>1, <1>2, EndCallInv DEF PersistAction, Abort, CallInv, Shapes, TypeOK
<1>3. CASE MayAppendAction(log)
  <2> DEFINE record == ActionRecord(log, state.round, selected, state)
  <2>1. /\ pc' = "reveal" /\ log.pending = NoPending
        /\ remaining' = remaining \ {selected} /\ UNCHANGED <<outcome, policyUp>>
        /\ log'.records = Append(log.records, record)
        /\ log'.pending = Records + 1
    BY <1>3 DEF PersistAction, WithAction, MayAppendAction, Records
  <2>2. record.kind = "action" /\ record.state = state
    BY DEF ActionRecord
  <2> HIDE DEF record
  <2>3. /\ Records \in Nat /\ Records' = Records + 1
        /\ \A k \in 1..Records : log'.records[k] = log.records[k]
        /\ log'.records[Records + 1] = record
        /\ \A f \in Nat \ {0} : \A l \in 0..Records : RevealsIn(f, l)' = RevealsIn(f, l)
        /\ InLog' = InLog /\ InCall' = InCall /\ Actions' = Actions \union {Records + 1}
        /\ AnySeq(InLog) /\ Len(InLog) \in Nat
    BY <1>1, <2>1, <2>2, LogSaysMore
  <2>4. hull = InLog /\ history = InCall /\ state.hull = hull /\ state.history = history
    BY <1>1, <2>1 DEF CallInv, Told, InStep
  <2>5. Shapes'
    <3>1. TypeOK'
      <4>1. runStart' \in 0..Len(log'.records) /\ log'.pending \in 0..Len(log'.records)
        BY <1>1, <2>1, <2>3 DEF CallInv, Shapes, TypeOK, Records
      <4> QED
        BY <1>1, <2>1, <4>1 DEF CallInv, Shapes, TypeOK
    <3> QED
      BY <1>1, <2>1, <3>1 DEF CallInv, Shapes
  <2>6. Told'
    <3>1. log'.pending # NoPending
      BY <2>1, <2>3 DEF NoPending
    <3>2. Records' = 2 * Len(InLog') + 1
      BY <2>1, <2>3 DEF CallInv, Told
    <3> QED
      BY <1>1, <2>1, <2>3, <2>4, <3>1, <3>2 DEF CallInv, Told, InStep
  <2>7. Paid'
    BY <1>1, <2>1 DEF CallInv, Paid
  <2>8. DecidedOnTheRecord'
    <3> SUFFICES ASSUME NEW k \in Actions'
                 PROVE  /\ log'.records[k].state.hull = RevealsIn(1, k - 1)'
                        /\ k > runStart' =>
                             log'.records[k].state.history = RevealsIn(runStart + 1, k - 1)'
      BY DEF DecidedOnTheRecord
    <3>1. runStart \in Nat /\ k \in 1..(Records + 1) /\ k - 1 \in 0..Records
      BY <2>3 DEF CallInv, Shapes, TypeOK, Actions, Records
    <3>2. /\ RevealsIn(1, k - 1)' = RevealsIn(1, k - 1)
          /\ RevealsIn(runStart + 1, k - 1)' = RevealsIn(runStart + 1, k - 1)
      BY <1>1, <2>3, <3>1
    <3>3. CASE k \in Actions
      <4>1. k \in 1..Records
        BY <3>3 DEF Actions, Records
      <4> QED
        BY <1>1, <2>3, <3>2, <3>3, <4>1 DEF CallInv, DecidedOnTheRecord
    <3>4. CASE k = Records + 1
      <4>1. RevealsIn(1, k - 1) = hull /\ RevealsIn(runStart + 1, k - 1) = history
        BY <2>3, <2>4, <3>4 DEF InLog, InCall
      <4> QED
        BY <2>2, <2>3, <2>4, <3>2, <3>4, <4>1
    <3> QED
      BY <2>3, <3>3, <3>4
  <2>9. ResultIsWholeTrace'
    BY <1>1, <2>1 DEF CallInv, Shapes, ResultIsWholeTrace
  <2> QED
    BY <2>5, <2>6, <2>7, <2>8, <2>9 DEF CallInv
<1> QED
  BY <1>2, <1>3

\* The elements of a sequence once it has one more.
LEMMA ToSetAppend ==
  ASSUME NEW S, NEW s \in Seq(S), NEW e \in S
  PROVE  /\ Append(s, e) \in Seq(S) /\ ToSet(Append(s, e)) = ToSet(s) \union {e}
         /\ ToSet(s) \subseteq S /\ ToSet(s) = {s[i] : i \in 1..Len(s)}
<1>1. /\ Len(s) \in Nat /\ DOMAIN s = 1..Len(s) /\ \A i \in 1..Len(s) : s[i] \in S
      /\ Append(s, e) \in Seq(S) /\ DOMAIN Append(s, e) = 1..(Len(s) + 1)
      /\ \A i \in 1..Len(s) : Append(s, e)[i] = s[i]
      /\ Append(s, e)[Len(s) + 1] = e
  <2>1. /\ Append(s, e) \in Seq(S) /\ Len(Append(s, e)) = Len(s) + 1
        /\ \A i \in 1..Len(s) : Append(s, e)[i] = s[i]
        /\ Append(s, e)[Len(s) + 1] = e
    BY AppendProperties
  <2>2. DOMAIN Append(s, e) = 1..(Len(s) + 1)
    BY <2>1, LenProperties
  <2> QED
    BY <2>1, <2>2, LenProperties
<1>2. ToSet(s) = {s[i] : i \in 1..Len(s)}
  BY <1>1 DEF ToSet
<1>3. ToSet(Append(s, e)) = {Append(s, e)[i] : i \in 1..(Len(s) + 1)}
  BY <1>1 DEF ToSet
<1>4. ToSet(Append(s, e)) = ToSet(s) \union {e}
  <2>1. \A i \in 1..(Len(s) + 1) : i \in 1..Len(s) \/ i = Len(s) + 1
    BY <1>1
  <2>2. Len(s) + 1 \in 1..(Len(s) + 1) /\ \A i \in 1..Len(s) : i \in 1..(Len(s) + 1)
    BY <1>1
  <2> QED
    BY <1>1, <1>2, <1>3, <2>1, <2>2
<1> QED
  BY <1>1, <1>2, <1>4

\* The outcome is charged once.
LEMMA RevealSelectedCallInv ==
  ASSUME CallInv, RevealSelected
  PROVE  CallInv'
<1>1. /\ pc = "reveal"
      /\ UNCHANGED <<runs, runStart, budget, remaining, round, deviated, state, selected,
                     grant, events, log>>
  BY DEF RevealSelected
<1>2. CASE UNCHANGED <<revealed, spent, history, hull>> /\ Abort
  BY <1>1, <1>2, EndCallInv DEF Abort, CallInv, Shapes, TypeOK
<1>3. CASE /\ ~Contains(revealed, selected)
           /\ revealed' = Append(revealed, selected)
           /\ spent' = spent + Cost[selected]
           /\ history' = Append(history, selected)
           /\ hull' = Append(hull, selected)
           /\ pc' = "record" /\ UNCHANGED <<outcome, policyUp>>
  <2>1. /\ Records' = Records /\ InLog' = InLog /\ InCall' = InCall
        /\ DecidedOnTheRecord'
    BY <1>1, LogSaysTheSame DEF CallInv
  <2>2. /\ selected \in Candidates /\ history \in Seq(Candidates) /\ revealed \in Seq(Candidates)
        /\ hull = revealed /\ spent \in Nat /\ budget \in Nat
        /\ spent = SumFunctionOnSet(Cost, ToSet(history))
        /\ Cost[selected] <= budget - spent + Tol /\ Cost[selected] \in Nat
        /\ ToSet(history) \subseteq ToSet(revealed)
    BY <1>1, RunnerAssumption DEF CallInv, Shapes, Told, Paid, TypeOK
  <2>3. /\ history' \in Seq(Candidates) /\ ToSet(history') = ToSet(history) \union {selected}
        /\ revealed' \in Seq(Candidates) /\ ToSet(revealed') = ToSet(revealed) \union {selected}
        /\ ToSet(history) \subseteq Candidates /\ ToSet(revealed) \subseteq Candidates
    BY <1>3, <2>2, ToSetAppend
  <2>4. selected \notin ToSet(history)
    <3>1. ToSet(revealed) = {revealed[i] : i \in 1..Len(revealed)}
      BY <2>2, ToSetAppend
    <3>2. selected \notin ToSet(revealed)
      BY <1>3, <3>1 DEF Contains
    <3> QED
      BY <2>2, <3>2
  <2>5. spent' = SumFunctionOnSet(Cost, ToSet(history')) /\ spent' <= budget + Tol /\ spent' \in Nat
    <3>1. ToSet(history') \in SUBSET Candidates /\ IsFiniteSet(ToSet(history'))
      BY <2>2, <2>3, FS_Subset, RunnerAssumption
    <3>2. Cost \in [Candidates -> Int]
      BY RunnerAssumption
    <3>3. ToSet(history') \ {selected} = ToSet(history)
      BY <2>3, <2>4
    <3>4. \A x \in ToSet(history') :
            SumFunctionOnSet(Cost, ToSet(history')) =
              Cost[x] + SumFunctionOnSet(Cost, ToSet(history') \ {x})
      BY <3>1, <3>2, SumAdds
    <3>5. SumFunctionOnSet(Cost, ToSet(history')) = Cost[selected] + spent
      <4>1. selected \in ToSet(history')
        BY <2>3
      <4> QED
        BY <2>2, <3>3, <3>4, <4>1
    <3>6. Tol \in Nat
      BY RunnerAssumption
    <3>7. spent' \in Nat /\ spent' <= budget + Tol /\ spent' = Cost[selected] + spent
      BY <1>3, <2>2, <3>6
    <3> QED
      BY <3>5, <3>7
  <2>6. Shapes'
    <3>1. \A s \in {history', events', hull', revealed'} : ToSet(s) \subseteq Candidates
      <4>1. ToSet(events') \subseteq Candidates /\ hull' = revealed'
        BY <1>1, <1>3, <2>2 DEF CallInv, Shapes, TypeOK
      <4> QED
        BY <2>2, <2>3, <4>1
    <3>2. TypeOK'
      BY <1>1, <1>3, <2>5, <3>1 DEF CallInv, Shapes, TypeOK
    <3> QED
      BY <1>1, <1>3, <2>2, <2>3, <3>2 DEF CallInv, Shapes
  <2>7. Told'
    <3>1. hull = InLog /\ history = InCall /\ log.pending = Records /\ log.pending # NoPending
      BY <1>1 DEF CallInv, Told, InStep
    <3>2. Len(hull') = Len(hull) + 1 /\ Len(hull) \in Nat
      BY <1>3, <2>2
    <3>3. Len(InLog) <= Len(hull')
      BY <3>1, <3>2
    <3>4. ~InStep'
      BY <1>1, <1>3, <3>1 DEF InStep
    <3> QED
      BY <1>1, <1>3, <2>1, <2>2, <2>3, <3>1, <3>3, <3>4 DEF CallInv, Told
  <2>8. Paid'
    BY <1>1, <1>3, <2>5 DEF Paid
  <2>9. ResultIsWholeTrace'
    BY <1>1, <1>3 DEF CallInv, Shapes, ResultIsWholeTrace
  <2> QED
    BY <2>1, <2>6, <2>7, <2>8, <2>9 DEF CallInv
<1> QED
  BY <1>2, <1>3 DEF RevealSelected

\* Its record makes the log say what the hull and the history say.
LEMMA PersistRevealCallInv ==
  ASSUME CallInv, LogShape, PersistReveal
  PROVE  CallInv'
<1> DEFINE record == RevealRecord(round, selected, grant.digest,
                                  [hull |-> hull, archive |-> history])
<1>1. /\ pc = "record"
      /\ UNCHANGED <<runs, runStart, budget, spent, remaining, deviated, state, selected,
                     grant, history, hull, revealed>>
  BY DEF PersistReveal
<1>2. CASE UNCHANGED <<log, events, round>> /\ Abort
  BY <1>1, <1>2, EndCallInv DEF Abort, CallInv, Shapes, TypeOK
<1>3. CASE /\ log' = WithReveal(log, record)
           /\ events' = Append(events, selected) /\ round' = round + 1
           /\ pc' = "loop" /\ UNCHANGED <<outcome, policyUp>>
  <2>1. /\ log'.records = Append(log.records, record) /\ log'.pending = NoPending
    BY <1>3 DEF WithReveal
  <2>2. record.kind = "reveal" /\ record.pair = selected
    BY DEF RevealRecord
  <2> HIDE DEF record
  <2>3. /\ Records \in Nat /\ Records' = Records + 1
        /\ \A k \in 1..Records : log'.records[k] = log.records[k]
        /\ log'.records[Records + 1] = record
        /\ \A f \in Nat \ {0} : \A l \in 0..Records : RevealsIn(f, l)' = RevealsIn(f, l)
        /\ InLog' = Append(InLog, selected) /\ InCall' = Append(InCall, selected)
        /\ Actions' = Actions
        /\ AnySeq(InLog) /\ Len(InLog) \in Nat
    BY <1>1, <2>1, <2>2, LogSaysMore
  <2>4. /\ hull = InLog' /\ history = InCall' /\ log.pending # NoPending
        /\ Len(InLog') = Len(InLog) + 1
    BY <1>1, <2>3, AppendFacts DEF CallInv, Told
  <2>5. Shapes'
    <3>1. TypeOK'
      <4>1. runStart' \in 0..Len(log'.records) /\ log'.pending \in 0..Len(log'.records)
        BY <1>1, <2>1, <2>3 DEF CallInv, Shapes, TypeOK, Records, NoPending
      <4>2. ToSet(events') \subseteq Candidates
        BY <1>1, <1>3, ToSetAppend DEF CallInv, Shapes
      <4>3. round' \in Nat \ {0}
        BY <1>3 DEF CallInv, Shapes, TypeOK
      <4> QED
        BY <1>1, <1>3, <4>1, <4>2, <4>3 DEF CallInv, Shapes, TypeOK
    <3>2. events' \in Seq(Candidates)
      BY <1>1, <1>3, ToSetAppend DEF CallInv, Shapes
    <3> QED
      BY <1>1, <1>3, <3>1, <3>2 DEF CallInv, Shapes
  <2>6. Told'
    <3>1. Records' = 2 * Len(InLog') /\ Len(InLog') <= Len(hull)
      BY <2>3, <2>4 DEF CallInv, Told
    <3> QED
      BY <1>1, <1>3, <2>1, <2>4, <3>1 DEF CallInv, Told, InStep
  <2>7. Paid'
    BY <1>1, <1>3 DEF CallInv, Paid
  <2>8. DecidedOnTheRecord'
    <3> SUFFICES ASSUME NEW k \in Actions
                 PROVE  /\ log'.records[k].state.hull = RevealsIn(1, k - 1)'
                        /\ k > runStart' =>
                             log'.records[k].state.history = RevealsIn(runStart + 1, k - 1)'
      BY <2>3 DEF DecidedOnTheRecord
    <3>1. runStart \in Nat /\ k \in 1..Records /\ k - 1 \in 0..Records
      BY <2>3 DEF CallInv, Shapes, TypeOK, Actions, Records
    <3>2. /\ RevealsIn(1, k - 1)' = RevealsIn(1, k - 1)
          /\ RevealsIn(runStart + 1, k - 1)' = RevealsIn(runStart + 1, k - 1)
      BY <1>1, <2>3, <3>1
    <3> QED
      BY <1>1, <2>3, <3>1, <3>2 DEF CallInv, DecidedOnTheRecord
  <2>9. ResultIsWholeTrace'
    BY <1>1, <1>3 DEF CallInv, Shapes, ResultIsWholeTrace
  <2> QED
    BY <2>5, <2>6, <2>7, <2>8, <2>9 DEF CallInv
<1> QED
  BY <1>2, <1>3 DEF PersistReveal

\* What is returned is the whole trace.
LEMMA EndLoopCallInv ==
  ASSUME CallInv, LogShape, EndLoop
  PROVE  CallInv'
<1>1. /\ pc = "loop" /\ pc' = "idle" /\ policyUp' = FALSE
      /\ outcome' \in (IF events = revealed THEN {"returned", "raised"} ELSE {"raised"})
      /\ UNCHANGED <<runs, runStart, locals, hull, revealed, log>>
  BY DEF EndLoop
<1>2. CASE outcome' = "raised"
  BY <1>1, <1>2, EndCallInv DEF locals, CallInv, Shapes, TypeOK
<1>3. CASE outcome' = "returned" /\ events = revealed
  <2>1. /\ Records' = Records /\ InLog' = InLog /\ InCall' = InCall
        /\ DecidedOnTheRecord'
    BY <1>1, LogSaysTheSame DEF CallInv
  <2>2. Shapes'
    <3>1. TypeOK'
      BY <1>1, <1>3 DEF CallInv, Shapes, TypeOK, locals
    <3> QED
      BY <1>1, <3>1 DEF CallInv, Shapes, locals
  <2>3. Told'
    BY <1>1, <2>1 DEF CallInv, Told, InStep, locals
  <2>4. Paid'
    BY <1>1 DEF CallInv, Paid, locals
  <2>5. /\ hull = revealed /\ InLog = revealed
        /\ log.pending = NoPending => Records = 2 * Len(revealed)
        /\ log.pending # NoPending => revealed = <<>> /\ Records = 1
    <3>1. CASE log.pending = NoPending
      BY <3>1 DEF CallInv, Told, InStep
    <3>2. CASE log.pending # NoPending
      <4>1. hull = <<>> /\ revealed = <<>> /\ Len(InLog) <= 0 /\ Records = 2 * Len(InLog) + 1
        BY <1>1, <1>3, <3>2, EmptyFacts DEF CallInv, Told
      <4>2. AnySeq(InLog) /\ Len(InLog) \in Nat
        <5>1. Records \in Nat
          BY DEF Records, CallInv, Shapes, TypeOK, LogShape, AnySeq
        <5> QED
          BY <5>1, RevealsOfFacts DEF InLog, RevealsIn
      <4>3. Len(InLog) = 0 /\ Records = 1
        BY <4>1, <4>2
      <4>4. InLog = <<>>
        BY <4>2, <4>3, EmptySeq DEF AnySeq
      <4> QED
        BY <3>2, <4>1, <4>3, <4>4
    <3> QED
      BY <3>1, <3>2
  <2>6. ResultIsWholeTrace'
    <3>1. /\ events' = events /\ revealed' = revealed /\ hull' = hull
          /\ log' = log
      BY <1>1 DEF locals
    <3>2. RevealsIn(1, Len(log.records))' = InLog /\ Len(log'.records) = Records
      BY <2>1, <3>1 DEF InLog, RevealsIn, Records
    <3> QED
      BY <1>3, <2>5, <3>1, <3>2 DEF ResultIsWholeTrace
  <2> QED
    BY <2>1, <2>2, <2>3, <2>4, <2>6 DEF CallInv
<1> QED
  BY <1>1, <1>2, <1>3

LEMMA NextCallInv ==
  ASSUME CallInv, LogShape, [Next]_vars
  PROVE  CallInv'
<1>1. CASE SelectRaises \/ PersistActionRaises \/ PersistRevealRaises
  <2>1. Abort /\ UNCHANGED <<runs, runStart, locals, hull, revealed, log>>
    BY <1>1 DEF SelectRaises, PersistActionRaises, PersistRevealRaises
  <2> QED
    BY <2>1, EndCallInv DEF Abort, locals, CallInv, Shapes, TypeOK
<1>2. CASE UNCHANGED vars
  <2>1. /\ Records' = Records /\ InLog' = InLog /\ InCall' = InCall
        /\ DecidedOnTheRecord'
    BY <1>2, LogSaysTheSame DEF CallInv, vars
  <2>2. Shapes'
    BY <1>2 DEF CallInv, Shapes, TypeOK, vars, locals
  <2>3. Told' /\ Paid'
    BY <1>2, <2>1 DEF CallInv, Told, InStep, Paid, vars, locals
  <2>4. ResultIsWholeTrace'
    BY <1>2 DEF CallInv, ResultIsWholeTrace, RevealsIn, vars, locals
  <2> QED
    BY <2>1, <2>2, <2>3, <2>4 DEF CallInv
<1> QED
  BY <1>1, <1>2, StartRunCallInv, CreateStateCallInv, UnblockedCallInv, SelectCallInv, PersistActionCallInv,
     RevealSelectedCallInv, PersistRevealCallInv, EndLoopCallInv DEF Next, Step

\* The record of a call is all there is to it, for every sequence of calls:
\* each selection was decided on exactly what the log shows before it, what is
\* returned is the whole trace, and what was looked at costs the budget and one
\* tolerance at most.
THEOREM CallsAreDecidedOnTheirRecord == Spec => []DecidedOnItsRecord
<1>1. Init => CallInv
  BY InitCallInv
<1>2. CallInv /\ LogShape /\ [Next]_vars => CallInv'
  BY NextCallInv
<1>3. IInv => LogShape
  BY DEF IInv
<1>4. CallInv => DecidedOnItsRecord
  BY DEF CallInv, Shapes, Paid, DecidedOnItsRecord, WithinBudget
<1> QED
  BY <1>1, <1>2, <1>3, <1>4, RunnerInvariant, PTL DEF Spec

-------------------------------------------------------------------------------
(* The persistent worker.                                                   *)

\* What the reader has put at the end of the queue.
Ended(g) == IF reading[g] THEN <<>> ELSE <<EOF>>

\* Nothing of any request is on its way in the generation.
Quiet(g) ==
  /\ inbox[g] = <<>> /\ busy[g] = Nothing /\ outbox[g] = <<>>
  /\ responses[g] = Ended(g)

\* One request is, in one of the four places between the parent and itself.
Carries(g, request) ==
  \/ /\ inbox[g] = <<request>> /\ busy[g] = Nothing /\ outbox[g] = <<>>
     /\ responses[g] = Ended(g)
  \/ /\ inbox[g] = <<>> /\ busy[g] = request /\ outbox[g] = <<>>
     /\ responses[g] = Ended(g)
  \/ /\ inbox[g] = <<>> /\ busy[g] = Nothing /\ outbox[g] = <<request>>
     /\ responses[g] = <<>> /\ reading[g]
  \/ /\ inbox[g] = <<>> /\ busy[g] = Nothing /\ outbox[g] = <<>>
     /\ responses[g] = (IF reading[g] THEN <<request>> ELSE <<request, EOF>>)

\* Inside a call there is a current worker, inside close() there is none.
Stages ==
  /\ stage \in {"poll", "write", "flush", "get"} => current # Nothing /\ call # Nothing
  /\ stage \in {"wait", "terminated", "killed"} => current = Nothing /\ closing # Nothing

\* The current generation carries the call in flight and nothing else.
CurrentCarriesCall ==
  current # Nothing =>
    IF stage \in {"flush", "get"} THEN Carries(current, call) ELSE Quiet(current)

\* A generation that was not started yet is untouched; the reader of a started
\* one only ends with its process.
Fresh ==
  \A g \in Generations :
    /\ g > started =>
         /\ status[g] = "absent" /\ ~reading[g]
         /\ inbox[g] = <<>> /\ busy[g] = Nothing /\ outbox[g] = <<>> /\ responses[g] = <<>>
    /\ g <= started => status[g] # "absent" /\ (~reading[g] => status[g] # "running")

\* The worker that runs is the current one or the one that close() takes down;
\* a killed one that is not gone is waited for or was given up on.
Alive ==
  \A g \in Generations :
    /\ status[g] = "running" =>
         g = current \/ (stage \in {"wait", "terminated"} /\ g = closing)
    /\ status[g] = "killed" =>
         g \in abandoned \/ (stage = "killed" /\ g = closing)

WorkerIInv ==
  /\ WorkerTypeOK
  /\ Stages
  /\ CurrentCarriesCall
  /\ Fresh
  /\ Alive
  /\ AnswersOwnRequest

-------------------------------------------------------------------------------
(* Sequences of at most two lines, which is all a pipe ever holds.          *)

LEMMA ShortSequences ==
  ASSUME NEW x, NEW y
  PROVE  /\ Append(<<>>, x) = <<x>> /\ Append(<<x>>, y) = <<x, y>>
         /\ Head(<<x>>) = x /\ Tail(<<x>>) = <<>>
         /\ Head(<<x, y>>) = x /\ Tail(<<x, y>>) = <<y>>
         /\ <<x>> # <<>> /\ <<x, y>> # <<>>
<1> DEFINE S == {x, y}
<1>1. /\ <<x>> \in Seq(S) /\ <<x, y>> \in Seq(S) /\ y \in S
      /\ Len(<<x>>) = 1 /\ Len(<<x, y>>) = 2
      /\ <<x>>[1] = x /\ <<x, y>>[1] = x /\ <<x, y>>[2] = y
  OBVIOUS
<1>2. Append(<<x>>, y) = <<x, y>>
  <2> HIDE DEF S
  <2>1. /\ Append(<<x>>, y) \in Seq(S) /\ Len(Append(<<x>>, y)) = 2
        /\ Append(<<x>>, y)[1] = x /\ Append(<<x>>, y)[2] = y
    BY <1>1, AppendProperties
  <2>2. \A i \in 1..2 : Append(<<x>>, y)[i] = <<x, y>>[i]
    BY <1>1, <2>1
  <2> QED
    BY <1>1, <2>1, <2>2, SeqEqual
<1>3. /\ Append(<<>>, x) = <<x>> /\ Head(<<x>>) = x /\ Tail(<<x>>) = <<>>
      /\ <<x>> # <<>> /\ <<x, y>> # <<>>
  OBVIOUS
<1>4. Head(<<x, y>>) = x
  OBVIOUS
<1>5. Tail(<<x, y>>) = <<y>>
  OBVIOUS
<1> QED
  BY <1>2, <1>3, <1>4, <1>5

\* Where the current generation and the one being closed range.
LEMMA InRange ==
  ASSUME WorkerIInv
  PROVE  /\ MaxCalls \in Nat /\ MaxStarts \in Nat \ {0}
         /\ started \in 0..MaxStarts /\ call \in 0..MaxCalls
         /\ current # Nothing => current \in Generations /\ current <= started
         /\ closing # Nothing => closing \in Generations /\ closing <= started
         /\ \A g \in Generations : g \in Nat \ {0}
         /\ stage \in {"poll", "write", "flush", "get"} => call \in Requests
  BY WorkerAssumption DEF WorkerIInv, WorkerTypeOK, Stages, Generations, Nothing, Requests

LEMMA InitWorkerIInv == WorkerInit => WorkerIInv
<1> SUFFICES ASSUME WorkerInit
             PROVE  WorkerIInv
  OBVIOUS
<1>1. WorkerTypeOK
  BY WorkerAssumption, EmptySeq
     DEF WorkerInit, WorkerTypeOK, NoResult, Generations, Nothing, Requests
<1>2. Stages /\ CurrentCarriesCall /\ Alive /\ AnswersOwnRequest
  BY DEF WorkerInit, Stages, CurrentCarriesCall, Alive, AnswersOwnRequest, NoResult, Nothing
<1>3. Fresh
  BY WorkerAssumption DEF WorkerInit, Fresh, Generations, Nothing
<1> QED
  BY <1>1, <1>2, <1>3 DEF WorkerIInv

-------------------------------------------------------------------------------
(* The parent.                                                              *)

LEMMA StartAndSelectIInv ==
  ASSUME WorkerIInv, StartAndSelect
  PROVE  WorkerIInv'
<1>1. /\ stage = "idle" /\ call < MaxCalls /\ call' = call + 1 /\ stage' = "poll"
      /\ UNCHANGED <<closing, result, abandoned, inbox, busy, outbox, responses>>
  BY DEF StartAndSelect
<1>2. AnswersOwnRequest'
  BY <1>1 DEF WorkerIInv, AnswersOwnRequest
<1>3. call' \in 0..MaxCalls /\ call' # Nothing
  BY <1>1, InRange DEF Nothing
<1>4. CASE current # Nothing
  <2>1. UNCHANGED <<current, started, status, reading>>
    BY <1>4 DEF StartAndSelect
  <2>2. WorkerTypeOK'
    BY <1>1, <1>3, <2>1 DEF WorkerIInv, WorkerTypeOK
  <2>3. CurrentCarriesCall'
    BY <1>1, <2>1 DEF WorkerIInv, CurrentCarriesCall, Quiet, Ended
  <2>4. Fresh' /\ Alive' /\ Stages'
    BY <1>1, <1>3, <1>4, <2>1 DEF WorkerIInv, Fresh, Alive, Stages
  <2> QED
    BY <1>2, <2>2, <2>3, <2>4 DEF WorkerIInv
<1>5. CASE current = Nothing
  <2>1. /\ started < MaxStarts /\ started' = started + 1 /\ current' = started + 1
        /\ status' = [status EXCEPT ![started + 1] = "running"]
        /\ reading' = [reading EXCEPT ![started + 1] = TRUE]
    BY <1>5 DEF StartAndSelect
  <2>2. /\ started + 1 \in Generations /\ started + 1 # Nothing
        /\ status \in [Generations -> {"absent", "running", "killed", "exited", "reaped"}]
        /\ reading \in [Generations -> BOOLEAN]
    BY <2>1, InRange DEF WorkerIInv, WorkerTypeOK, Generations, Nothing
  <2>3. WorkerTypeOK'
    <3>1. status' \in [Generations -> {"absent", "running", "killed", "exited", "reaped"}]
      BY <2>1, <2>2
    <3>2. reading' \in [Generations -> BOOLEAN]
      BY <2>1, <2>2
    <3>3. /\ started' \in 0..MaxStarts /\ current' \in 0..started' /\ closing' \in 0..started'
      BY <1>1, <2>1, InRange DEF WorkerIInv, WorkerTypeOK
    <3> QED
      BY <1>1, <1>3, <3>1, <3>2, <3>3 DEF WorkerIInv, WorkerTypeOK
  <2>4. CurrentCarriesCall'
    <3>1. /\ inbox[started + 1] = <<>> /\ busy[started + 1] = Nothing
          /\ outbox[started + 1] = <<>> /\ responses[started + 1] = <<>>
      BY <2>2, InRange DEF WorkerIInv, Fresh
    <3>2. reading'[started + 1]
      BY <2>1, <2>2
    <3> QED
      BY <1>1, <2>1, <3>1, <3>2 DEF CurrentCarriesCall, Quiet, Ended
  <2>5. Fresh'
    <3> SUFFICES ASSUME NEW g \in Generations
                 PROVE  /\ g > started' =>
                             /\ status'[g] = "absent" /\ ~reading'[g]
                             /\ inbox[g] = <<>> /\ busy[g] = Nothing
                             /\ outbox[g] = <<>> /\ responses[g] = <<>>
                        /\ g <= started' =>
                             status'[g] # "absent" /\ (~reading'[g] => status'[g] # "running")
      BY <1>1 DEF Fresh
    <3>1. CASE g = started + 1
      BY <2>1, <2>2, <3>1, InRange
    <3>2. CASE g # started + 1
      <4>1. status'[g] = status[g] /\ reading'[g] = reading[g]
        BY <2>1, <2>2, <3>2
      <4>2. (g > started' => g > started) /\ (g <= started' => g <= started)
        BY <2>1, <3>2, InRange
      <4> QED
        BY <4>1, <4>2 DEF WorkerIInv, Fresh
    <3> QED
      BY <3>1, <3>2
  <2>6. Alive'
    <3> SUFFICES ASSUME NEW g \in Generations
                 PROVE  /\ status'[g] = "running" => g = started + 1
                        /\ status'[g] = "killed" => g \in abandoned
      BY <1>1, <2>1 DEF Alive
    <3>1. ~(status[g] = "running") /\ (status[g] = "killed" => g \in abandoned)
      BY <1>1, <1>5, InRange DEF WorkerIInv, Alive, Nothing
    <3> QED
      BY <2>1, <2>2, <3>1
  <2>7. Stages'
    BY <1>1, <1>3, <2>1, <2>2 DEF Stages
  <2> QED
    BY <1>2, <2>3, <2>4, <2>5, <2>6, <2>7 DEF WorkerIInv
<1> QED
  BY <1>4, <1>5

\* A call that begins to close its worker leaves nothing current.
LEMMA ClosingIInv ==
  ASSUME WorkerIInv, NEW error, error # "answer", current # Nothing, Closing(error),
         UNCHANGED <<call, started, abandoned, inbox, busy, outbox, reading>>,
         responses' \in [Generations -> Seq(0..MaxCalls)],
         \A g \in Generations : g # current => responses'[g] = responses[g],
         status' \in [Generations -> {"absent", "running", "killed", "exited", "reaped"}],
         \A g \in Generations : status'[g] = status[g] \/ (status[g] = "exited" /\ status'[g] = "reaped")
  PROVE  WorkerIInv'
<1>1. /\ closing' = current /\ current' = Nothing /\ stage' = "wait"
      /\ result' = [kind |-> error, call |-> call, answer |-> Nothing]
  BY DEF Closing, Raised
<1>2. WorkerTypeOK'
  BY <1>1, InRange DEF WorkerIInv, WorkerTypeOK, Nothing
<1>3. Stages' /\ CurrentCarriesCall' /\ AnswersOwnRequest'
  BY <1>1 DEF Stages, CurrentCarriesCall, AnswersOwnRequest
<1>4. Fresh'
  BY InRange DEF WorkerIInv, Fresh
<1>5. Alive'
  <2> SUFFICES ASSUME NEW g \in Generations
               PROVE  /\ status'[g] = "running" => g = current
                      /\ status'[g] = "killed" => g \in abandoned
    BY <1>1 DEF Alive
  <2> QED
    BY DEF WorkerIInv, Alive, Stages
<1> QED
  BY <1>2, <1>3, <1>4, <1>5 DEF WorkerIInv

\* The close leaves the queues and the processes as they are.
LEMMA PlainClosingIInv ==
  ASSUME WorkerIInv, NEW error, error # "answer", current # Nothing, Closing(error),
         UNCHANGED <<call, started, abandoned, status, inbox, busy, outbox, reading, responses>>
  PROVE  WorkerIInv'
<1>1. /\ responses' \in [Generations -> Seq(0..MaxCalls)]
      /\ status' \in [Generations -> {"absent", "running", "killed", "exited", "reaped"}]
  BY DEF WorkerIInv, WorkerTypeOK
<1> QED
  BY <1>1, ClosingIInv

LEMMA PollIInv ==
  ASSUME WorkerIInv, Poll
  PROVE  WorkerIInv'
<1>1. /\ stage = "poll" /\ current # Nothing
      /\ UNCHANGED <<call, started, abandoned, inbox, busy, outbox, reading, responses>>
  BY DEF Poll, WorkerIInv, Stages
<1>2. current \in Generations
  BY <1>1, InRange
<1>3. CASE status[current] = "exited"
  <2>1. status' = [status EXCEPT ![current] = "reaped"] /\ Closing("exited")
    BY <1>3 DEF Poll
  <2>2. /\ status' \in [Generations -> {"absent", "running", "killed", "exited", "reaped"}]
        /\ \A g \in Generations :
             status'[g] = status[g] \/ (status[g] = "exited" /\ status'[g] = "reaped")
    BY <1>3, <2>1 DEF WorkerIInv, WorkerTypeOK
  <2>3. responses \in [Generations -> Seq(0..MaxCalls)]
    BY DEF WorkerIInv, WorkerTypeOK
  <2> QED
    BY <1>1, <2>1, <2>2, <2>3, ClosingIInv
<1>4. CASE status[current] # "exited"
  <2>1. stage' = "write" /\ UNCHANGED <<status, closing, current, result>>
    BY <1>4 DEF Poll
  <2>2. WorkerTypeOK'
    BY <1>1, <2>1 DEF WorkerIInv, WorkerTypeOK
  <2>3. CurrentCarriesCall'
    BY <1>1, <2>1 DEF WorkerIInv, CurrentCarriesCall, Quiet, Ended
  <2> QED
    BY <1>1, <2>1, <2>2, <2>3 DEF WorkerIInv, Stages, Fresh, Alive, AnswersOwnRequest
<1> QED
  BY <1>3, <1>4

LEMMA WriteIInv ==
  ASSUME WorkerIInv, Write
  PROVE  WorkerIInv'
<1>1. /\ stage = "write" /\ status[current] = "running" /\ current # Nothing
      /\ inbox' = [inbox EXCEPT ![current] = Append(inbox[current], call)]
      /\ stage' \in {"flush", "get"}
      /\ UNCHANGED <<call, current, started, closing, result, abandoned, status, busy, outbox,
                     reading, responses>>
  BY DEF Write, WorkerIInv, Stages
<1>2. current \in Generations /\ current <= started /\ call \in Requests
  BY <1>1, InRange
<1>3. /\ inbox[current] = <<>> /\ busy[current] = Nothing /\ outbox[current] = <<>>
      /\ responses[current] = Ended(current)
  BY <1>1 DEF WorkerIInv, CurrentCarriesCall, Quiet
<1>4. inbox' \in [Generations -> Seq(Requests)] /\ inbox'[current] = <<call>>
  <2>1. Append(inbox[current], call) \in Seq(Requests)
    BY <1>2, AppendProperties DEF WorkerIInv, WorkerTypeOK
  <2>2. Append(inbox[current], call) = <<call>>
    BY <1>3, ShortSequences
  <2> QED
    BY <1>1, <1>2, <2>1, <2>2 DEF WorkerIInv, WorkerTypeOK
<1>5. WorkerTypeOK'
  BY <1>1, <1>4 DEF WorkerIInv, WorkerTypeOK
<1>6. CurrentCarriesCall'
  BY <1>1, <1>3, <1>4 DEF CurrentCarriesCall, Carries, Ended
<1>7. Fresh'
  <2> SUFFICES ASSUME NEW g \in Generations, g > started
               PROVE  inbox'[g] = <<>>
    BY <1>1 DEF WorkerIInv, Fresh
  <2>1. g # current
    BY <1>2, InRange
  <2> QED
    BY <1>1, <2>1 DEF WorkerIInv, Fresh, WorkerTypeOK
<1> QED
  BY <1>1, <1>5, <1>6, <1>7, InRange DEF WorkerIInv, Stages, Alive, AnswersOwnRequest

LEMMA FlushedIInv ==
  ASSUME WorkerIInv, Flushed
  PROVE  WorkerIInv'
<1>1. /\ stage = "flush" /\ stage' = "get"
      /\ UNCHANGED <<call, current, started, closing, result, abandoned, worker>>
  BY DEF Flushed
<1>2. WorkerTypeOK'
  BY <1>1 DEF WorkerIInv, WorkerTypeOK, worker
<1>3. CurrentCarriesCall'
  BY <1>1 DEF WorkerIInv, CurrentCarriesCall, Carries, Ended, worker
<1> QED
  BY <1>1, <1>2, <1>3 DEF WorkerIInv, Stages, Fresh, Alive, AnswersOwnRequest, worker

LEMMA WriteBrokenIInv ==
  ASSUME WorkerIInv, WriteBroken
  PROVE  WorkerIInv'
<1>1. /\ stage \in {"write", "flush"} /\ status[current] # "running" /\ current # Nothing
      /\ UNCHANGED <<call, started, abandoned, status, inbox, busy, outbox, reading, responses>>
  BY DEF WriteBroken, WorkerIInv, Stages
<1>2. CASE Closing("broken_pipe")
  BY <1>1, <1>2, PlainClosingIInv
<1>3. CASE /\ current' = Nothing /\ result' = Raised("close_raised")
           /\ stage' = "idle" /\ UNCHANGED closing
  <2>1. WorkerTypeOK'
    BY <1>1, <1>3, InRange DEF WorkerIInv, WorkerTypeOK, Raised, Nothing
  <2>2. Alive'
    BY <1>1, <1>3 DEF WorkerIInv, Alive
  <2> QED
    BY <1>1, <1>3, <2>1, <2>2
       DEF WorkerIInv, Stages, CurrentCarriesCall, Fresh, AnswersOwnRequest, Raised
<1> QED
  BY <1>2, <1>3 DEF WriteBroken

LEMMA GetIInv ==
  ASSUME WorkerIInv, Get
  PROVE  WorkerIInv'
<1>1. /\ stage = "get" /\ responses[current] # <<>> /\ current # Nothing
      /\ responses' = [responses EXCEPT ![current] = Tail(responses[current])]
      /\ UNCHANGED <<call, started, abandoned, status, inbox, busy, outbox, reading>>
  BY DEF Get, WorkerIInv, Stages
<1>2. current \in Generations /\ call \in Requests /\ call # EOF
  BY <1>1, InRange DEF Requests, EOF
<1>3. responses' \in [Generations -> Seq(0..MaxCalls)]
  <2>1. Tail(responses[current]) \in Seq(0..MaxCalls)
    BY <1>1, <1>2, HeadTailProperties DEF WorkerIInv, WorkerTypeOK
  <2> QED
    BY <1>1, <2>1 DEF WorkerIInv, WorkerTypeOK
<1>4. CASE Head(responses[current]) = EOF
  <2>1. Closing("eof")
    BY <1>4 DEF Get
  <2> QED
    <3>1. /\ \A g \in Generations : g # current => responses'[g] = responses[g]
          /\ status' \in [Generations -> {"absent", "running", "killed", "exited", "reaped"}]
      BY <1>1 DEF WorkerIInv, WorkerTypeOK
    <3> QED
      BY <1>1, <1>3, <2>1, <3>1, ClosingIInv
<1>5. CASE Head(responses[current]) # EOF
  <2>1. /\ result' = Answer(Head(responses[current])) /\ stage' = "idle"
        /\ UNCHANGED <<closing, current>>
    BY <1>5 DEF Get
  <2>2. Carries(current, call)
    BY <1>1 DEF WorkerIInv, CurrentCarriesCall
  <2>3. responses[current] # Ended(current)
    BY <1>1, <1>5, ShortSequences DEF Ended
  <2>4. /\ inbox[current] = <<>> /\ busy[current] = Nothing /\ outbox[current] = <<>>
        /\ responses[current] = (IF reading[current] THEN <<call>> ELSE <<call, EOF>>)
    BY <1>1, <2>2, <2>3 DEF Carries
  <2>5. Head(responses[current]) = call /\ responses'[current] = Ended(current)
    <3>1. responses'[current] = Tail(responses[current])
      BY <1>1, <1>2 DEF WorkerIInv, WorkerTypeOK
    <3> QED
      BY <2>4, <3>1, ShortSequences DEF Ended
  <2>6. WorkerTypeOK'
    BY <1>1, <1>2, <1>3, <2>1, <2>5, InRange DEF WorkerIInv, WorkerTypeOK, Answer
  <2>7. CurrentCarriesCall'
    BY <1>1, <2>1, <2>4, <2>5 DEF CurrentCarriesCall, Quiet, Ended
  <2>8. Fresh'
    <3> SUFFICES ASSUME NEW g \in Generations, g > started
                 PROVE  responses'[g] = <<>>
      BY <1>1 DEF WorkerIInv, Fresh
    <3>1. g # current
      BY <1>1, InRange
    <3> QED
      BY <1>1, <3>1 DEF WorkerIInv, Fresh, WorkerTypeOK
  <2>9. AnswersOwnRequest'
    BY <2>1, <2>5 DEF AnswersOwnRequest, Answer
  <2> QED
    BY <1>1, <2>1, <2>6, <2>7, <2>8, <2>9 DEF WorkerIInv, Stages, Alive
<1> QED
  BY <1>4, <1>5

\* The calls that close for another reason: a timeout, or the owner.
LEMMA CloseIInv ==
  ASSUME WorkerIInv, GetTimesOut \/ Close
  PROVE  WorkerIInv'
<1>1. /\ current # Nothing
      /\ UNCHANGED <<call, started, abandoned, status, inbox, busy, outbox, reading, responses>>
      /\ Closing("timeout") \/ Closing("closed")
  BY DEF GetTimesOut, Close, WorkerIInv, Stages
<1> QED
  BY <1>1, PlainClosingIInv

LEMMA WaitedIInv ==
  ASSUME WorkerIInv, Waited
  PROVE  WorkerIInv'
<1>1. /\ stage \in {"wait", "terminated", "killed"} /\ current = Nothing
      /\ closing \in Generations /\ closing <= started
      /\ status[closing] \in {"exited", "reaped"}
      /\ status' = [status EXCEPT ![closing] = "reaped"]
      /\ closing' = Nothing /\ stage' = "idle"
      /\ UNCHANGED <<call, current, started, result, abandoned, inbox, busy, outbox, reading, responses>>
  BY InRange DEF Waited, WorkerIInv, Stages
<1>2. /\ status' \in [Generations -> {"absent", "running", "killed", "exited", "reaped"}]
      /\ \A g \in Generations :
           status'[g] = status[g] \/ (g = closing /\ status'[g] = "reaped")
  BY <1>1 DEF WorkerIInv, WorkerTypeOK
<1>3. WorkerTypeOK'
  BY <1>1, <1>2, InRange DEF WorkerIInv, WorkerTypeOK, Nothing
<1>4. Stages' /\ CurrentCarriesCall' /\ AnswersOwnRequest'
  BY <1>1 DEF WorkerIInv, Stages, CurrentCarriesCall, AnswersOwnRequest
<1>5. Fresh'
  BY <1>1, <1>2, InRange DEF WorkerIInv, Fresh
<1>6. Alive'
  BY <1>1, <1>2 DEF WorkerIInv, Alive
<1> QED
  BY <1>3, <1>4, <1>5, <1>6 DEF WorkerIInv

LEMMA WaitExpiresIInv ==
  ASSUME WorkerIInv, WaitExpires
  PROVE  WorkerIInv'
<1>1. /\ stage = "wait" /\ stage' = "terminated"
      /\ UNCHANGED <<call, current, started, closing, result, abandoned, worker>>
  BY DEF WaitExpires
<1>2. current = Nothing
  BY <1>1 DEF WorkerIInv, Stages
<1>3. WorkerTypeOK'
  BY <1>1 DEF WorkerIInv, WorkerTypeOK, worker
<1> QED
  BY <1>1, <1>2, <1>3
     DEF WorkerIInv, Stages, CurrentCarriesCall, Fresh, Alive, AnswersOwnRequest, worker

LEMMA TerminateExpiresIInv ==
  ASSUME WorkerIInv, TerminateExpires
  PROVE  WorkerIInv'
<1>1. /\ stage = "terminated" /\ stage' = "killed" /\ current = Nothing
      /\ closing \in Generations /\ closing <= started
      /\ status' = [status EXCEPT ![closing] = "killed"]
      /\ UNCHANGED <<call, current, started, closing, result, abandoned, inbox, busy, outbox,
                     reading, responses>>
  BY InRange DEF TerminateExpires, WorkerIInv, Stages
<1>2. /\ status' \in [Generations -> {"absent", "running", "killed", "exited", "reaped"}]
      /\ status'[closing] = "killed"
      /\ \A g \in Generations : g # closing => status'[g] = status[g]
  BY <1>1 DEF WorkerIInv, WorkerTypeOK
<1>3. WorkerTypeOK'
  BY <1>1, <1>2 DEF WorkerIInv, WorkerTypeOK
<1>4. Stages' /\ CurrentCarriesCall' /\ AnswersOwnRequest'
  BY <1>1 DEF WorkerIInv, Stages, CurrentCarriesCall, AnswersOwnRequest
<1>5. Fresh'
  BY <1>1, <1>2, InRange DEF WorkerIInv, Fresh
<1>6. Alive'
  BY <1>1, <1>2 DEF WorkerIInv, Alive
<1> QED
  BY <1>3, <1>4, <1>5, <1>6 DEF WorkerIInv

LEMMA KillExpiresIInv ==
  ASSUME WorkerIInv, KillExpires
  PROVE  WorkerIInv'
<1>1. /\ stage = "killed" /\ stage' = "idle" /\ current = Nothing
      /\ closing \in Generations /\ closing' = Nothing
      /\ result' = [kind |-> "timeout_expired", call |-> call, answer |-> Nothing]
      /\ abandoned' = abandoned \union {closing}
      /\ UNCHANGED <<call, current, started, status, inbox, busy, outbox, reading, responses>>
  BY InRange DEF KillExpires, Raised, WorkerIInv, Stages, worker
<1>2. WorkerTypeOK'
  BY <1>1, InRange DEF WorkerIInv, WorkerTypeOK, Nothing
<1>3. Stages' /\ CurrentCarriesCall' /\ AnswersOwnRequest' /\ Fresh'
  BY <1>1 DEF WorkerIInv, Stages, CurrentCarriesCall, AnswersOwnRequest, Fresh
<1>4. Alive'
  BY <1>1 DEF WorkerIInv, Alive
<1> QED
  BY <1>2, <1>3, <1>4 DEF WorkerIInv

-------------------------------------------------------------------------------
(* A worker and its reader.                                                 *)

\* A step inside a started generation that keeps what it carries.
LEMMA WorkerSideIInv ==
  ASSUME WorkerIInv, NEW g \in Generations, UNCHANGED parent, g <= started, WorkerTypeOK',
         \A h \in Generations : h # g =>
           /\ status'[h] = status[h] /\ reading'[h] = reading[h]
           /\ inbox'[h] = inbox[h] /\ busy'[h] = busy[h]
           /\ outbox'[h] = outbox[h] /\ responses'[h] = responses[h],
         status'[g] # "absent", ~reading'[g] => status'[g] # "running",
         status'[g] \in {"running", "killed"} => status'[g] = status[g],
         Quiet(g) => Quiet(g)',
         \A request \in Requests : Carries(g, request) => Carries(g, request)'
  PROVE  WorkerIInv'
<1>1. UNCHANGED <<stage, call, current, started, closing, result, abandoned>>
  BY DEF parent
<1>2. Stages' /\ AnswersOwnRequest'
  BY <1>1 DEF WorkerIInv, Stages, AnswersOwnRequest
<1>3. Fresh'
  <2> SUFFICES ASSUME NEW h \in Generations
               PROVE  /\ h > started =>
                           /\ status'[h] = "absent" /\ ~reading'[h]
                           /\ inbox'[h] = <<>> /\ busy'[h] = Nothing
                           /\ outbox'[h] = <<>> /\ responses'[h] = <<>>
                      /\ h <= started =>
                           status'[h] # "absent" /\ (~reading'[h] => status'[h] # "running")
    BY <1>1 DEF Fresh
  <2>1. CASE h = g
    BY <2>1, InRange
  <2>2. CASE h # g
    BY <2>2 DEF WorkerIInv, Fresh
  <2> QED
    BY <2>1, <2>2
<1>4. Alive'
  BY <1>1 DEF WorkerIInv, Alive
<1>5. CurrentCarriesCall'
  <2>1. CASE current = g
    BY <1>1, <2>1, InRange DEF WorkerIInv, CurrentCarriesCall
  <2>2. CASE current # g /\ current # Nothing
    <3>1. /\ reading'[current] = reading[current]
          /\ inbox'[current] = inbox[current] /\ busy'[current] = busy[current]
          /\ outbox'[current] = outbox[current] /\ responses'[current] = responses[current]
      BY <2>2, InRange
    <3> QED
      BY <1>1, <2>2, <3>1 DEF WorkerIInv, CurrentCarriesCall, Quiet, Carries, Ended
  <2>3. CASE current = Nothing
    BY <1>1, <2>3 DEF CurrentCarriesCall
  <2> QED
    BY <2>1, <2>2, <2>3
<1> QED
  BY <1>2, <1>3, <1>4, <1>5 DEF WorkerIInv

\* A process that is not absent was started.
LEMMA StartedIfPresent ==
  ASSUME WorkerIInv, NEW g \in Generations, status[g] # "absent" \/ reading[g]
  PROVE  g <= started /\ status[g] # "absent"
<1>1. g \in Nat /\ started \in Nat
  BY InRange
<1> QED
  BY <1>1 DEF WorkerIInv, Fresh

LEMMA ReadRequestIInv ==
  ASSUME WorkerIInv, NEW g \in Generations, ReadRequest(g)
  PROVE  WorkerIInv'
<1>1. /\ status[g] = "running" /\ busy[g] = Nothing /\ inbox[g] # <<>>
      /\ busy' = [busy EXCEPT ![g] = Head(inbox[g])]
      /\ inbox' = [inbox EXCEPT ![g] = Tail(inbox[g])]
      /\ UNCHANGED <<parent, status, outbox, reading, responses>>
  BY DEF ReadRequest
<1>2. /\ busy'[g] = Head(inbox[g]) /\ inbox'[g] = Tail(inbox[g])
      /\ \A h \in Generations : h # g => busy'[h] = busy[h] /\ inbox'[h] = inbox[h]
  BY <1>1 DEF WorkerIInv, WorkerTypeOK
<1>3. WorkerTypeOK'
  <2>1. Head(inbox[g]) \in Requests /\ Tail(inbox[g]) \in Seq(Requests)
    BY <1>1, HeadTailProperties DEF WorkerIInv, WorkerTypeOK
  <2>2. Head(inbox[g]) \in 0..MaxCalls
    BY <2>1, InRange DEF Requests
  <2> QED
    BY <1>1, <2>1, <2>2 DEF WorkerIInv, WorkerTypeOK, parent
<1>4. ~Quiet(g)
  BY <1>1 DEF Quiet
<1>5. \A request \in Requests : Carries(g, request) => Carries(g, request)'
  <2> SUFFICES ASSUME NEW request \in Requests, Carries(g, request)
               PROVE  Carries(g, request)'
    OBVIOUS
  <2>1. /\ inbox[g] = <<request>> /\ outbox[g] = <<>> /\ responses[g] = Ended(g)
    BY <1>1 DEF Carries
  <2>2. inbox'[g] = <<>> /\ busy'[g] = request
    BY <1>2, <2>1, ShortSequences
  <2> QED
    BY <1>1, <2>1, <2>2 DEF Carries, Ended
<1>6. g <= started
  BY <1>1, StartedIfPresent
<1>7. ~reading[g] => status[g] # "running"
  BY <1>6 DEF WorkerIInv, Fresh
<1> QED
  BY <1>1, <1>2, <1>3, <1>4, <1>5, <1>6, <1>7, WorkerSideIInv

LEMMA RespondIInv ==
  ASSUME WorkerIInv, NEW g \in Generations, Respond(g)
  PROVE  WorkerIInv'
<1>1. /\ status[g] = "running" /\ busy[g] # Nothing
      /\ outbox' = [outbox EXCEPT ![g] = Append(outbox[g], busy[g])]
      /\ busy' = [busy EXCEPT ![g] = Nothing]
      /\ UNCHANGED <<parent, status, inbox, reading, responses>>
  BY DEF Respond
<1>2. /\ busy'[g] = Nothing /\ outbox'[g] = Append(outbox[g], busy[g])
      /\ \A h \in Generations : h # g => busy'[h] = busy[h] /\ outbox'[h] = outbox[h]
  BY <1>1 DEF WorkerIInv, WorkerTypeOK
<1>3. WorkerTypeOK'
  <2>1. busy[g] \in Requests
    BY <1>1, InRange DEF WorkerIInv, WorkerTypeOK, Requests, Nothing
  <2>2. Append(outbox[g], busy[g]) \in Seq(Requests)
    BY <2>1, AppendProperties DEF WorkerIInv, WorkerTypeOK
  <2>3. Nothing \in 0..MaxCalls
    BY InRange DEF Nothing
  <2> QED
    BY <1>1, <2>2, <2>3 DEF WorkerIInv, WorkerTypeOK, parent
<1>4. ~Quiet(g)
  BY <1>1 DEF Quiet
<1>5. g <= started
  BY <1>1, StartedIfPresent
<1>6. ~reading[g] => status[g] # "running"
  BY <1>5 DEF WorkerIInv, Fresh
<1>7. \A request \in Requests : Carries(g, request) => Carries(g, request)'
  <2> SUFFICES ASSUME NEW request \in Requests, Carries(g, request)
               PROVE  Carries(g, request)'
    OBVIOUS
  <2>1. /\ inbox[g] = <<>> /\ busy[g] = request /\ outbox[g] = <<>>
        /\ responses[g] = Ended(g)
    BY <1>1 DEF Carries
  <2>2. outbox'[g] = <<request>>
    BY <1>2, <2>1, ShortSequences
  <2> QED
    BY <1>1, <1>2, <1>6, <2>1, <2>2 DEF Carries, Ended
<1> QED
  BY <1>1, <1>2, <1>3, <1>4, <1>5, <1>6, <1>7, WorkerSideIInv

LEMMA ExitIInv ==
  ASSUME WorkerIInv, NEW g \in Generations, Exit(g)
  PROVE  WorkerIInv'
<1>1. /\ status[g] \in {"running", "killed"} /\ status' = [status EXCEPT ![g] = "exited"]
      /\ UNCHANGED <<parent, inbox, busy, outbox, reading, responses>>
  BY DEF Exit
<1>2. WorkerTypeOK'
  BY <1>1 DEF WorkerIInv, WorkerTypeOK, parent
<1>3. status'[g] = "exited" /\ \A h \in Generations : h # g => status'[h] = status[h]
  BY <1>1 DEF WorkerIInv, WorkerTypeOK
<1>4. Quiet(g) => Quiet(g)'
  BY <1>1 DEF Quiet, Ended
<1>5. \A request \in Requests : Carries(g, request) => Carries(g, request)'
  BY <1>1 DEF Carries, Ended
<1>6. g <= started
  BY <1>1, StartedIfPresent
<1> QED
  BY <1>1, <1>2, <1>3, <1>4, <1>5, <1>6, WorkerSideIInv

LEMMA ReadLineIInv ==
  ASSUME WorkerIInv, NEW g \in Generations, ReadLine(g)
  PROVE  WorkerIInv'
<1>1. /\ reading[g] /\ outbox[g] # <<>>
      /\ responses' = [responses EXCEPT ![g] = Append(responses[g], Head(outbox[g]))]
      /\ outbox' = [outbox EXCEPT ![g] = Tail(outbox[g])]
      /\ UNCHANGED <<parent, status, inbox, busy, reading>>
  BY DEF ReadLine
<1>2. /\ responses'[g] = Append(responses[g], Head(outbox[g])) /\ outbox'[g] = Tail(outbox[g])
      /\ \A h \in Generations : h # g => responses'[h] = responses[h] /\ outbox'[h] = outbox[h]
  BY <1>1 DEF WorkerIInv, WorkerTypeOK
<1>3. WorkerTypeOK'
  <2>1. Head(outbox[g]) \in Requests /\ Tail(outbox[g]) \in Seq(Requests)
    BY <1>1, HeadTailProperties DEF WorkerIInv, WorkerTypeOK
  <2>2. Append(responses[g], Head(outbox[g])) \in Seq(0..MaxCalls)
    <3>1. Head(outbox[g]) \in 0..MaxCalls
      BY <2>1, InRange DEF Requests
    <3> QED
      BY <3>1, AppendProperties DEF WorkerIInv, WorkerTypeOK
  <2> QED
    BY <1>1, <2>1, <2>2 DEF WorkerIInv, WorkerTypeOK, parent
<1>4. ~Quiet(g)
  BY <1>1 DEF Quiet
<1>5. \A request \in Requests : Carries(g, request) => Carries(g, request)'
  <2> SUFFICES ASSUME NEW request \in Requests, Carries(g, request)
               PROVE  Carries(g, request)'
    OBVIOUS
  <2>1. /\ inbox[g] = <<>> /\ busy[g] = Nothing /\ outbox[g] = <<request>>
        /\ responses[g] = <<>>
    BY <1>1 DEF Carries
  <2>2. outbox'[g] = <<>> /\ responses'[g] = <<request>>
    BY <1>2, <2>1, ShortSequences
  <2> QED
    BY <1>1, <2>1, <2>2 DEF Carries
<1>6. g <= started /\ status[g] # "absent"
  BY <1>1, StartedIfPresent
<1> QED
  BY <1>1, <1>2, <1>3, <1>4, <1>5, <1>6, WorkerSideIInv

LEMMA ReadEOFIInv ==
  ASSUME WorkerIInv, NEW g \in Generations, ReadEOF(g)
  PROVE  WorkerIInv'
<1>1. /\ reading[g] /\ outbox[g] = <<>> /\ status[g] \in {"exited", "reaped"}
      /\ responses' = [responses EXCEPT ![g] = Append(responses[g], EOF)]
      /\ reading' = [reading EXCEPT ![g] = FALSE]
      /\ UNCHANGED <<parent, status, inbox, busy, outbox>>
  BY DEF ReadEOF
<1>2. /\ responses'[g] = Append(responses[g], EOF) /\ reading'[g] = FALSE
      /\ \A h \in Generations : h # g => responses'[h] = responses[h] /\ reading'[h] = reading[h]
  BY <1>1 DEF WorkerIInv, WorkerTypeOK
<1>3. WorkerTypeOK'
  <2>1. Append(responses[g], EOF) \in Seq(0..MaxCalls)
    <3>1. EOF \in 0..MaxCalls
      BY InRange DEF EOF
    <3> QED
      BY <3>1, AppendProperties DEF WorkerIInv, WorkerTypeOK
  <2> QED
    BY <1>1, <2>1 DEF WorkerIInv, WorkerTypeOK, parent
<1>4. responses[g] = <<>> => responses'[g] = <<EOF>>
  BY <1>2, ShortSequences
<1>5. Quiet(g) => Quiet(g)'
  BY <1>1, <1>2, <1>4 DEF Quiet, Ended
<1>6. \A request \in Requests : Carries(g, request) => Carries(g, request)'
  <2> SUFFICES ASSUME NEW request \in Requests, Carries(g, request)
               PROVE  Carries(g, request)'
    OBVIOUS
  <2>1. responses[g] = <<request>> => responses'[g] = <<request, EOF>>
    BY <1>2, ShortSequences
  <2> QED
    BY <1>1, <1>2, <1>4, <2>1, ShortSequences DEF Carries, Ended
<1>7. g <= started
  BY <1>1, StartedIfPresent
<1> QED
  BY <1>1, <1>2, <1>3, <1>5, <1>6, <1>7, WorkerSideIInv

-------------------------------------------------------------------------------
LEMMA NextWorkerIInv ==
  ASSUME WorkerIInv, [WorkerNext]_workerVars
  PROVE  WorkerIInv'
<1>1. CASE ParentStep
  BY <1>1, StartAndSelectIInv, PollIInv, WriteIInv, FlushedIInv, WriteBrokenIInv, GetIInv,
     CloseIInv, WaitedIInv, WaitExpiresIInv, TerminateExpiresIInv, KillExpiresIInv DEF ParentStep
<1>2. ASSUME NEW g \in Generations, WorkerStep(g)
      PROVE  WorkerIInv'
  BY <1>2, ReadRequestIInv, RespondIInv, ExitIInv, ReadLineIInv, ReadEOFIInv DEF WorkerStep
<1>3. CASE UNCHANGED workerVars
  <2>1. WorkerTypeOK'
    BY <1>3 DEF workerVars, parent, worker, WorkerIInv, WorkerTypeOK
  <2> QED
    BY <1>3, <2>1 DEF workerVars, parent, worker, WorkerIInv, Stages, CurrentCarriesCall, Quiet, Carries,
       Ended, Fresh, Alive, AnswersOwnRequest
<1> QED
  BY <1>1, <1>2, <1>3 DEF WorkerNext

\* The invariant holds of every run of the parent and its workers.
THEOREM WorkerInvariant == WorkerSpec => []WorkerIInv
<1>1. WorkerInit => WorkerIInv
  BY InitWorkerIInv
<1>2. WorkerIInv /\ [WorkerNext]_workerVars => WorkerIInv'
  BY NextWorkerIInv
<1> QED
  BY <1>1, <1>2, PTL DEF WorkerSpec

\* A selection that returns returns the answer to its own request: no late line
\* of an earlier call, of whichever worker, is taken for it.
THEOREM AnswersMatchRequests == WorkerSpec => []AnswersOwnRequest
<1>1. WorkerIInv => AnswersOwnRequest
  BY DEF WorkerIInv
<1> QED
  BY <1>1, WorkerInvariant, PTL

\* Between two calls at most the current worker runs: every worker that timed
\* out, broke its pipe or was closed has exited, or is under a SIGKILL whose
\* wait expired, and the close() that sent it raised TimeoutExpired.
THEOREM NoWorkerOutlivesItsCall == WorkerSpec => []WorkersAreReaped
<1>1. WorkerIInv => WorkersAreReaped
  BY DEF WorkerIInv, WorkersAreReaped, Alive, NoOrphans
<1> QED
  BY <1>1, WorkerInvariant, PTL

===============================================================================

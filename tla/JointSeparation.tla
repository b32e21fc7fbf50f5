---------------------------- MODULE JointSeparation ----------------------------
(***************************************************************************)
(* The exact separation audit of exact_joint_separation.py.  One of three  *)
(* worlds is true.  Three rounds pick from a probe, which reveals the      *)
(* world, a safe candidate, and two candidates for each world, which are   *)
(* confirmed in that world only.  What the probe showed counts in a later  *)
(* round only if it was retained in the bounded state.                     *)
(*                                                                         *)
(* Actions are numbered in the order of their names: group-0-a, group-0-b, *)
(* group-1-a, ..., group-2-b, probe, safe.  Expected values are in ninths. *)
(***************************************************************************)
EXTENDS Integers, Sequences, SequencesExt, FiniteSets, FiniteSetsExt

CONSTANTS
  Capacities,   \* the values of memory_capacity
  Costs         \* the values of state_access_cost

\* Of the constants; the module that instantiates this one assumes it.
SeparationAssumption == Capacities \subseteq Nat /\ Costs \subseteq Nat

Worlds == 1..3
Rounds == 3
None == 0                    \* nothing is retained
Memories == {None} \union Worlds
Actions == 1..8
Probe == 7
Safe == 8

Instances ==
  [capacity : Capacities, cost : Costs, informative : BOOLEAN, supported : BOOLEAN]

VARIABLES
  instance, policy,
  world,        \* the world whose path is being followed; 4 when all are done
  remaining, memory,
  actions, retained,    \* the path so far
  paths                 \* the paths of the worlds before

vars == <<instance, policy, world, remaining, memory, actions, retained, paths>>

Total(F(_), S) == MapThenSumSet(F, S)

Legal(i) == IF i.supported THEN Actions ELSE Actions \ {Probe}

EffectiveCapacity(i) == IF i.cost = 0 THEN Rounds ELSE i.capacity

\* _terminal_confirmation: candidates 2w - 1 and 2w belong to world w.
Confirmed(a, w) == a = Safe \/ a \in {2 * w - 1, 2 * w}

Confirmations(as, w) == Cardinality({k \in DOMAIN as : Confirmed(as[k], w)})

\* _belief_from_memory
Belief(i, m) == IF m # None /\ i.informative THEN {m} ELSE Worlds

\* _mean_terminal
Mean(a, worlds) == (9 * Cardinality({w \in worlds : Confirmed(a, w)})) \div Cardinality(worlds)

Reveals(i, a) == a = Probe /\ i.informative

\* _retention_choices
Retention(i, m, a, w) ==
  IF EffectiveCapacity(i) = 0 THEN {None}
  ELSE IF Reveals(i, a) THEN {m, w} ELSE {m}

\* _joint_value: the Bellman recursion over what is left and what is retained.
JointValue(i, rest, left, mem) ==
  LET value[x \in (SUBSET Actions) \X (0..Rounds) \X Memories] ==
        IF x[2] = 0 THEN 0
        ELSE LET belief == Belief(i, x[3])
                 onwards(a, w) ==
                   Max({value[<<x[1] \ {a}, x[2] - 1, m>>] : m \in Retention(i, x[3], a, w)})
                 ofAction(a) ==
                   IF Reveals(i, a)
                   THEN Total(LAMBDA w : onwards(a, w), belief) \div Cardinality(belief)
                   ELSE Mean(a, belief) + onwards(a, CHOOSE w \in Worlds : TRUE)
             IN  Max({ofAction(a) : a \in x[1]})
  IN  value[<<rest, left, mem>>]

\* Least first by action, then by what is retained.
First(choices) ==
  CHOOSE c \in choices : \A d \in choices : c[1] < d[1] \/ (c[1] = d[1] /\ c[2] <= d[2])

\* Faulty variant: a probe is worth what the branch of the true world is
\* worth, so the best choice is made with knowledge of that world.
JointChoiceForeseeing(i, rest, left, mem, w) ==
  LET value(a, m) ==
        (IF Reveals(i, a) THEN 0 ELSE 9 * Cardinality({v \in {w} : Confirmed(a, v)}))
          + JointValue(i, rest \ {a}, left - 1, m)
      choices == UNION {{<<a, m>> : m \in Retention(i, mem, a, w)} : a \in rest}
      best == Max({value(c[1], c[2]) : c \in choices})
  IN  First({c \in choices : value(c[1], c[2]) = best})

\* _joint_action_and_retention: a choice whose value is the Bellman value; of
\* a revealing probe the value on the branch of the true world is compared.
JointChoice(i, rest, left, mem, w) ==
  LET onwards(a, m) == JointValue(i, rest \ {a}, left - 1, m)
      value(a, m) ==
        (IF Reveals(i, a) THEN 0 ELSE Mean(a, Belief(i, mem))) + onwards(a, m)
      choices == UNION {{<<a, m>> : m \in Retention(i, mem, a, w)} : a \in rest}
      eligible == {c \in choices : value(c[1], c[2]) = JointValue(i, rest, left, mem)}
      probes == {c \in choices : Reveals(i, c[1])}
  IN  IF eligible # {} THEN First(eligible)
      ELSE First({c \in probes : \A d \in probes : onwards(Probe, c[2]) >= onwards(Probe, d[2])})

Sequences(i) == {s \in [1..Rounds -> Legal(i)] : IsInjective(s)}

SequenceValue(s) == 3 * Total(LAMBDA w : Confirmations(s, w), Worlds)

LexLeq(s, t) ==
  s = t \/ \E k \in 1..Rounds : s[k] < t[k] /\ \A j \in 1..(k - 1) : s[j] = t[j]

\* evaluate_nonadaptive_policy: the best of all sequences, the first of equals.
Nonadaptive(i) ==
  LET best == Max({SequenceValue(s) : s \in Sequences(i)})
      ties == {s \in Sequences(i) : SequenceValue(s) = best}
  IN  CHOOSE s \in ties : \A t \in ties : LexLeq(s, t)

\* evaluate_myopic_policy: the best mean, the first of equals.
MyopicAction(i, rest, mem) ==
  CHOOSE a \in rest : \A b \in rest :
    LET ma == Mean(a, Belief(i, mem))  mb == Mean(b, Belief(i, mem))
    IN  ma > mb \/ (ma = mb /\ a <= b)

Choice ==
  CASE policy = "joint" ->
         JointChoice(instance, remaining, Rounds - Len(actions), memory, world)
    [] policy = "myopic"      -> <<MyopicAction(instance, remaining, memory), None>>
    [] policy = "nonadaptive" -> <<Nonadaptive(instance)[Len(actions) + 1], None>>

Init ==
  /\ instance \in Instances /\ policy \in {"joint", "myopic", "nonadaptive"}
  /\ world = 1
  /\ remaining = Legal(instance) /\ memory = None
  /\ actions = <<>> /\ retained = <<>> /\ paths = <<>>

\* A round of the path of one world.
Round ==
  /\ world \in Worlds /\ Len(actions) < Rounds
  /\ actions' = Append(actions, Choice[1])
  /\ memory' = Choice[2]
  /\ retained' = Append(retained, Choice[2])
  /\ remaining' = remaining \ {Choice[1]}
  /\ UNCHANGED <<instance, policy, world, paths>>

\* _path_from_actions, and the next world from the start.
Finish ==
  /\ Len(actions) = Rounds
  /\ paths' = Append(paths, [actions |-> actions, retained |-> retained])
  /\ world' = world + 1
  /\ remaining' = Legal(instance) /\ memory' = None
  /\ actions' = <<>> /\ retained' = <<>>
  /\ UNCHANGED <<instance, policy>>

Next == Round \/ Finish

Spec == Init /\ [][Next]_vars

-------------------------------------------------------------------------------
(* Properties.                                                              *)

\* The policy is told the true world to draw the probe's answer, and may use
\* it in no other way: the paths of two worlds part only where they hold
\* different memories.
Nonanticipative ==
  \A j, k \in DOMAIN paths : \A n \in 1..Rounds :
    (\A m \in 1..(n - 1) : paths[j].retained[m] = paths[k].retained[m]) =>
      paths[j].actions[n] = paths[k].actions[n]

Earned == Total(LAMBDA w : Confirmations(paths[w].actions, w), Worlds)

Null(i) == EffectiveCapacity(i) = 0 \/ ~i.informative \/ ~i.supported

\* The joint policy earns strictly more than every state-blind sequence, and
\* exactly as much without memory, with an uninformative witness or with an
\* unsupported one; the other policies earn what the best sequence earns.
SeparationAndNulls ==
  world = 4 =>
    LET blind == Max({SequenceValue(s) : s \in Sequences(instance)})
    IN  IF policy = "joint" /\ ~Null(instance) THEN 3 * Earned > blind
        ELSE 3 * Earned = blind
===============================================================================

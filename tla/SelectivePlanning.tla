-------------------------- MODULE SelectivePlanning --------------------------
(***************************************************************************)
(* What the tools add to the delayed-label benchmarks: the replay of the   *)
(* selective gate between greedy and Hull-ENS                              *)
(* (run_selective_planning_synthetic_replay.py with selective_planning.py) *)
(* and the audit of the sampled gate against exact values                  *)
(* (audit_random_exact_gate.py).                                           *)
(*                                                                         *)
(* The headroom of Hull-ENS over greedy is estimated by two replicates of  *)
(* two outer draws each, in units of half a label; the penalty is in       *)
(* hundredths of a quarter of a label.                                     *)
(***************************************************************************)
EXTENDS DelayedLabelPlanning

CONSTANTS
  Penalty,    \* that the calibration selects from PENALTY_GRID
  Critical    \* CRITICAL_VALUE, in hundredths

\* Of the constants; the module that instantiates this one assumes it.
SelectiveAssumption ==
  /\ PlanningAssumption
  /\ Penalty \in Nat /\ Critical \in Nat

-------------------------------------------------------------------------------
(* The selective replay.                                                    *)

\* The headroom that a double-sampled estimate can show: the best score of any
\* action less the score of the greedy one.  The inner streams of the actions
\* are independent, so any value between the extremes of a score may occur.
Headrooms(i, worlds, chosen) ==
  LET greedy == GreedyAction(i, worlds, chosen)
      others == (Pool \ chosen) \ {greedy}
      shown(draws) ==
        LET inner == [a \in Pool \ chosen |-> InnerValues(i, worlds, draws, chosen, a)]
            least == Max({inner[a][1] : a \in others} \union {0})
            most == Max({inner[a][2] : a \in others} \union {0})
        IN  {Max({0, best - own}) : best \in least..most, own \in inner[greedy][1]..inner[greedy][2]}
  IN  UNION {shown(draws) : draws \in {d \in [1..2 -> worlds] : d[1] <= d[2]}}

\* selective_gate for the replicates h and k: mean less error less penalty.
GateOpens(h, k) ==
  100 * (h + k) - Critical * (IF h > k THEN h - k ELSE k - h) - Penalty > 0

EnsAction(i, worlds, chosen) == Argmax(Pool \ chosen, LAMBDA a : EnsValue(i, worlds, chosen, a))

\* The actions of a round: the planner's where the gate opens, else the greedy.
SelectiveActions(i, worlds, chosen) ==
  LET seen == Headrooms(i, worlds, chosen)
  IN  {IF GateOpens(h, k) THEN EnsAction(i, worlds, chosen) ELSE GreedyAction(i, worlds, chosen) :
         h \in seen, k \in seen}

\* _simulate, for one true world.
SelectiveInit ==
  /\ instance \in {Prepared(i) : i \in Instances} /\ policy = "selective"
  /\ truth \in Worlds /\ belief = Worlds /\ selected = <<>>

Replay ==
  /\ policy = "selective" /\ Len(selected) < instance.budget
  /\ \E action \in SelectiveActions(instance, belief, ToSet(selected)) :
       /\ selected' = Append(selected, action)
       /\ belief' = Updated(instance, belief, action, truth)
  /\ UNCHANGED <<instance, policy, truth>>

PlanningInit == SelectiveInit \/ Init
PlanningNext == Replay \/ (policy \in Policies /\ Query)
PlanningSpec == PlanningInit /\ [][PlanningNext]_vars

\* top_two_exchange_gap: what the second of the two knows more than the first.
Information(i, worlds, chosen, a) ==
  Total(LAMBDA b : BestBatch(i, b, chosen, a), Branches(i, worlds, a)) - BestBatch(i, worlds, chosen, a)

ExchangeGap(i, worlds, chosen, first, second) ==
  Information(i, worlds, chosen, second) - Information(i, worlds, chosen, first)

-------------------------------------------------------------------------------
(* The audit of the sampled gate, at the first decision.                    *)

\* _source_completion of the audit: the source order, sorted once.
AuditCompletion(i, action) ==
  LET order == SortSeq([k \in Pool |-> k],
                 LAMBDA a, b : i.source[a] < i.source[b] \/ (i.source[a] = i.source[b] /\ a < b))
      others == SelectSeq(order, LAMBDA a : a # action)
  IN  {action} \union ToSet(SubSeq(others, 1, i.budget - 1))

\* What every first action earns, world by world, and expected over them.
AuditRewards(i) ==
  LET completed == [a \in Pool |-> AuditCompletion(i, a)]
  IN  [w \in Worlds |-> [a \in Pool |-> Reward(i, w, completed[a])]]

\* _exact_action_values
AuditValues(i, rewards) == [a \in Pool |-> Total(LAMBDA w : i.weight[w] * rewards[w][a], Worlds)]

AuditSource(i) ==
  CHOOSE a \in Pool : \A b \in Pool : i.source[a] < i.source[b] \/ (i.source[a] = i.source[b] /\ a <= b)

\* _audit_instance: the action of stage one and the one that stage two screens.
AuditScreen(i, rewards, one) ==
  LET source == AuditSource(i)
      A == Pool \ {source}
      mean == [a \in Pool |-> Total(LAMBDA k : rewards[one[k]][a] - rewards[one[k]][source], 1..Blocks)]
      improving == {a \in A : LowerBoundPositive(Advantages(rewards, one, a, source), StageOneFactor2)}
      positive == {a \in A : mean[a] > 0}
      used == improving = {} /\ positive # {}
  IN  [first |-> IF improving # {} THEN Argmax(improving, LAMBDA a : mean[a]) ELSE source,
       used |-> used,
       screened |-> IF used THEN Argmax(positive, LAMBDA a : mean[a]) ELSE source]

\* _audit_instance: the action after stage two.
AuditFinal(i, screen, rewards, two) ==
  IF screen.used
       /\ LowerBoundPositive(Advantages(rewards, two, screen.screened, AuditSource(i)), StageTwoFactor2)
  THEN screen.screened ELSE screen.first

-------------------------------------------------------------------------------
(* Properties.                                                              *)

\* The largest set of labels that the rest of the budget can be expected to buy
\* without learning anything more.
BatchValue(i, worlds, chosen) ==
  Max({Terminal(i, worlds, chosen \union T) : T \in kSubset(i.budget - Cardinality(chosen), Pool \ chosen)})

\* The gate estimates its headroom from few samples, so it opens and stays shut
\* wrongly.  Whatever it decides, the best batch is worth as much after the
\* answer as before it, so that no sample makes the replay earn less in
\* expectation than the best batch of the prior; with one query left it selects
\* what greedy selects (Delta-Hull parity at horizon one), open or shut.
SelectiveKeepsBatch ==
  (policy = "selective" /\ Len(selected) < instance.budget) =>
    LET chosen == ToSet(selected)
        actions == SelectiveActions(instance, belief, chosen)
    IN  /\ \A a \in actions :
             Total(LAMBDA b : BatchValue(instance, b, chosen \union {a}), Branches(instance, belief, a))
               >= BatchValue(instance, belief, chosen)
        /\ instance.budget - Len(selected) = 1 =>
             actions = {GreedyAction(instance, belief, chosen)}

\* Top-two exchange parity: with two queries left, the order of the two most
\* likely members matters by what the second reveals more than the first.
ExchangeParity ==
  (policy = "selective" /\ instance.budget - Len(selected) = 2) =>
    LET i == instance
        chosen == ToSet(selected)
        first == GreedyAction(i, belief, chosen)
        second == GreedyAction(i, belief, chosen \union {first})
    IN  EnsValue(i, belief, chosen, second) - EnsValue(i, belief, chosen, first)
          = ExchangeGap(i, belief, chosen, first, second)

\* The sampled gate leaves the source order only for an action that earns more
\* in a world that is still possible, and decides as the exact gate does when
\* only one is.
SampledGatePays ==
  (policy = "ic_sarr" /\ Len(selected) < instance.budget) =>
    LET chosen == ToSet(selected)
        source == SourceAction(instance, chosen)
        rewards == Rewards(instance, belief, chosen)
        taken == SampledActions(instance, belief, chosen)
    IN  /\ \A a \in taken \ {source} : \E w \in belief : rewards[w][a] > rewards[w][source]
        /\ Cardinality(belief) = 1 => taken = {GatedAction(instance, belief, chosen)}

\* The audit, which has a completion and a gate of its own, reproduces the first
\* action of the sampled gate for all samples of both stages, and its exact
\* values are those of the rollout.
AuditReproducesGate ==
  (policy = "ic_sarr" /\ selected = <<>>) =>
    LET i == instance
        source == SourceAction(i, {})
        rewards == Rewards(i, Worlds, {})
        audited == AuditRewards(i)
        values == AuditValues(i, audited)
    IN  /\ \A a \in Pool : values[a] = RolloutValue(i, Worlds, {}, a)
        /\ \A one \in Draws(Worlds) :
             LET stage == StageOne(rewards, one, source, Pool)
                 screen == AuditScreen(i, audited, one)
             IN  \A two \in Draws(Worlds) :
                   AuditFinal(i, screen, audited, two) = StageTwo(stage, rewards, two, source)

===============================================================================

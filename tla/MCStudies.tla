------------------------------- MODULE MCStudies -------------------------------
(* The offline studies under one specification, each by itself: a behaviour   *)
(* belongs to one study and leaves the variables of the others alone.         *)
(*   memories   StreamingMemories, with the tables of MCStreamingMemories     *)
(*   planning   SelectivePlanning, with DelayedLabelPlanning                    *)
(*   joint      JointSeparation                                               *)
(*   paired     PairedRandomization                                           *)
EXTENDS MCStreamingMemories, PairedRandomization

VARIABLES
  study,
  instance, policy, truth, belief, selected,                    \* planning
  jinstance, jpolicy, world, remaining, memory, actions, retained, paths   \* joint

-------------------------------------------------------------------------------
(* The 27 instances of controlled_benchmark_grid, in units of 0.0005 eV,   *)
(* and some with unequal weights, ties and collinear points.               *)

PlanningWorlds == 1..4
PlanningPool == 5

Base == <<-45, -38, -34, -38, -45>>
Patterns ==
  <<<<-55, -35, 20, 50, 55>>, <<20, -60, -40, 30, 55>>,
    <<55, 30, -40, -60, 20>>, <<55, 50, 20, -35, -55>>>>
Nuisance == <<30, -20, 25, -20, 30>>

\* Coupling c/2 and source signal s/2; the source order is that of the
\* energies times eight.
Controlled(b, s, c) ==
  LET energy == [w \in PlanningWorlds |-> [x \in 1..PlanningPool |-> 2 * Base[x] + c * Patterns[w][x]]]
  IN  [budget |-> b, energy |-> energy, weight |-> [w \in PlanningWorlds |-> 1],
       source |-> [x \in 1..PlanningPool |->
         s * Total(LAMBDA w : energy[w][x], PlanningWorlds) + (2 - s) * 8 * Nuisance[x]]]

Patterned(b, k) ==
  [budget |-> b,
   energy |-> [w \in PlanningWorlds |-> [x \in 1..PlanningPool |-> 0 - ((k * w * x + x * x) % 7)]],
   weight |-> [w \in PlanningWorlds |-> w],
   source |-> [x \in 1..PlanningPool |-> 0 - ((k * x) % 4)]]

\* Straight slopes: candidates on a facet between two vertices.
Sloping(b) ==
  [budget |-> b,
   energy |-> [w \in PlanningWorlds |-> [x \in 1..PlanningPool |->
                 IF x <= w THEN 0 - 6 * x ELSE 0 - 6 * w + (x - w)]],
   weight |-> [w \in PlanningWorlds |-> 5 - w],
   source |-> [x \in 1..PlanningPool |-> (x * x) % 3]]

PlanningInstances ==
  {Controlled(b, s, c) : b \in 1..3, s \in 0..2, c \in 0..2}
  \union {Patterned(b, k) : b \in 2..3, k \in 1..3}
  \union {Sloping(b) : b \in 2..3}

\* Three blocks tell the two stages of the sampled gate apart; 2.64 and 1.96
\* squared.  A penalty of 0.05 labels.
Planning == INSTANCE SelectivePlanning WITH
  Worlds <- PlanningWorlds, PoolSize <- PlanningPool, Instances <- PlanningInstances,
  Blocks <- 3, StageOneFactor2 <- 697, StageTwoFactor2 <- 384,
  Penalty <- 20, Critical <- 196

\* No memory, less than the rounds, and all of them; free and at a cost.
Joint == INSTANCE JointSeparation WITH
  Capacities <- {0, 1, 3}, Costs <- {0, 1}, instance <- jinstance, policy <- jpolicy

\* Up to five systems with wins, ties and losses of two sizes; a level that
\* the test can reach with five pairs but not with two.
MCEffects == {-1, 0, 2}

ASSUME StudiesAssumption ==
  Planning!SelectiveAssumption /\ Joint!SeparationAssumption

-------------------------------------------------------------------------------

planningVars == <<instance, policy, truth, belief, selected>>
jointVars == <<jinstance, jpolicy, world, remaining, memory, actions, retained, paths>>
studyVars == <<study, vars, planningVars, jointVars, differences>>

None == 0

StudyInit ==
  \/ /\ study = "memories" /\ Init
     /\ instance = None /\ policy = None /\ truth = None /\ belief = None /\ selected = None
     /\ jinstance = None /\ jpolicy = None /\ world = None /\ remaining = None
     /\ memory = None /\ actions = None /\ retained = None /\ paths = None
     /\ differences = <<>>
  \/ /\ study = "planning" /\ Planning!PlanningInit
     /\ post = None /\ variance = None /\ archive = None /\ facility = None /\ joint = None
     /\ projection = None /\ steady = None /\ diverse = None /\ fifo = None
     /\ jinstance = None /\ jpolicy = None /\ world = None /\ remaining = None
     /\ memory = None /\ actions = None /\ retained = None /\ paths = None
     /\ differences = <<>>
  \/ /\ study = "joint" /\ Joint!Init
     /\ post = None /\ variance = None /\ archive = None /\ facility = None /\ joint = None
     /\ projection = None /\ steady = None /\ diverse = None /\ fifo = None
     /\ instance = None /\ policy = None /\ truth = None /\ belief = None /\ selected = None
     /\ differences = <<>>
  \/ /\ study = "paired" /\ PairedInit
     /\ post = None /\ variance = None /\ archive = None /\ facility = None /\ joint = None
     /\ projection = None /\ steady = None /\ diverse = None /\ fifo = None
     /\ instance = None /\ policy = None /\ truth = None /\ belief = None /\ selected = None
     /\ jinstance = None /\ jpolicy = None /\ world = None /\ remaining = None
     /\ memory = None /\ actions = None /\ retained = None /\ paths = None

Memories == study = "memories" /\ Next /\ UNCHANGED <<study, planningVars, jointVars, differences>>
Planned == study = "planning" /\ Planning!PlanningNext /\ UNCHANGED <<study, vars, jointVars, differences>>
Separated == study = "joint" /\ Joint!Next /\ UNCHANGED <<study, vars, planningVars, differences>>
Randomized == study = "paired" /\ Add /\ UNCHANGED <<study, vars, planningVars, jointVars>>

StudyNext == Memories \/ Planned \/ Separated \/ Randomized

StudySpec == StudyInit /\ [][StudyNext]_studyVars

-------------------------------------------------------------------------------
(* The properties of the modules, each for its own study.                   *)

\* Every planner of coreset.py admits what exhaustive search over its swaps
\* admits, the diagnostic of both objectives names what they admit, and greedy
\* and exact selection from the archive keep the bounds they advertise.
StudyMemoriesAreOptimal ==
  study = "memories" =>
    PlannersAreOptimal /\ DiagnosticAgrees /\ GreedyIsNearOptimal /\ ArchiveIsNeverWorse

\* The monotone chain finds the strict lower hull; by it, a rollout that is
\* revised at every answer earns at least what the source order earns, and no
\* policy more than the Bellman value, which the optimal policy earns.  The
\* selective gate never earns less than the best batch, and the sampled gate
\* leaves the source order only where that pays, as its audit finds again.
\* These are about the belief, which every world in it reaches: one is enough.
StudyPoliciesAreOrdered ==
  (study = "planning" /\ truth = Min(belief)) =>
    /\ Planning!HullIsLower /\ Planning!RolloutImproves /\ Planning!OptimalDominates
    /\ Planning!SelectiveKeepsBatch /\ Planning!ExchangeParity
    /\ Planning!SampledGatePays /\ Planning!AuditReproducesGate

\* Hull-ENS values an action between the source order after it and the Bellman
\* recursion, exactly when two queries are left, and is optimistic on average
\* when the outer draws are reused inside.
StudyEnsIsBounded == (study = "planning" /\ truth = Min(belief)) => Planning!EnsIsBounded

\* The paths that the joint audit recovers world by world part only where the
\* worlds showed different answers, and state helps where it can be kept and
\* used, and nowhere else.
StudyJointIsNonanticipative ==
  study = "joint" => Joint!Nonanticipative /\ Joint!SeparationAndNulls

===============================================================================

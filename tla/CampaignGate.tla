------------------------------ MODULE CampaignGate ------------------------------
(***************************************************************************)
(* campaign_gate.py: before a campaign begins, complete campaigns of the   *)
(* source policy and of IC-SARR are simulated in the same sampled worlds,  *)
(* and one of the two policies is chosen for the whole campaign, which     *)
(* the closed loop of PolicyDispatch then runs.                            *)
(***************************************************************************)
EXTENDS PolicyDispatch

IC == "independent_confirmation_source_rollout"

-------------------------------------------------------------------------------
(* _simulate_campaign                                                       *)

\* IC-SARR conditions on the sampled answers and draws samples of its own.
RoundActions(p, c, samples) ==
  IF p = "source_margin" THEN {SourceAction(c)} ELSE ConfirmedActions(c, Streams(c, samples))

\* One round after the history q in the world w.
Selections(p, s, q, w) ==
  {LeftAfter(s, q)[a] : a \in RoundActions(p, CallAfter(s, q, w), SamplesAfter(s, q, w))}

\* The histories that a campaign in the world w can have.
Campaigns(p, s, w) ==
  LET next(q) == {Append(q, k) : k \in Selections(p, s, q, w)}
      after[r \in 0..s.budget] ==
        IF r = 0 THEN {<<>>} ELSE UNION {next(q) : q \in after[r - 1]}
  IN  after[s.budget]

\* terminal_value and selected_history_value
Value(s, q, w) ==
  [terminal |-> Cardinality(ToSet(q) \intersect Membership(s.xs, w, s.references)),
   history |-> Cardinality(Membership([k \in DOMAIN q |-> s.xs[q[k]]],
                                      [k \in DOMAIN q |-> w[q[k]]], s.references))]

-------------------------------------------------------------------------------
(* campaign_gated_ic_sarr                                                   *)

\* What one world can contribute: IC-SARR less source, in the same world.
WorldDifferences(s, w) ==
  {[terminal |-> i.terminal - b.terminal, history |-> i.history - b.history] :
     i \in {Value(s, q, w) : q \in Campaigns(IC, s, w)},
     b \in {Value(s, q, w) : q \in Campaigns("source_margin", s, w)}}

\* A block has two worlds.
PairDifferences(each) ==
  {[terminal |-> d.terminal + e.terminal, history |-> d.history + e.history] : d \in each, e \in each}

BlockDifferences(s) == PairDifferences(UNION {WorldDifferences(s, w) : w \in s.worlds})

\* Two comparisons: terminal strictly better and selected history not worse.
Gate(blocks) ==
  IF /\ LowerBoundExceeds([b \in DOMAIN blocks |-> blocks[b].terminal], 2, 0)
     /\ LowerBoundNonnegative([b \in DOMAIN blocks |-> blocks[b].history], 2)
  THEN IC ELSE "source_margin"

\* The gate is called only with a posterior for every query.
GateInit ==
  /\ system \in Systems /\ system.supported /\ truth \in system.worlds
  /\ policy = "undecided" /\ revealed = <<>> /\ deviated = FALSE /\ error = FALSE

Decide ==
  /\ policy = "undecided"
  /\ policy' \in {Gate(blocks) : blocks \in [1..BlockCount -> BlockDifferences(system)]}
  /\ UNCHANGED <<system, truth, revealed, deviated, error>>

\* A campaign runs one of the policies of the worker, or the one of the gate.
GateNext == Decide \/ (policy # "undecided" /\ Next)

GateSpec == (GateInit \/ Init) /\ [][GateNext]_vars

-------------------------------------------------------------------------------
(* Properties.                                                              *)

\* The campaign that the loop runs in the world that turns out true is one of
\* those that the gate has simulated for that world, so that the number of
\* members it finds is one of the simulated values.
LoopIsSimulated ==
  policy \in {"source_margin", IC} /\ system.supported /\ Len(revealed) = system.budget =>
    \E q \in Campaigns(policy, system, truth) :
      /\ q = revealed
      /\ Value(system, q, truth).terminal <= Value(system, q, truth).history

\* What a rollout or the gate simulates is what the worker and the loop then do.
SimulationIsFaithful == SimulatedIsDeployed /\ LoopIsSimulated

\* A campaign of IC-SARR is started only when the source campaign misses, in
\* some sampled world, a member that it could have paid for: no draw of the
\* worlds starts one where the source policy cannot be improved.
StartsForSomeWorld ==
  [][(policy = "undecided" /\ policy' = IC) =>
       (\E w \in system.worlds : \A q \in Campaigns("source_margin", system, w) :
          Value(system, q, w).terminal
            < Min({system.budget, Cardinality(Membership(system.xs, w, system.references))}))]_vars

\* No draw of the worlds makes a gate leave the source policy, for an action or
\* for a campaign, where that pays in none of the sampled worlds.
DeviationsPaySomewhere == DeviatesForSomeWorld /\ StartsForSomeWorld

===============================================================================

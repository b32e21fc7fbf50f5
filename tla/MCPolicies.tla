------------------------------ MODULE MCPolicies ------------------------------
(* The policies of the worker and the gate before them, over the systems of *)
(* MCPolicyDispatch, or the evaluation of a finished trace: a behaviour     *)
(* belongs to one of the two.                                               *)
EXTENDS CampaignGate, MCPolicyDispatch, CampaignEvaluation

VARIABLE side

(* Three queries out of four atoms, two of them at the same composition in   *)
(* some systems, with a compound or two phases of one element among the      *)
(* references or not; energies chosen so that ties, facets and revocations   *)
(* occur, and some steep enough for one phase to push two others off.        *)

MCEvaluated ==
  {[xs |-> x, truth |-> t, source |-> s, references |-> r, radius |-> 1] :
     x \in {<<1, 2, 3>>, <<1, 1, 2>>, <<2, 3, 3>>},
     t \in [1..3 -> -3..0],
     s \in {<<-1, -2, -1>>, <<-2, -1, -2>>},
     r \in {Elemental, Elemental \o <<[x |-> 2, e |-> -2]>>,
            <<[x |-> 4, e |-> 1], [x |-> 0, e |-> 0], [x |-> 4, e |-> 0]>>}}
  \union
  {[xs |-> <<1, 2, 3>>, truth |-> t, source |-> <<-2, -3, -6>>, references |-> Elemental,
    radius |-> 2] : t \in {<<-2, -3, -7>>, <<-2, -3, -6>>, <<1, -3, -6>>, <<-1, 1, -5>>}}

\* A system whose trace stays empty, beside the policies.
Untouched == CHOOSE s \in Evaluated : s.truth = <<-1, -2, -1>>

NoSystem == [xs |-> <<>>, source |-> <<>>, references |-> <<>>]

bothVars == <<side, vars, evaluationVars>>

MCPoliciesInit ==
  \/ side = "policies" /\ (GateInit \/ MCInit) /\ EvaluationInit /\ pool = Untouched
  \/ /\ side = "evaluation" /\ EvaluationInit
     /\ system = NoSystem /\ policy = "none" /\ truth = <<>> /\ revealed = <<>>
     /\ deviated = FALSE /\ error = FALSE

Campaign == side = "policies" /\ GateNext /\ UNCHANGED <<side, evaluationVars>>
Evaluate == side = "evaluation" /\ EvaluationNext /\ UNCHANGED <<side, vars>>

MCPoliciesSpec == MCPoliciesInit /\ [][Campaign \/ Evaluate]_bothVars

===============================================================================

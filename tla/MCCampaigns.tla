----------------------------- MODULE MCCampaigns -----------------------------
(* The launchers of the campaigns, each kind by itself: the processes of      *)
(* MCWriteOnceCampaign on one unit, or the launches, runners and summaries of *)
(* CampaignPanels on a directory of units.  The other module stays where it   *)
(* starts.                                                                    *)
EXTENDS MCWriteOnceCampaign, CampaignPanels

VARIABLE area

\* Two budgets, pools or configurations where the campaign has several.
PanelColumns == [e32 |-> {1, 2}, hull |-> {1, 2}, e52 |-> {1, 2}, e53 |-> {1}, e54 |-> {1}, e55 |-> {1, 2}]

\* Three manifests over systems a, b, c: two over a and b, one over a and c.
PanelQueries == <<<<{"a"}, {"b"}>>, <<{"b"}, {"a"}>>, <<{"a"}, {"c"}>>>>

PanelRegistered == [k \in Fields |-> 1]

\* The pilot: other settings and seed over other folds; another cross-fit; other
\* inputs and another policy worker.
PanelExperiments ==
  {PanelRegistered,
   [PanelRegistered EXCEPT !["crossfit"] = 2, !["settings"] = 2, !["seed"] = 2],
   [PanelRegistered EXCEPT !["crossfit"] = 3],
   [PanelRegistered EXCEPT !["vault"] = 2, !["library"] = 2]}

CampaignsInit ==
  /\ Init /\ PanelsInit
  /\ area \in {"panels", "unit"}
  /\ area = "unit" => campaign = "e53"

CampaignsNext ==
  \/ area = "panels" /\ PanelsNext /\ UNCHANGED <<area, vars>>
  \/ area = "unit" /\ Next /\ UNCHANGED <<area, panelVars>>

CampaignsSpec == CampaignsInit /\ [][CampaignsNext]_<<area, vars, panelVars>>
===============================================================================

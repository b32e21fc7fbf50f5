------------------------- MODULE MCWriteOnceCampaign -------------------------
(* Three launchers, one of which was built from another runner.            *)
EXTENDS WriteOnceCampaign

CONSTANTS l1, l2, l3, frozen, altered

MCLaunchers == {l1, l2, l3}
MCIdentity == [l \in MCLaunchers |-> IF l = l3 THEN altered ELSE frozen]
===============================================================================

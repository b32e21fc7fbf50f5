------------------------ MODULE MCSecureProtocolRunner ------------------------
(* A small instance of SecureProtocolRunner for TLC: two candidates worth  *)
(* the tolerance itself, one dearer, one the vault refuses.                *)
EXTENDS SecureProtocolRunner

CONSTANTS a, b, c, unmatched

MCCandidates == {a, b, c, unmatched}
MCMatching == {a, b, c}
MCCost == (a :> 1) @@ (b :> 2) @@ (c :> 3) @@ (unmatched :> 3)
MCBudgets == {0, 1, 5}

===============================================================================

---------------------------- MODULE FIFOEmulation ----------------------------
(***************************************************************************)
(* What assert_exact_emulation compares on two results, as a refinement:   *)
(* the runner with PersistentFIFOEvidence implements the runner with       *)
(* ReconstructedFIFOEvidence, whose evidence is a function of the archive. *)
(***************************************************************************)
EXTENDS WBMSecureRunner

\* "Free on-demand reconstruction of exactly the persistent FIFO selector": a
\* run with the persistent FIFO is, step by step and record by record, a run
\* with the reconstructed one, which keeps nothing.
Reconstructed == INSTANCE WBMSecureRunner WITH Strategy <- "reconstructed", fifo <- <<>>

ExactEmulation == Reconstructed!Spec
===============================================================================

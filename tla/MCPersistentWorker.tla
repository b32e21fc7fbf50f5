-------------------------- MODULE MCPersistentWorker --------------------------
(* Instances of PersistentWorker for TLC: enough calls and starts that a    *)
(* call can time out, its worker answer late, and two later calls be made.  *)
EXTENDS PersistentWorker
===============================================================================

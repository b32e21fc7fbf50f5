--------------------------- MODULE MCRevealBoundary ---------------------------
(* A small instance of RevealBoundary for TLC.                             *)
EXTENDS RevealBoundary

CONSTANTS
  MaxRecords,   \* bound on acknowledged records
  MaxLines      \* bound on lines written, acknowledged or not

Bounded ==
  /\ Len(log.records) <= MaxRecords
  /\ Len(file) + Len(buffer) <= MaxLines
===============================================================================

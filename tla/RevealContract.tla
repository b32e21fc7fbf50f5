---------------------------- MODULE RevealContract ----------------------------
(***************************************************************************)
(* What an event log and its vault promise, whatever order their callers   *)
(* use: one selection is in flight at a time, only its outcome may be      *)
(* disclosed, at most once, and nothing else is selected until that        *)
(* selection is accounted for on disk.  If the process dies, what was      *)
(* disclosed and what was accounted stay as they are.                      *)
(***************************************************************************)
EXTENDS FiniteSets

CONSTANT Pairs

VARIABLES
  up,         \* a process is using the log
  inFlight,   \* the selection in flight, as a set of at most one pair
  disclosed,  \* pairs whose outcome was handed out
  accounted   \* pairs whose reveal record is on disk

contractVars == <<up, inFlight, disclosed, accounted>>

Init == up = TRUE /\ inFlight = {} /\ disclosed = {} /\ accounted = {}

Select(pair) ==
  /\ up /\ inFlight = {}
  /\ inFlight' = {pair}
  /\ UNCHANGED <<up, disclosed, accounted>>

Disclose(pair) ==
  /\ up /\ inFlight = {pair}
  /\ pair \notin disclosed
  /\ disclosed' = disclosed \union {pair}
  /\ UNCHANGED <<up, inFlight, accounted>>

\* Callers of the log may account for a selection they did not look at.
Account ==
  /\ up /\ inFlight # {}
  /\ accounted' = accounted \union inFlight
  /\ inFlight' = {}
  /\ UNCHANGED <<up, disclosed>>

Die ==
  /\ up
  /\ up' = FALSE
  /\ inFlight' = {}
  /\ UNCHANGED <<disclosed, accounted>>

\* Only when the old trace is no longer at its path.
StartOver ==
  /\ ~up
  /\ up' = TRUE
  /\ disclosed' = {} /\ accounted' = {}
  /\ UNCHANGED inFlight

Next ==
  \/ \E pair \in Pairs : Select(pair) \/ Disclose(pair)
  \/ Account \/ Die \/ StartOver

Spec == Init /\ [][Next]_contractVars
===============================================================================

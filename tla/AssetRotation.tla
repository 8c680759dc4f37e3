---------------------------- MODULE AssetRotation ----------------------------
(***************************************************************************)
(* How often the dispatch worker works on one identity while another one   *)
(* waits: AssetDispatch with a counter of overtakings.                     *)
(***************************************************************************)
EXTENDS AssetDispatch

CONSTANTS
  Favored,     \* the identity that overtakes
  Passed,      \* the identity that waits
  MaxTurns     \* bound: overtakings counted

ASSUME RotationAssumption ==
  Favored \in Keys /\ Passed \in Keys \ {Favored} /\ MaxTurns \in Nat

VARIABLES
  turns,       \* history: turns of Favored since the last turn of Passed
  archivals    \* history: archivals that took the cursor with them

rotationVars == <<dispatchVars, turns, archivals>>

RotationInit == DispatchInit /\ turns = 0 /\ archivals = 0

Capped(n) == IF n < MaxTurns THEN n + 1 ELSE n

(* A turn of Passed, or the end of its wait, starts the count anew. *)
NextTurns ==
  IF Passed \notin NonTerminal \/ Take(Passed) THEN 0
  ELSE IF Take(Favored) THEN Capped(turns) ELSE turns

RotationNext ==
  /\ DispatchNext
  /\ turns' = NextTurns
  /\ archivals' = IF cursor # 0 /\ cursor' = 0 THEN Capped(archivals) ELSE archivals

RotationSpec == RotationInit /\ [][RotationNext]_rotationVars
FairRotationSpec == RotationSpec /\ WorkerFairness

-----------------------------------------------------------------------------
(* An identity waits for at most one turn of any other, and for one more   *)
(* per restart and per archival that removes the cursor: the rotation of   *)
(* next_batch, whatever the batch limit and however jobs come and go.      *)
BoundedOvertaking ==
  turns < MaxTurns => turns <= 1 + crashes + archivals
=============================================================================

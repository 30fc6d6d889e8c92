-------------------------- MODULE MCScryfallClient --------------------------
(***************************************************************************)
(* An instance of ScryfallClient: two processes, and three cards on pages  *)
(* of one, so that a publication can move the boundary of a page between   *)
(* two requests of a load.                                                 *)
(***************************************************************************)
EXTENDS ScryfallClient, TLC

CONSTANTS p1, p2

ThreeCards == 1 .. 3
TwoProcesses == {p1, p2}

\* State constraint: nothing is explored beyond a withdrawal.  The invariants that speak
\* of listings promise nothing from then on.
NothingDropped == ~withdrawn

ProcessSymmetry == Permutations(TwoProcesses)
=============================================================================

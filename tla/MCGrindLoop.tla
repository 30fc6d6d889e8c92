----------------------------- MODULE MCGrindLoop -----------------------------
(***************************************************************************)
(* Instances of GrindLoop: a loop without a cap, and loops of two batches. *)
(***************************************************************************)
EXTENDS GrindLoop

UncappedOrTwo == {0, 2}
=============================================================================

------------------------------ MODULE Mainline ------------------------------
(***************************************************************************)
(* What every workflow that commits to the grammar's repository promises,  *)
(* add-card sessions and grind alike: the report in the last commit is     *)
(* the one its code yields, no card it supports is ever lost, and the      *)
(* report in the working tree never falls behind it, so that the next      *)
(* comparison of reports finds any card that was lost since.               *)
(*                                                                         *)
(* The promise composes: several steps in a row are again a step.  That is *)
(* what lets grind treat a whole add-card session as one.                  *)
(***************************************************************************)
VARIABLES
    supported,  \* the cards the last commit supports
    honest,     \* whether the report in the last commit is true of its code
    recorded    \* the cards the report in the working tree counts as passing

Init == honest = TRUE /\ supported \subseteq recorded

Next ==
    /\ honest' = TRUE
    /\ supported \subseteq supported'
    /\ supported' \subseteq recorded'

Spec == Init /\ [][Next]_<<supported, honest, recorded>>
=============================================================================

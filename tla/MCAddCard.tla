----------------------------- MODULE MCAddCard -----------------------------
(***************************************************************************)
(* Instances of AddCard: two cards, in two sets or both in one.            *)
(***************************************************************************)
EXTENDS AddCardClaims

CONSTANTS a1, b1, A, B

MCCards == {a1, b1}
MCSets == {A, B}
OneSetEach == [c \in MCCards |-> IF c = a1 THEN A ELSE B]
BothInA == [c \in MCCards |-> A]
MCListing == <<a1, b1>>

MCReleaseOrder == <<A, B>>
TrackA == <<A>>
TrackBA == <<B, A>>

CommandLine(set, max, supervisor, focused) ==
    [set |-> set, maxIterations |-> max, supervisorAttempts |-> supervisor,
     focusedRepairAttempts |-> focused, dryRun |-> FALSE, allowDirty |-> FALSE]

Dirty(o) == [o EXCEPT !.allowDirty = TRUE]
DryRun(o) == [o EXCEPT !.dryRun = TRUE]

\* A session with the supervisor; a capped, pinned run over a dirty tree; a dry run
\* with the supervisor, by grind.
UsualOptions ==
    {CommandLine(NoSet, 0, 1, 1), Dirty(CommandLine(B, 1, 0, 1)), DryRun(Dirty(CommandLine(NoSet, 0, 1, 0)))}

\* The default but for the supervisor and the capped repairs.
AutoAdvance == {CommandLine(NoSet, 0, 0, 1)}

\* Uncapped sessions with the supervisor; capped ones without; pinned ones over a dirty
\* tree.
SupervisedOrNot ==
    {CommandLine(NoSet, 0, 1, 0), CommandLine(NoSet, 1, 0, 0), Dirty(CommandLine(A, 0, 0, 0))}
=============================================================================

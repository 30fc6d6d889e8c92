---------------------------- MODULE MCPhaseLoop ----------------------------
(***************************************************************************)
(* Instances of PhaseLoop: two concepts, two ASTs, the second of which the *)
(* contract of the second concept forbids.                                 *)
(***************************************************************************)
EXTENDS PhaseLoop

CONSTANTS x, y, v

MCConcepts == {1, 2}
MCAsts == {x, y}
MCAllowed == [c \in MCConcepts |-> IF c = 1 THEN {x, y} ELSE {x}]
MCVariants == {v}

Version(first, second) ==
    [ast |-> [c \in MCConcepts |-> IF c = 1 THEN first[1] ELSE second[1]],
     snap |-> [c \in MCConcepts |-> IF c = 1 THEN first[2] ELSE second[2]],
     green |-> MCConcepts, variants |-> {}, builds |-> TRUE]

\* Nothing parsed; the first or both concepts parsed, with and without snapshots; a
\* forbidden AST; a changed one; and one each with a new variant, a concept that is
\* not green, without a fixture, and one that does not build.
MCEdits ==
    LET none == <<Unparsed, NoSnapshot>>
    IN  {Version(none, none), Version(<<x, NoSnapshot>>, none), Version(<<x, x>>, none),
         Version(<<y, x>>, <<x, x>>), Version(<<x, x>>, <<x, NoSnapshot>>),
         Version(<<x, x>>, <<x, x>>), Version(<<x, x>>, <<y, NoSnapshot>>),
         [Version(<<x, x>>, none) EXCEPT !.variants = {v}],
         [Version(<<x, x>>, none) EXCEPT !.green = {1}],
         [Version(<<x, x>>, none) EXCEPT !.ast[2] = NoFixture],
         [Version(<<x, x>>, none) EXCEPT !.builds = FALSE]}

SessionOf(size) ==
    [loop |-> FALSE, size |-> size, concept |-> NoConcept, allowDirty |-> FALSE,
     noCommit |-> FALSE, dryRun |-> FALSE, watch |-> FALSE, maxBatches |-> 0,
     maxCommits |-> 0, maxPhase1 |-> 0]

LoopOf(size) == [SessionOf(size) EXCEPT !.loop = TRUE]

MCOptions ==
    {[SessionOf(2) EXCEPT !.allowDirty = TRUE, !.noCommit = TRUE],
     [SessionOf(1) EXCEPT !.concept = 2], [SessionOf(1) EXCEPT !.dryRun = TRUE],
     [LoopOf(1) EXCEPT !.maxPhase1 = 1, !.watch = TRUE], [LoopOf(1) EXCEPT !.maxBatches = 2],
     [LoopOf(1) EXCEPT !.maxCommits = 2], LoopOf(2)}

\* A loop that is watched, alone.
WatchedLoop == {[LoopOf(1) EXCEPT !.maxPhase1 = 1, !.watch = TRUE]}
============================================================================

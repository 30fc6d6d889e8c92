---------------------------- MODULE MCConceptGrind ----------------------------
(***************************************************************************)
(* An instance of ConceptGrind: two rules to map, a shared one, one that   *)
(* is not in the grammar but required to be blocked, two concepts.         *)
(***************************************************************************)
EXTENDS ConceptGrind

CONSTANTS r1, r2, old, common, c1, c2

MCRules == {r1, r2, old, common}
MCShared == {common}
MCConcepts == {c1, c2}
MCPlumbing == {r2}
MCRequired == {old}

Tree(first, second, pest, replays, stray) ==
    [rules |-> {r1, r2, common}, owns |-> [c \in MCConcepts |-> IF c = c1 THEN first ELSE second],
     green |-> {c \in MCConcepts : (c = c1 /\ first # {}) \/ (c = c2 /\ second # {})},
     marked |-> {}, pest |-> pest, seeds |-> 0, replays |-> replays, stray |-> stray]

MCInitTree == Tree({}, {}, 0, SeedVersions, FALSE)

\* The first rule mapped without a change of grammar.pest, both mapped with one; and
\* one tree each with a failing test, a failing test whose seed was removed, a change
\* elsewhere, a shared rule owned, a red fixture, a rule removed.
MCTrees ==
    {Tree({r1}, {}, 0, SeedVersions, FALSE), Tree({r1}, {r2}, 1, SeedVersions, FALSE),
     Tree({r1}, {}, 1, {}, FALSE), [Tree({r1}, {}, 0, {1}, FALSE) EXCEPT !.seeds = 1],
     Tree({r1}, {}, 0, SeedVersions, TRUE),
     Tree({r1, common}, {}, 0, SeedVersions, FALSE), [Tree({r1}, {}, 0, SeedVersions, FALSE) EXCEPT !.green = {}],
     [Tree({}, {r2}, 1, SeedVersions, FALSE) EXCEPT !.rules = {r2, common}]}

CommandLine(c, max, repair) ==
    [concept |-> c, maxIterations |-> max, repairAttempts |-> repair, dryRun |-> FALSE,
     allowDirty |-> FALSE, noCommit |-> FALSE]

\* Two iterations; a pinned one over a dirty tree; two without commits; a dry run.
MCOptions ==
    {CommandLine(NoConcept, 2, 1), [CommandLine(c1, 1, 0) EXCEPT !.allowDirty = TRUE],
     [CommandLine(NoConcept, 2, 0) EXCEPT !.noCommit = TRUE],
     [CommandLine(NoConcept, 1, 0) EXCEPT !.dryRun = TRUE]}
=============================================================================

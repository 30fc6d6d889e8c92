------------------------------- MODULE MCGrind -------------------------------
(* Instances of Grind.                                                       *)
EXTENDS Grind

CONSTANTS damage, core, c1

MCThemes == {damage, core}

MCAutoThemes == <<damage>>

MCCards == {c1}

MCRules == {1, 2}

Line(fixed, theme, allowDirty, maxIterations) ==
    [fixed |-> fixed, theme |-> theme, dryRun |-> FALSE, allowDirty |-> allowDirty,
     maxIterations |-> maxIterations]

\* Nine iterations are one more than the budgets of two themes allow.
MCOptions ==
    {Line(FALSE, NoTheme, FALSE, 9), Line(FALSE, NoTheme, TRUE, 3),
     Line(TRUE, core, FALSE, 5), Line(TRUE, NoTheme, TRUE, 2),
     [Line(FALSE, NoTheme, FALSE, 9) EXCEPT !.dryRun = TRUE]}
=============================================================================

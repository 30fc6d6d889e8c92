-------------------------------- MODULE Grind --------------------------------
(***************************************************************************)
(* The grind meta-loop (xtask/src/grind.rs) over refactor-hotspot          *)
(* iterations (xtask/src/refactor_hotspot.rs): refactor one theme after    *)
(* another until each has used up a budget, then hand over to add-card;    *)
(* gate failures go to a repair agent first.                               *)
(*                                                                         *)
(* The tracked files are a record: what grammar.pest and the round trips   *)
(* of the cards say, whether cargo test and ast-coverage would pass, and   *)
(* corpus_status.json.  Untracked files are kept apart: "stray" stands for *)
(* those that agents leave, "logs" says whether .grind holds log           *)
(* directories that git does not know.                                     *)
(*                                                                         *)
(* Every agent may edit everything but corpus_status.json, whatever its    *)
(* prompt says; a command may fail for reasons outside the model.          *)
(***************************************************************************)
EXTENDS Descent, Sequences, FiniteSets

CONSTANTS
    Themes,        \* the themes an agent may answer with (parse_theme_choice)
    AutoThemes,    \* AUTO_REFACTOR_THEMES, in order
    NoTheme,       \* no current theme
    Cards,         \* the cards of the corpus
    RuleCounts,    \* bound: how many rules grammar.pest may have
    Options,       \* the command lines in use
    StopAfter,     \* --stop-after
    MaxCommits,    \* --max-commits-per-theme
    MaxRepairs,    \* --max-repairs-per-theme
    LowValueStop,  \* --low-value-stop-after
    RepairAttempts \* --repair-attempts

\* "fixed" stands for --theme, --target or --fixed-refactor-target; with the last
\* two "theme" may be NoTheme.
CommandLines == [fixed : BOOLEAN, theme : Themes \cup {NoTheme}, dryRun : BOOLEAN,
                 allowDirty : BOOLEAN, maxIterations : Nat \ {0}]

ASSUME GrindAssumption ==
    /\ IsFiniteSet(Themes)
    /\ AutoThemes \in Seq(Themes) \ {<<>>}
    /\ NoTheme \notin Themes
    /\ IsFiniteSet(Cards)
    /\ RuleCounts \subseteq Nat
    /\ Options \subseteq {o \in CommandLines : o.theme # NoTheme => o.fixed}
    /\ {StopAfter, MaxCommits, MaxRepairs, LowValueStop} \subseteq Nat \ {0}
    /\ RepairAttempts \in Nat

Files == [rules : RuleCounts, rt : SUBSET Cards, sound : BOOLEAN, status : SUBSET Cards]

\* Files whose report is the one their code yields.
Honest == {f \in Files : f.status = f.rt}

\* Files that would pass the gates of an iteration as well.
Gated == {f \in Honest : f.sound}

\* Untracked files an agent made: none, harmless ones, or ones that break a gate.
Strays == {"none", "fine", "broken"}

\* ThemeState.  "last" is last_corpus_passing and last_grammar_rules, which are
\* set together.
NoMeasure == [passing |-> 0, rules |-> 0, known |-> FALSE]
Measures == [passing : Nat, rules : Nat, known : BOOLEAN]
ThemeStates == [commits : Nat, repairs : Nat, noOps : Nat, lowValue : Nat, last : Measures]

VARIABLES
    head,      \* the last commit
    tree,      \* the tracked files of the working tree
    stray,     \* untracked files other than logs
    logs,      \* whether .grind holds untracked logs
    pc,        \* the place in run_with_sink
    opts,      \* Options
    iteration, \* iteration of the refactor phase
    current,   \* current_theme
    exhausted, \* exhausted_themes
    states,    \* theme_states
    attempts,  \* attempts of the add-card phase
    phase,     \* which phase try_repair works for
    ending     \* how the refactor phase ended

files == <<head, tree, stray, logs>>
themes == <<current, exhausted, states>>
vars == <<head, tree, stray, logs, pc, opts, iteration, current, exhausted, states,
          attempts, phase, ending>>

Places == {"down", "next", "cluster", "plan", "implement", "gates", "commit", "repair",
           "repairGates", "repairCommit", "card"}
Endings == {"none", "quiet", "budget", "ceiling", "dryRun"}

Keys == Themes \cup {NoTheme}

AutoSet == {AutoThemes[i] : i \in 1 .. Len(AutoThemes)}

FreshState == [commits |-> 0, repairs |-> 0, noOps |-> 0, lowValue |-> 0, last |-> NoMeasure]

Init ==
    /\ head \in Honest
    /\ tree \in {head} \cup [rules : RuleCounts, rt : SUBSET Cards, sound : BOOLEAN,
                             status : {head.status}]
    /\ stray = "none"
    /\ logs = FALSE
    /\ pc = "down"
    /\ opts \in Options
    /\ iteration = 1
    /\ current = NoTheme
    /\ exhausted = {}
    /\ states = [k \in Keys |-> FreshState]
    /\ attempts = 0
    /\ phase = "refactor"
    /\ ending = "none"

-----------------------------------------------------------------------------
\* ThemeState's operations.

\* read_corpus_pp_total and count_grammar_rules.
Measure(f) == [passing |-> Cardinality(f.status), rules |-> f.rules, known |-> TRUE]

Selected(s, f) == [s EXCEPT !.noOps = 0, !.last = Measure(f)]

Improved(last, now) ==
    last.known /\ (now.passing > last.passing \/ now.rules < last.rules)

RecordCommit(s, f) ==
    [commits |-> s.commits + 1, repairs |-> s.repairs, noOps |-> 0,
     lowValue |-> IF Improved(s.last, Measure(f)) THEN 0 ELSE s.lowValue + 1,
     last |-> Measure(f)]

RecordNoChange(s) == [s EXCEPT !.noOps = @ + 1]

\* Mutation: repairs are free.
RecordRepairFree(s) == [s EXCEPT !.noOps = 0]

RecordRepair(s) == [s EXCEPT !.noOps = 0, !.repairs = @ + 1]

IsExhausted(s) ==
    \/ s.noOps >= StopAfter
    \/ s.commits >= MaxCommits
    \/ s.repairs >= MaxRepairs
    \/ s.lowValue >= LowValueStop

-----------------------------------------------------------------------------
\* Helpers.

\* fallback_theme: the first theme from the iteration's offset on that is left.
ThemeAt(i, offset) == AutoThemes[((i - 1 + offset) % Len(AutoThemes)) + 1]

FallbackTheme(i) ==
    LET open == {o \in 0 .. Len(AutoThemes) - 1 : ThemeAt(i, o) \notin exhausted}
    IN  IF open = {} THEN AutoThemes[1]
        ELSE ThemeAt(i, CHOOSE o \in open : \A p \in open : o <= p)

\* Mutation: an exhausted answer is taken.
AnyTheme == Themes

\* The answers of the selection agent that are taken.
OpenThemes == Themes \ exhausted

\* What an agent may leave.
AgentEdits ==
    /\ tree' \in [rules : RuleCounts, rt : SUBSET Cards, sound : BOOLEAN,
                  status : {tree.status}]
    /\ stray' \in Strays

\* The gates that both kinds of iteration run: fmt, test, ast-coverage, and the
\* corpus run, which fails if a passing card no longer passes.
GatesCanPass == tree.sound /\ stray # "broken" /\ tree.status \subseteq tree.rt

\* What corpus leaves in corpus_status.json.
AfterCorpus == [tree EXCEPT !.status = tree.rt]

\* The end of an iteration of the refactor phase, with the new state of its theme.
Record(s) ==
    /\ states' = [states EXCEPT ![current] = s]
    /\ phase' = "refactor"
    /\ UNCHANGED <<opts, attempts>>
    /\ \/ /\ ~IsExhausted(s)
          /\ pc' = "next"
          /\ iteration' = iteration + 1
          /\ UNCHANGED <<current, exhausted, ending>>
       \/ /\ IsExhausted(s)
          /\ opts.fixed
          /\ pc' = "card"
          /\ ending' = "budget"
          /\ UNCHANGED <<iteration, current, exhausted>>
       \/ /\ IsExhausted(s)
          /\ ~opts.fixed
          /\ pc' = "next"
          /\ iteration' = iteration + 1
          /\ exhausted' = exhausted \cup {current}
          /\ current' = NoTheme
          /\ UNCHANGED ending

Goto(place) ==
    pc' = place /\ UNCHANGED <<opts, iteration, themes, attempts, phase, ending>>

\* The locals of the run end with it.
GrindEnds ==
    /\ pc' = "down"
    /\ iteration' = 1
    /\ current' = NoTheme
    /\ exhausted' = {}
    /\ states' = [k \in Keys |-> FreshState]
    /\ attempts' = 0
    /\ phase' = "refactor"
    /\ ending' = "none"
    /\ UNCHANGED opts

-----------------------------------------------------------------------------
\* The refactor phase.

\* ensure_clean_working_tree counts untracked files, logs among them.
Start ==
    /\ pc = "down"
    /\ \E o \in Options :
           /\ \/ o.dryRun \/ o.allowDirty
              \/ tree = head /\ stray = "none" /\ ~logs
           /\ opts' = o
           /\ current' = o.theme
    /\ pc' = "next"
    /\ UNCHANGED <<files, iteration, exhausted, states, attempts, phase, ending>>

PhaseIsQuiet ==
    /\ pc = "next"
    /\ iteration <= opts.maxIterations
    /\ ~opts.fixed
    /\ current = NoTheme
    /\ AutoSet \subseteq exhausted
    /\ pc' = "card"
    /\ ending' = "quiet"
    /\ UNCHANGED <<files, opts, iteration, themes, attempts, phase>>

\* select_next_refactor_theme: an agent that fails or gives no usable answer is
\* replaced by the fallback.
SelectTheme ==
    /\ pc = "next"
    /\ iteration <= opts.maxIterations
    /\ ~opts.fixed
    /\ current = NoTheme
    /\ ~(AutoSet \subseteq exhausted)
    /\ ~opts.dryRun
    /\ logs' = TRUE
    /\ AgentEdits
    /\ \E t \in OpenThemes \cup {FallbackTheme(iteration)} :
           /\ current' = t
           /\ states' = [states EXCEPT ![t] = Selected(@, tree')]
    /\ pc' = "cluster"
    /\ UNCHANGED <<head, opts, iteration, exhausted, attempts, phase, ending>>

\* A dry run only names the first target.
DryRun ==
    /\ pc = "next"
    /\ opts.dryRun
    /\ pc' = "card"
    /\ ending' = "dryRun"
    /\ UNCHANGED <<files, opts, iteration, themes, attempts, phase>>

\* Mutation: the ceiling is not looked at while a theme is worked on.
KeepThemePastCeiling ==
    /\ pc = "next"
    /\ opts.fixed \/ current # NoTheme
    /\ ~opts.dryRun
    /\ Goto("cluster")
    /\ UNCHANGED files

KeepTheme ==
    /\ pc = "next"
    /\ iteration <= opts.maxIterations
    /\ opts.fixed \/ current # NoTheme
    /\ ~opts.dryRun
    /\ Goto("cluster")
    /\ UNCHANGED files

ReachCeiling ==
    /\ pc = "next"
    /\ iteration > opts.maxIterations
    /\ pc' = "card"
    /\ ending' = "ceiling"
    /\ UNCHANGED <<files, opts, iteration, themes, attempts, phase>>

\* The cluster, plan and implementation stages.
AgentStage(stage, next) ==
    /\ pc = stage
    /\ AgentEdits
    /\ \/ Goto(next)
       \/ Goto("repair")
    /\ UNCHANGED <<head, logs>>

GatesPass ==
    /\ pc = "gates"
    /\ GatesCanPass
    /\ tree' = AfterCorpus
    /\ Goto("commit")
    /\ UNCHANGED <<head, stray, logs>>

\* The audit page comes after the corpus run.
GatesFail ==
    /\ pc = "gates"
    /\ \/ UNCHANGED tree
       \/ GatesCanPass /\ tree' = AfterCorpus
    /\ Goto("repair")
    /\ UNCHANGED <<head, stray, logs>>

\* git_commit adds every untracked file, .grind included.
NothingStaged == tree = head /\ stray = "none" /\ ~logs

CommitIteration ==
    /\ pc = "commit"
    /\ ~NothingStaged
    /\ head' = tree
    /\ stray' = "none"
    /\ logs' = FALSE
    /\ Record(RecordCommit(states[current], tree))
    /\ UNCHANGED tree

NoChanges ==
    /\ pc = "commit"
    /\ NothingStaged
    /\ Record(RecordNoChange(states[current]))
    /\ UNCHANGED files

-----------------------------------------------------------------------------
\* try_repair, for either phase.

RepairAgent ==
    /\ pc = "repair"
    /\ logs' = TRUE
    /\ AgentEdits
    /\ Goto("repairGates")
    /\ UNCHANGED head

\* Mutation: the repaired tree is committed without the corpus gate.
RepairGatesWithoutCorpus ==
    /\ pc = "repairGates"
    /\ tree.sound /\ stray # "broken"
    /\ tree' = AfterCorpus
    /\ Goto("repairCommit")
    /\ UNCHANGED <<head, stray, logs>>

\* Mutation: the gates of a repair run without cargo test.
RepairGatesWithoutTests ==
    /\ pc = "repairGates"
    /\ tree.status \subseteq tree.rt
    /\ tree' = AfterCorpus
    /\ Goto("repairCommit")
    /\ UNCHANGED <<head, stray, logs>>

RepairGatesPass ==
    /\ pc = "repairGates"
    /\ GatesCanPass
    /\ tree' = AfterCorpus
    /\ Goto("repairCommit")
    /\ UNCHANGED <<head, stray, logs>>

\* git_commit_repair leaves the logs out; a repair without a diff counts as well.
CommitRepair ==
    /\ pc = "repairCommit"
    /\ head' = tree
    /\ stray' = "none"
    /\ \/ phase = "refactor" /\ Record(RecordRepair(states[current]))
       \/ phase = "card" /\ Goto("card")
    /\ UNCHANGED <<tree, logs>>

\* Mutation: the failed repair's edits stay.
KeepFailedRepair ==
    /\ pc \in {"repair", "repairGates"}
    /\ phase = "refactor"
    /\ logs' = TRUE
    /\ Record(RecordNoChange(states[current]))
    /\ UNCHANGED <<head, tree, stray>>

\* The agent or a gate failed: discard_working_changes takes the tracked files back
\* and the iteration counts as a no-op.
DiscardIteration ==
    /\ pc \in {"repair", "repairGates"}
    /\ phase = "refactor"
    /\ logs' = TRUE
    /\ tree' = head
    /\ stray' \in IF pc = "repair" THEN Strays ELSE {stray}
    /\ Record(RecordNoChange(states[current]))
    /\ UNCHANGED head

-----------------------------------------------------------------------------
\* The add-card phase.

\* What a session of add-card does, as module AddCard has it: its commits are honest,
\* keep what passes (no card is withdrawn from a listing while grind runs) and take
\* every untracked file along; it may end over a changed tree.  The gates of add-card
\* are tier 2 and the corpus, so a commit of it may fail cargo test or ast-coverage.
AddCardSession ==
    /\ head' \in {f \in Honest : head.status \subseteq f.status}
    /\ opts.dryRun => head' = head
    /\ tree' \in {f \in Files : head'.status \subseteq f.status}
    /\ stray' \in Strays
    /\ logs' \in {logs, FALSE}

CardPhaseEnds ==
    /\ pc = "card"
    /\ AddCardSession
    /\ GrindEnds

CardPhaseFails ==
    /\ pc = "card"
    /\ attempts < RepairAttempts
    /\ AddCardSession
    /\ attempts' = attempts + 1
    /\ phase' = "card"
    /\ pc' = "repair"
    /\ UNCHANGED <<opts, iteration, themes, ending>>

\* An error that nobody repairs: a command, git or a log file.
GiveUp ==
    /\ pc # "down"
    /\ GrindEnds
    /\ UNCHANGED files

\* Between two runs the developer may commit or drop what is there.
CleanUp ==
    /\ pc = "down"
    /\ tree' = head
    /\ stray' = "none"
    /\ logs' = FALSE
    /\ UNCHANGED <<head, pc, opts, iteration, themes, attempts, phase, ending>>

Next ==
    \/ Start
    \/ PhaseIsQuiet
    \/ SelectTheme
    \/ DryRun
    \/ KeepTheme
    \/ ReachCeiling
    \/ AgentStage("cluster", "plan")
    \/ AgentStage("plan", "implement")
    \/ AgentStage("implement", "gates")
    \/ GatesPass
    \/ GatesFail
    \/ CommitIteration
    \/ NoChanges
    \/ RepairAgent
    \/ RepairGatesPass
    \/ CommitRepair
    \/ DiscardIteration
    \/ CardPhaseEnds
    \/ CardPhaseFails
    \/ GiveUp
    \/ CleanUp

Spec == Init /\ [][Next]_vars

-----------------------------------------------------------------------------
\* Every variable keeps its type.
TypeOK ==
    /\ head \in Files
    /\ tree \in Files
    /\ stray \in Strays
    /\ logs \in BOOLEAN
    /\ pc \in Places
    /\ opts \in Options
    /\ iteration \in 1 .. opts.maxIterations + 1
    /\ current \in Keys
    /\ exhausted \subseteq Themes
    /\ states \in [Keys -> ThemeStates]
    /\ attempts \in 0 .. RepairAttempts
    /\ phase \in {"refactor", "card"}
    /\ ending \in Endings

\* Whatever agents leave behind, discard and repair, and even over a commit of
\* add-card that fails the tests: what grind itself commits passes cargo test and
\* ast-coverage together with the untracked files it takes along, and its
\* corpus_status.json is the one its code yields.
CommitsPassTheirGates ==
    [][head' # head /\ pc # "card" => head' \in Gated /\ stray # "broken"]_vars

\* No commit of either phase, repairs included, loses a card that passed.
PassingNeverDrops == [][head.status \subseteq head'.status]_vars

\* Whatever agents leave behind, grind keeps the promise of the mainline; the report
\* of the working tree survives both kinds of discard.
M == INSTANCE Mainline WITH
         supported <- head.status, honest <- head \in Honest, recorded <- tree.status
ImplementsMainline == M!Spec

\* "Trust grind's top-level precondition; don't re-check": the refactor iterations
\* after the first, and the add-card sessions, start from the tracked files of the
\* last commit.
StartsFromHead ==
    /\ pc = "next" /\ iteration > 1 => tree = head
    /\ pc = "card" /\ ending # "dryRun" /\ (iteration > 1 \/ ending = "budget") => tree = head

\* A theme that has used up a budget is not worked on again: over the whole run
\* no theme commits, repairs or idles more than its budgets allow.
ThemesKeepTheirBudgets ==
    \A t \in Themes :
        /\ states[t].commits <= MaxCommits
        /\ states[t].repairs <= MaxRepairs
        /\ states[t].noOps <= StopAfter

\* The no-ops before each commit or repair but the last one of a theme, and that
\* commit or repair itself, are at most StopAfter iterations.
IterationBound == (MaxCommits + MaxRepairs - 1) * StopAfter

\* The budgets end the refactor phase by themselves: with a ceiling above what they
\* allow the phase never reaches it.
BudgetsEndThePhase ==
    opts.maxIterations > Cardinality(Themes) * IterationBound => ending # "ceiling"

\* What a run still has to do: the refactor phase, repairs of the add-card phase,
\* iterations of the refactor phase, and the way to the end of the iteration.
PlaceRank ==
    [next |-> 8, cluster |-> 7, plan |-> 6, implement |-> 5, gates |-> 4, commit |-> 3,
     repair |-> 3, repairGates |-> 2, repairCommit |-> 1, card |-> 0, down |-> 0]

Remaining ==
    <<IF pc = "card" \/ phase = "card" THEN 0 ELSE 1,
      Left(attempts, RepairAttempts),
      Left(iteration, opts.maxIterations + 1),
      PlaceRank[pc]>>

\* Each step of a run leaves less of that: neither an agent that keeps failing, nor a
\* theme taken up again, nor an add-card session that fails after every repair can
\* keep grind running.
RunsDown == [][pc # "down" /\ pc' # "down" => Below(Remaining', Remaining)]_vars
=============================================================================

# Verification of mtg-parser

mtg-parser grows a grammar for the text of Magic cards. Somebody, or more often
one of the workflows of `src/xtask`, takes a card that does not round-trip yet,
lets a coding agent extend the grammar, sends the result through gates and
commits it. The parser is what the repository delivers; the workflows are what
keeps it right while an unsupervised agent rewrites it. This development models
both: what the workflows may commit, after which failures, and when they stop; and
what the parser reads, what the unparser prints, and where the two disagree.

## The system

| Component | Source | State it keeps | Operations |
|---|---|---|---|
| add-card orchestrator | `xtask/src/add_card.rs` | locals of the session: current set, card, iteration count, supervisor and repair attempts | one iteration of fifteen steps; supervisor; auto-advance; commit; push |
| corpus report | `mtg-corpus/src/{check,report,next}.rs` | none | check a card, build a report, compare two |
| corpus commands | `xtask/src/corpus_cmd.rs` | `corpus_status.json`, `corpus_sets.json` | run, `--update`, add a set, advance, refresh |
| Scryfall client | `mtg-scryfall/src` | one cached listing per set, time of the last request | list a set, refresh it, list the paper sets |
| grind | `xtask/src/grind.rs` | theme budgets, no-op streak | refactor phase, repair or discard, hand-over to add-card |
| refactor-hotspot | `xtask/src/refactor_hotspot.rs` | none between iterations | one iteration: agent, gates, commit |
| concept-grind | `xtask/src/concept.rs` | blocked targets, cool-down, metrics; catalogue files | boundary agent, fast path, patch agent, gates, repair, commit |
| concept-grind-loop | `xtask/src/concept.rs` | `loop_state.json` | batch, review, revert, next experiment, re-exec |
| phase 2 grind, phase loop | `xtask/src/concept.rs` | AST snapshots; batch and cycle counts | iteration; batches of the two phases; watcher |
| terminal UI | `xtask/src/tui` | channel or event log, stop flag or stop file, view state | render, forward the stop request, hot reload |
| agents | `agent_events.rs`, `add_card.rs` | none | run a coding agent, stream its transcript |
| grammar | `mtg-grammar/src` | none | parse (pest, then the conversion of its pairs), unparse |
| semantics | `mtg-semantic/src` | none | lower |
| reports | `grammar_audit`, `grammar_query`, `rules_*`, `ast_coverage`, `next_card` | none | text analysis for prompts and gates |

They interact through files and processes, not through memory. A workflow spawns
agents, `cargo` and `git`, all of which act on the one working tree; it reads
`corpus_status.json` and `corpus_sets.json`, which the corpus commands it spawns
rewrite; the corpus commands ask the Scryfall client, which serves cached or
live listings that grow. A workflow reports to a `FlowSink`; the only thing that
comes back through the sink is `stop_requested()`. Nothing locks anything.

What is hard here: an agent's edit is arbitrary; there are several repair loops,
each placed after some of the gates; every command may fail half-way and leaves
the working tree as it is; a session can be killed anywhere, and the next one
starts from what it left; the outside world changes the listings meanwhile; and
a default session is unbounded.

What makes the components right, in a sentence each: the orchestrator commits
only tested gains and stops when told; the corpus commands keep an honest report;
the Scryfall client never passes an old listing off as final; grind returns to
the last commit after a failure it cannot repair, and its budgets end it; the
phase loop decides on what was committed, and its fuses stop it; a tree the parser
produces survives print and parse; concept-grind commits only
what passed all of its gates, however often it was repaired after them, and leaves
nothing of a failed attempt to the next agent; grind-loop reverts
exactly the failed experiments, across restarts; the UI shows every event and
delivers every stop request.

## Modules

| Module | Contents |
|---|---|
| `CorpusReport` | the corpus report and the candidate rules, as operators |
| `AddCard` | the orchestrator: state, actions, properties |
| `Mainline` | what add-card and grind both promise of the repository, and grind expects of add-card |
| `Descent`, `DescentProofs` | measures of what a loop has left to do, and that nothing falls in their order for ever |
| `AddCardClaims` | what comments and documents say of the loop and the code does not do |
| `AddCardProofs` | theorems about `AddCard` for all constants |
| `AddCardSessionProofs` | theorems about the commits of a session, and its end |
| `ScryfallClient` | the loads of one set through the shared cache file, and what Scryfall does meanwhile |
| `ScryfallProofs` | theorems about `ScryfallClient` |
| `GrindLoop` | `concept-grind-loop`: batches, experiments, the state file, `--resume` |
| `GrindLoopProofs` | theorems about `GrindLoop` |
| `ConceptGrind` | `concept-grind`: selection, agents, fast path, gates, commit |
| `ConceptGrindProofs` | theorems about `ConceptGrind` |
| `Grind` | `grind` with the iterations of `refactor-hotspot`; add-card as one step |
| `GrindProofs` | theorems about `Grind` |
| `PhaseLoop` | `concept-phase2-grind`, `concept-phase-loop` and its watcher |
| `PhaseLoopProofs` | theorems about `PhaseLoop` |
| `Peg` | the parsing expressions of pest, and the texts an expression describes |
| `CardTerms`, `CardObjects`, `CardDamage`, `CardConditions` | the terms of card text: rules, conversion and printing of each |
| `CardTriggerRules`, `CardSentences`, `CardAbilities` | the rules of effects, sentences, abilities and whole texts, in the order the parser tries them |
| `CardEffects`, `CardTargets`, `CardPlayers`, `CardTriggers`, `CardActivated`, `CardStatics` | conversion and printing of effects and abilities |
| `CardText` | statements, `parse` and `unparse`; cards written line by line; properties |
| `MCAddCard`, `MCScryfallClient`, `MCGrindLoop`, `MCConceptGrind`, `MCGrind`, `MCPhaseLoop`, `MCCardText` | the instances that TLC checks |

### The state of AddCard

`tree` is the working tree and `head` the tree of the last commit. A tree is
what the gates can see of the files:

- `rt`, the cards that round-trip under the grammar code, and `green`, those that
  also pass their generated tests. A generated test demands that the unparsed
  text equals the card's text, which the corpus check does not; so `green` is a
  part of `rt`. This pair is all that `AddCard` sees of the grammar crate, which it
  need not know, for an agent's or a developer's edit replaces the pair by any other.
- `tests`, the cards with registered generated tests.
- `report`, the contents of `corpus_status.json`, with the cards it knows and the
  cards that pass; and `tracked`, the contents of `corpus_sets.json`.

`published` is what the Scryfall client lists. `pc` is the place in
`run_with_sink` and `run_one_iteration`; each of its values names the step that
is about to run (`find`, `writeTests`, `focused`, ..., `push`, and `error`,
`advance`, `down`). `binary` is the grammar
linked into the running session, as the cards that round-trip under it: every corpus
run that the session spawns is built from the working tree first, but an advance
computes and compares its report in the process of the session
(`corpus_cmd.rs:145`, `:249`). It is the code of the working tree at the start for a
session that `cargo xtask` starts over a clean tree, and any code for one over a
dirty tree, since `grind` runs its sessions in a process built earlier; it is kept only
for sessions that may advance. The other variables are the locals of the session.
`card` outlives a `find` in the model only until the session ends; `iter` and
`focusedTries` are counted only under a cap, which keeps uncapped sessions
finite and changes nothing, as the code compares them with the cap only. `commits` and
`commitsSinceStop` are for two properties only, and counted where `CountCommits` says so.

### The actions of AddCard

One action per step of an iteration, with its outcomes as disjuncts. In the
order of the code: `StartSession` (options, clean-tree check, starting set),
`ReachMaxIterations`, `FindFailing`, `DryRunStop`, the three ends of a search
that finds nothing (`AllPassStops`, `AllPassPinned`, `AllPassAdvances`), the four
outcomes of an advance (`AdvanceNewSet`, `AdvanceTrackedSet`, `AdvanceNoMoreSets`,
`AdvanceFails`, of which the last also stands for a report that the session's build takes
for a regression), `WriteGeneratedTests`, the focused run and its second run
(`FocusedAlreadyPass`, `RefocusPasses`, `FocusedFails`), the focused repair loop
(`FocusedRepair`, `FocusedValidation`, `FocusedGivesUp`), the audit with its
repair, tier 2 with its repair, `CorpusGate`, `GitCommit` (which runs the corpus
again before it adds and commits), `GitPush`. `StepFails` is the `?` at every
step, with the half-done working trees the step may leave (`LeftBehind`);
`SupervisorRepairs` and `NoSupervisorLeft` are what the loop does then; `Crash`
kills the session anywhere. Between and during sessions, Scryfall publishes
cards, the user requests a stop, and between sessions the developer edits code,
runs `cargo xtask corpus` or throws the working tree away. An iteration can be left
with nothing to commit (`GitCommitNoChanges`) only if Scryfall withdraws its card,
as `CommitsNeverEmpty` shows.

A test command can fail for any reason but succeeds only if its tests pass. The
audit's verdict is open. The working tree a session starts from is any that a
history of sessions and edits can produce.

### ScryfallClient

One set and the processes that load it. `listing` and `released` are what
Scryfall gives of the set, `cache` the file under `.cache/scryfall`, `today` the
date of `is_fresh` and `version` the cache schema of the installed program. The
other variables are the locals of `load_set` in each process: the place, the
attempts of the request under way, the pages and cards received, the release
date. A load is `ServeFresh`, or `StartFetch` (also the forced refresh),
`FetchMeta`, one `FetchPage` per page, `RetryRequest` for an answer with status
429, `RequestFails`, the write in two steps because `fs::write` truncates first,
and `FallBack` to whatever the file holds. Between any two of them Scryfall
publishes or drops cards or announces the release date, a day passes, another
process takes a step, or the process crashes.

Cards are numbers in the order in which Scryfall sorts them, so that a page is a
range of ranks, cut anew for every request. Three variables are there for the
properties: `atStart`, the listing when a load began; `withdrawn`, whether
Scryfall ever dropped a card; and `settled`, what was served when last no load
was under way.

### GrindLoop

`head` is the set of experiments in effect in the code of `HEAD`, `committed`
those with a commit, `tree` what `git status` and `git diff` say of the working
tree, `file` the state file. `wrapper` is the code that runs: the experiments in
effect when the process was built by `cargo xtask`. The others are the locals of
`run_grind_loop`, which has one action per step: `StartLoop` or `Resume`,
`StartBatch`, `RunBatch`, `Review`, the four things that may follow a verdict
(`KeepActive`, `DropActive`, `RevertActive` with `Revalidate`), `NoProposal` or
`ApplyExperiment` with `ValidateExperiment` and its commit (`CommitExperiment`,
`NothingToCommit`), `SaveState`, `Reexec`. `Die` is every `?` and every
interruption; after it the developer may clean up the tree and resume.

The model has one loop directory, so that a loop is started once and resumed
ever after. The number of the batch is counted only under `--max-batches`, which
is all it is compared with. The state file is written in one step. `verdict`,
`moved` and `lost` are for the properties only: the last verdict on each
experiment, the experiments that were committed or reverted since the state file
was last written, and those of loops that died in between. The properties speak of
all other experiments, also after such a death.

### ConceptGrind

A tree is what the gates see: the rules of `grammar.pest` and a number for its
contents, the rules that each concept file owns with its dependencies, the
concepts with a valid file and a passing fixture (`green`), those marked so
(`marked`), the version of `prop.proptest-regressions` (`seeds`), which holds the
failures that `cargo test` replays, with the versions of it under which the tests
pass (`replays`), and whether some path outside of the commit paths is changed
(`stray`). `head` is the last commit, `index` the version of `grammar.pest` in the
index, the one file whose staging matters (another staged file only leads to a
refusal, and an agent that runs `git add` itself is not modelled), and
`persisted` the rules with a blocked decision in the logs of earlier sessions.
Shared rules are never a gap, but a concept may own one, and then it counts.

The other variables are the locals of `run_grind`. An iteration is `SelectGap`,
then one of the ways to the artifacts: the combined agent (`CombinedSucceeds`, or
`CombinedFallsBack` with its rollback), the boundary agent (`BoundaryBlocks`,
`BoundaryOwns`), the fast path (`FastPathWrites`, `FastPathSucceeds`, or
`FastPathFallsBack` with its snapshots), `PatchAgent`. Then come `GatesPass` with
`Repair`, a quality contract with a repair of its own before the map and again
before the commit (`ContractHolds`, `ContractRepaired`), `UpdateMaturity`,
`Close`, `Commit` or `NothingToCommit`, `Push`. A commit first puts the seeds of the last
commit back (`Cleaned`, `concept.rs:8955`), after the last gate; `CommitsAreGated` says what
is left of the gates: the tests passed with the seeds of the tree, the commit has
those of the commit before, and all else is as tested. The other file the cleanup is
for, `SEMANTIC_LOWERING_PLAN.md`, is tracked and stays. `Die` is an error or a kill at
any place. An agent leaves any tree, also the boundary agent, which only its
prompt tells not to edit; `obeyed` says whether it did, and is for the properties
only. Gates may fail for any reason and succeed only on a tree that deserves it.

The user may ask to stop at any time and is heard at the top of an iteration, so
that `StopSession` needs no guard but the place. Each step that writes one of
the log files has it written whole.

### Grind

The tracked files are a record: `rules`, how many rules `grammar.pest` has; `rt`,
the cards that round-trip; `sound`, whether `cargo test` and the AST coverage would
pass; `status`, the passing cards of `corpus_status.json`. Untracked files are kept
apart, because `git reset --hard` leaves them: `stray` are those of agents, which may
break a gate, and `logs` says whether `.grind` holds logs that git does not know.
The locals are `iteration`, `current` (theme), `exhausted`, `states` (one
`ThemeState` per theme), `attempts` and `phase` (whose failure `try_repair` works
on). `ending` is how the refactor phase ended.

The refactor phase is `PhaseIsQuiet`, `SelectTheme`, `DryRun`, `KeepTheme`,
`ReachCeiling`; one iteration the three agent stages (an agent edits in each),
`GatesPass` or `GatesFail`, `CommitIteration` or `NoChanges`; a failure
`RepairAgent` with its gates, `CommitRepair` or `DiscardIteration`.
`CardPhaseEnds` and `CardPhaseFails` are a whole add-card session each, taken as one
step of `Mainline`: its commits are honest and lose no passing card, and it may leave
any work behind when it fails. Nothing more is assumed of it: the gates of add-card are
`xtask test --tier 2` and the corpus (`add_card.rs:779`, `:859`), so that its commits
may fail `cargo test` or the AST coverage, and `CommitsPassTheirGates` speaks of
grind's own commits, which must pass even after such a one. Losing no card takes it
that Scryfall withdraws none while grind runs; a dry run commits nothing.
Agents may edit everything but `corpus_status.json`, and do not commit. `CleanUp`
and `Start` are the developer between two runs.

### PhaseLoop

A version of the code says for each concept which AST the parser gives for its
examples (or that there are none, or that one is not parsed), which AST its snapshot
has, whether it is grammar-green; the variants of `enum Statement`; whether `xtask`
builds. From these follow the statuses of `concept-phase2-map` (`Status`) and the
candidate of a session (`Candidate`). `tampered` says that the working tree has
another `concept.rs` than the last commit: with it, any verdict of the concept
commands, which are built from that file, is possible.

A session is `StartSession`, then per iteration `AllPass`, `MaxIterationsReached`,
`DryRun`, `WriteSnapshot` (the fast path) or `AskAgent`, `AgentAnswers`,
`GatesPass` (which updates the snapshot first) or `AskAgentAgain`, and
`CommitConcept`, `NothingToCommit` or `SkipCommit`; `PushFails` ends it. A loop
runs such sessions as its batches: `StartLoop`, `MaxBatchesReached`, `StartBatch`,
`Review` with the stop reasons of the code, and a phase 1 batch as one step. `Poll`
and `PollFails` are the watcher, `Fail` every `?` and every kill, `Develop` the
developer while nothing runs. Nobody else edits the tree while a loop runs; an agent
and its edits are one step. The counters of the fuses are counted only when their
fuse is set, which is all they are compared with, and a session that is part of a
batch counts its commits when it makes them. `rounds` counts the batches of a cycle
for the properties.

### The grammar

`Peg` has pest's expressions: sequence, ordered choice that is never revisited,
greedy repetition, lookahead. Each rule of `grammar.pest` is a definition of the
same name that is such an expression; `Match` runs it on a text and leaves the pairs
that pest would. Each `..._from_pair` of `parse.rs` and each `write_...` and
`..._name` of `unparse.rs` is an operator of the same name, the former from a pair to
a tree (or to `Internal`, the error of the code for a pair it has no tree for), the
latter from a tree to words. A tree is a variant of `ast.rs` with its fields in the
order of the type. `Texts` derives texts from an expression as if its choices were
free, so that the model-checker also tries the texts that ordered choice hides.

A text is a sequence of words and marks. What is abstracted: upper and lower case
(but for proper names, which the grammar tells by it), spaces, the two articles (one
word), the lexicons, cut to two or three words each, names of several words (one
word), and numerals, which all fit `u32`. Rules that match a prefix of a word are
written for whole words. Enumerated types with one spelling have one table, used for
reading and printing, where the code has two functions; terminal rules share the
converter `Term`. Left out are `parse_pest_rule` with the rule table that `build.rs`
makes, and the `ParseError` texts.

The machine of `CardText` writes a card line by line; with every line the whole text
is parsed, printed and parsed again. All 199 texts of `tests/generated` are texts of
the model: 192 of them are accepted and survive print and parse in it, six use words
that the cut lexicons lack (Aspect of Wolf, Drain Life, Lich, Personal Incarnation,
Terror, The Hive), and Psionic Blast needs two numbers that the model does not tell
apart.

## Runs

| Run | Instance | Question |
|---|---|---|
| `addcard_core` | two cards in two sets, one tracked; a default session with auto-advance and supervisor, a capped one, pinned, over a dirty tree, and a dry run with auto-advance and supervisor, whose process may be built from any code; fairness | Are commits honest, tested, supporting their card, and strict gains? Does the orchestrator implement `Mainline`, advances by another build included? Does a dry run keep out of the repository, whatever it runs into? Does every session end? |
| `addcard_history` | both cards in one set, the older of two sets tracked last; cards may be withdrawn; commit counts; sessions with a supervisor, and without one: a capped session, one over a dirty tree | How late may a stop take effect? Are the cap and the push kept without a supervisor? Does a good end leave work uncommitted? Does a card with a committed test ever regress? |
| `scryfall_listing` | two processes, three cards, pages of one card, two attempts, two schema versions, up to the first withdrawal | Does a fetch miss a card? Does what is served go back? |
| `grind_loop` | three experiments, no cap or two batches; fairness | Does each batch run the code it is judged by? Is every experiment accounted for? Does a capped loop end? |
| `concept_grind` | two rules to map, a shared one, two concepts, trees an agent may leave, one with a failing test and one whose failing seed was removed; sessions with two iterations and a repair, without commits, pinned over a dirty tree, dry | Does a commit hold what the gates saw, and improve the map? Does a fast path leave the grammar alone? Is a blocked rule left alone? Where do agents start from? |
| `grind` | two themes, one of them automatic, one card, two rule counts; default, fixed, dirty and dry command lines; a repair attempt | Has what grind commits passed its gates, even over add-card commits that fail the tests? Does no commit lose a card? Where does work start from? Do the budgets of the themes end the phase below its ceiling? |
| `phase_loop` | two concepts, two ASTs, eleven versions of the code; sessions by themselves and loops with each fuse and with none; fairness | Does a commit hold what the gates saw? Does the loop decide on what is committed? How long is a cycle? Does a loop with a fuse end? |
| `card_text` | texts of all rules with two departures from their default text, default lines in pairs, two longer cards | Does every tree survive print and parse, but for the forms named? Is there a tree for every accepted text? Are lines read alone? |

Two cards are enough to tell the card of the iteration from a card supported
before, in the same set and in another; each can be published or not, known to
the report or not, tested or not, round-tripping or not, independently in the
working tree and in the last commit. Attempts are bounded by 0 and 1, which
covers no attempt, a last attempt, and (0 for "unbounded") the default.
`addcard_history` and `addcard_spin` track the older set last, the state
`corpus-add-set` of an older set leaves. In `scryfall_listing`, three cards on pages of
one are the fewest with which a second request follows while a card is still
unpublished: two are listed, and the third, published between the requests, gives the
boundary that moves. States after a withdrawal are not explored (a constraint of the
run), since its invariants that speak of listings promise nothing there. Two processes give every overlap
of two writes; they are interchangeable, so the run uses their symmetry. Three
experiments let one be kept, one be on trial and one be proposed; two batches
are the fewest after which a capped loop both goes on and stops. In
`concept_grind` the trees an agent may leave have the selected rule owned, with
and without a change of the grammar, and each of the things a gate is there for
once; the fast path makes more of them; two rules make two commits in a row, in
one session or in two. In `grind` nine iterations are one more than the budgets of
two themes allow, so that the ceiling would be reached if a budget were not kept;
two commits and two no-ops per theme tell a streak from a total; one of the two rule
counts improves on the other. In `phase_loop` the versions have nothing parsed, one
or both concepts parsed with and without snapshots, a forbidden AST, a changed one,
and one version for each thing a gate or a stop reason is there for; a repeat count
of two and batches of one and two tell a repeated concept from a batch. In
`card_text` one departure is any other alternative, word, option or repetition of a
rule, and two of them reach every pair of independent choices within a statement;
217 sets of lines give 16986 texts. The second line of a pair is one of the fifteen
that are printed on the line of the first. Deadlock is checked in every run but the
two about card text, where a card ends with its last line.

Four runs end with a counterexample, each a statement of the repository that the
code does not keep:

- `addcard_spin`: with an older set tracked last, auto-advance goes round for
  ever. This is the one violated liveness property; the fairness is that of
  `addcard_core`.
- `addcard_advance`: a session commits the card that covers its set and advances; the
  corpus run of the advance, in the process of the session, still has the grammar
  of its start, takes the new card for a regression and fails. The session is
  surfaced to a human although every card passes, and leaves the longer
  `corpus_sets.json` in the working tree, over which the next one does not start.
- `phase_watch`: the watcher of a phase loop polls with a freshly built `xtask`; one
  poll while an agent's edit does not build ends it, without a message.
- `card_text_round_trip`: a tree that the parser produces is printed as a text it
  refuses.

### Where print and parse disagree

`DriftsHere` names the forms of tree that do not survive; `RoundTripUnlessDrift`
says that these, and no other tree of the instance, do not. They are:

- "return target card to ..." without a type and a zone of origin loses "card";
- adjacent assignments of the same damage are printed as one group;
- more than two actions "the same way", or after "unless you pay ... do", are
  printed with commas, where the grammar takes "and";
- the phrase of a payment failure that taps mana sources, a lone "ante the top card of
  your library" and the phrase "sacrifice creatures" get a period or a subject that
  the grammar does not take;
- a phrase that is a damage effect of a trigger is read again as a damage event, and
  so is its first sentence when other effects follow (`unparse.rs:1111` adds "the");
- "deals 2 damage to you and you gain 2 life" in a triggered ability is printed
  without "and" (`unparse.rs:2813-2832`);
- a text of several statements that starts with a modal choice, whose modes must end
  a text;
- "in a ante", printed "in the ante" (`unparse.rs:1852`);
- a statement that continues the previous sentence (`unparse.rs:835`), after a line
  without a period: the two lines are printed as one.

`SaysMore` names the pairs for which an accepted text has no tree, mostly because a
field of the tree is narrower than the rule: "permanent" where the tree has a
permanent type, two types where it has one, an amount of another kind. Two texts
that their rules describe are hidden by an alternative in front of them: "look at
target player's hand, then shuffle" and "any target of an opponent's choice".
Some trees lose what the text said, and so survive: the object kind of a blocking
capacity, the "you may" of tapping a chosen permanent in an activated ability
(`parse.rs:5756-5759`), the later types of a source with several.

### Seen while modelling

Without a run of its own. Of add-card: the stop request is read only after a commit
and after a search that finds nothing (`add_card.rs:134`, `:175`), so that when the
push fails, the supervisor's `continue` goes on to the next card; a session begins
with the newest set that has failures and never looks back to an older one
(`add_card.rs:140`); an iteration whose push fails does not count against
`--max-iterations`; after a supervisor's edit, an advance saves a report of
the code before the edit, with which the next gates compare: it may count cards as passing that the edit broke,
which the next gate then refuses, and as failing some that the edit made pass, but it
never forgets a card that the last commit supports (`ImplementsMainline`); a dry run with an error in its first step starts the supervisor
agent, and one over an exhausted set advances and rewrites both corpus files; the
search reports that all cards pass over listed cards the report does not know.

Of the Scryfall client: freshness compares the release date with today and not with
the day of the fetch (`cache.rs:33-35`), so that a listing fetched in spoiler season
becomes fresh thirty days after the release without being fetched again, and can
lack cards for good; the stale fallback ignores the schema version.

Of grind: with a fixed theme `selected` is never called, so that the first commit
always counts as low-value (`grind.rs:332-339`); the refactor phase never looks at
the stop request; a run may leave untracked logs, after which the next start without
`--allow-dirty` is refused; files that a discarded iteration left are committed with
a later one, and so are logs under `.grind`, for `refactor-hotspot` stages
everything (`refactor_hotspot.rs:1388-1391`): an iteration without a change can
count as committed.

Of grind-loop: a loop interrupted between the commit of an experiment and the write
of its state file resumes with the experiment in effect and nobody to judge or
revert it (`concept.rs:4486`); only the experiments of that batch are affected, as
`ExperimentsAccountedFor` says, and without its `moved` and `lost` TLC finds such a batch;
an experiment that only adds files is invisible to `git diff`, gets
no commit, and its files stop the next batch.

Of concept-grind: with
`--no-commit` the rollback of a combined agent also throws away what earlier
iterations of the session made, and after one of them has changed
`grammar.pest` no fast path can succeed any more; with `--allow-dirty` and a
staged `grammar.pest`, a fast-path commit has a grammar diff, because the check
against it (`concept.rs:9096`) compares with the index; when nothing is left to
map, a new session fails in its selector contract, and the reason
`NoUnmappedRulesRemain` is given only if that happens later; a clone without the
logs of earlier sessions cannot start one; the gates test the fixture of the
selected concept only, so that a commit may break the fixture of another; a seed that the session's own test run
added is dropped before the commit, and a seed that an agent removed comes back, without
another test run (`concept.rs:8955-8959`). These
are why the properties speak of sessions without `--allow-dirty` and with
commits.

Of phase 2: `concept.rs` is taken back from the last commit after the gates
(`concept.rs:8877-8880`), so that a commit may be a tree that no gate saw; a missing
snapshot whose AST violates the contract is an error without a repair agent, and
blocks Phase 2 for ever; the strict mode never counts a rejected repair
(`concept.rs:3338-3398`); the gates run no `cargo test` and look at one concept.

### Fairness

`FairSpec` of `AddCard` is weak fairness of the session as a whole: some step of
a session that is not down is eventually taken. The code blocks only in commands
and agents it waits for, so this says that those return. Nothing is assumed of
the outcome of a step, of the user, the developer or Scryfall. Under it a session
ends because failed iterations use up the supervisor, and successful ones reset
it but use up the cards, by `StrictProgress`. The focused repair loop must be
capped: with the default of 0 it goes on as long as the agent does not find the
fix. `FairSpec` of `GrindLoop` says the same of a running loop, of which dying is
one possible step. `FairSpec` of `PhaseLoop` says it of the session, the loop and their
errors together. `Grind` has no fairness: that its refactor phase ends is stated as
the safety property `BudgetsEndThePhase`.

## Proofs

All for every value of the constants that satisfies the named assumptions of the
module.

| Module | Theorem | Statement |
|---|---|---|
| `AddCardProofs` | `TypeCorrect` | `Spec => []TypeOK` |
| | `CommittedReportHonest` | `Spec => []HeadHonest` |
| | `CommittedTestsPass` | `Spec => []HeadGated` |
| | `TestedCardsKeepPassing` | `Spec => TestedNeverRegresses` |
| | `CommitsSupportTheirCard` | `Spec => CommitSupportsCard` |
| | `EveryCommitGains` | `~Withdrawals` implies `Spec => StrictProgress` |
| | `SessionsKeepMainline` | `~Withdrawals` implies `Spec => ImplementsMainline` |
| | `CommitsNeverEmpty` | `~Withdrawals` implies `Spec => AlwaysSomethingToCommit` |
| | `GoodEndsAreCommitted` | `Spec => SuccessIsCommitted` |
| `AddCardSessionProofs` | `StopsInTime` | `Spec => []StopIsBounded` |
| | `CapIsKept` | `Spec => []CapWithoutSupervisor` |
| | `DryRunsCommitNothing` | `Spec => DryRunKeepsCommits` |
| | `SessionsRunDown` | without withdrawals, with finitely many cards and sets in order: `Spec => SessionRunsDown` |
| `ScryfallProofs` | `ClientTypes` | `Spec => []TypeOK` |
| | `FetchesMissNothing` | `Spec => []FetchMissesNothing` |
| | `ServedNeverFallsBehind` | `Spec => []ServedNeverBehind` |
| `GrindLoopProofs` | `LoopTypes` | `Spec => []TypeOK` |
| | `BatchesRunCurrentWrapper` | `Spec => []WrapperIsCurrent` |
| | `ExperimentsAreAccountedFor` | `Spec => []ExperimentsAccountedFor` |
| | `TrialsAreInEffect` | `Spec => []TrialIsInEffect` |
| | `CappedLoopsRunDown` | `Spec => LoopRunsDown` |
| `ConceptGrindProofs` | `GrindTypes` | `Spec => []TypeOK` |
| | `CommitsGated` | `Spec => CommitsAreGated` |
| | `CommitsImprove` | `Spec => CommitsImproveMap` |
| | `FastPathPest` | `Spec => FastPathKeepsPest` |
| | `BlockedRulesAreLeft` | `Spec => BlockedNeverSelected` |
| | `AgentsStart` | `Spec => []AgentsStartFromHead` |
| | `SessionsRunDown` | `Spec => SessionRunsDown` |
| `GrindProofs` | `GrindTypes` | `Spec => []TypeOK` |
| | `CommitsArePassed` | `Spec => CommitsPassTheirGates` |
| | `PassingIsKept` | `Spec => PassingNeverDrops` |
| | `PhasesStartFromHead` | `Spec => []StartsFromHead` |
| | `BudgetsAreKept` | `Spec => []ThemesKeepTheirBudgets` |
| | `PhaseEndsByItself` | `Spec => []BudgetsEndThePhase` |
| | `GrindKeepsMainline` | `Spec => ImplementsMainline` |
| | `GrindRunsDown` | `Spec => RunsDown` |
| `PhaseLoopProofs` | `LoopTypes` | `Spec => []TypeOK` |
| | `GatesGuardCommits` | `Spec => CommitsAreGreen` |
| | `LoopWeighsCommits` | `Spec => []ReviewsSeeHead` |
| | `CyclesEnd` | `Spec => []CyclesAreShort` |
| | `PhaseLoopRunsDown` | `Spec => PhaseRunsDown` |
| `DescentProofs` | `MeasuresEnd` | the order `Below` on `Tuples(n)` is well-founded |

**AddCard.** `HeadHonest` is inductive with the types: only `GitCommit` changes
`head`, and it commits the tree on which it has just run the corpus. The others
need more.

- `GatedInv`: from tier 2 to the commit all registered tests pass in the working
  tree, and no step of that stretch edits code (`GatedStretch`); from step 5 on the
  card's tests are registered; the working tree has all committed tests, since
  nothing but throwing it away removes one (`TestsKept`). The last conjunct is
  what makes a test outlive failed sessions, and with it `TestedNeverRegresses`.
- `ProgressInv`: no report knows a card that the next corpus run would not cover,
  so that `diff` forgets no pass; what the last commit supports, the working tree
  records; and the card of the iteration is one the commit does not support.
  The first part needs `~Withdrawals`, which is why the theorems do: with
  withdrawals TLC finds a commit that supports less.

Each invariant is shown by lemmas on what a step can make of the working tree
(`TreeSteps`), of the last commit (`HeadSteps`) and of the place in the iteration
(`RegisteredSteps`, `WorkingSteps`). An advance keeps what the working tree records
although it computes its report with the grammar of another build, because a report
that loses a card of the one before is not saved: whatever `binary` is, nothing that
was recorded is forgotten.

`SettledInv` is for the good ends: when a session without a supervisor is between
two iterations, and began with a clean tree, code and tests of the working tree
are the last commit's, because only an iteration changes them and the only way out
of one that is not the commit is the error that ends the session. It needs no
assumption on Scryfall. `CommitsNeverEmpty` follows from the invariants above: the
report that the corpus run before the commit saves counts the card of the
iteration, the committed one does not. `DryRunInv` keeps a dry run in the places
before the first test is written.

**Mainline.** An honest report in the last commit, no support lost, and a report in the
working tree that records at least what is committed. The invariants of `AddCard` and
`HeadInv` of `Grind` say just this, so both implement it; `SessionsAreMainlineSteps` says
that what `Grind` lets an add-card session do, unless it is a dry run, is a step of the
mainline, no more and no less. A session is many steps of `AddCard`, and steps of the
mainline compose, since each says that a set only grows and what holds after it. So
`Grind`'s coarse step rests on the theorem about `AddCard`, and on nothing that add-card
does not check.

**Measures.** For each loop there is a tuple of natural numbers, `Remaining`, such
that every step of the loop that does not end it makes the tuple smaller: in the
first component that changes it falls. `MeasuresEnd` says that nothing does that
for ever. So, under the conditions below, no loop can run on, whatever agents and
gates do; that it takes its next step at all is fairness, and the last step from
there to `~>` is left to TLC. What the components are says why each loop ends:

- `AddCard`: the cards not supported, a commit that is not pushed, the sets still to
  come, supervisor attempts, the place in the iteration, focused repairs. A commit
  resets the attempts but supports one more card (`CommitGains`); an advance resets
  them but leaves fewer sets. The second needs the tracked sets to be in the order of
  their release, and `addcard_spin` shows the session that goes round if they are not;
  the order is kept because an advance appends the next set (`OrderInv`). The first needs
  `~Withdrawals`. The focused repairs must be capped, for with 0, which is the
  default, that loop is bounded by nothing; the property says so. A step of
  the world leaves the measure as it is.
- `ConceptGrind`, `Grind`: iterations, of which both have a ceiling, the place in one,
  and repairs. `Grind` has its phases in front; a failing add-card session is
  entered again only by using up one of the repairs of its phase.
- `GrindLoop`: batches and the place in one. `CountInv` follows the number of the batch
  through the state file, from which the program that replaces this one takes it.
- `PhaseLoop`: with a limit on the batches of Phase 2, those batches; with one on Phase 1 only,
  its batches, and then the concepts left to turn green in the cycle, by `LoopInv`.
  `FuseInv` relates the counts of the session under way to those of the loop.

**Counts of commits.** A step is one of a few moves of the session (`Moves`), and the
counts follow from them. `StopInv`: since the stop request there are at most as
many commits as supervisor attempts used up, and one more between a commit and its
push. An attempt is used up by every retry; the two moves that give the attempts
back cannot follow such a commit, since a push hears the request and the session
only advances to another set if nobody has asked it to stop or nothing has been
committed since. `CapInv`: without attempts no iteration is retried, so that a
session has as many commits as iterations, and one more between commit and push.

**ScryfallClient.** `FetchInv` says what a half-done fetch has: every card of
`atStart` is among the cards received or still behind the pages received. It is
kept because publishing only moves a card towards the end of the listing
(`RankGrows`), a page takes every card up to its end (`PageCovers`), and the last
page leaves none behind (`LastPage`); these are facts about cardinalities of
ranks. `ServedInv` adds that the cache, if it is readable, holds what was served
last, and that a load under way began with everything settled listed.

**GrindLoop.** `WrapperInv` says where the running program may differ from `HEAD`:
only after a revert or a commit, with `reexec` set or the last batch done.
`TrialInv` follows the experiments through a batch: before the verdict the one on
trial is in the state file too, between the verdict and the next proposal every
experiment in effect has been kept, and a proposal has no commit before it is
applied.

**ConceptGrind.** `GrindInv` has four parts beside the types. `GatesInv`: from the
gates to the commit the tree has passed them, and what is about to be committed
has closed its gap. `HeadInv`: where a session that began clean stands on the
last commit, with the map "before" made of it; it must follow the snapshot
through the fast path and the rollback of the combined agent. `IndexInv`: such a
session stages only what it commits, so that comparing with the index compares
with the last commit. `BlockInv`: what is in the logs is in `blocked_targets`.

**Grind.** That the phase ends by itself is a count over all themes: an iteration is
either one of an exhausted theme, of which there are at most
(commits + repairs - 1) times the no-op budget, or one that the counters of the
current theme have recorded. The invariant says
`iterations so far <= |exhausted| * bound + Used(current)`; every step of the phase
either raises the second summand by one or moves the theme into `exhausted`, which
only grows. The other theorems follow the place in the iteration: from the gates to
the commit the tree has passed the gates and nothing untracked breaks one, wherever the
iteration started from, and a discarded iteration leaves the tracked files of
the last commit.

**PhaseLoop.** `LoopInv`: the tree is the last commit when a session of a loop
begins, in a review and before the later batches of a cycle; and
`rounds <= before.green <= |Concepts|`. A review that lets the cycle go on has found
more green concepts than `before` had, which is why the number of rounds stays below
that of green concepts.

Only model-checked are the three liveness properties (`SessionEventuallyEnds`,
`CappedLoopEnds`, `FusedLoopEnds`), since fairness and `ENABLED` are beyond the prover:
the measures are proved and `~>` is not. Nothing is proved about card text: parsing,
printing and deriving texts are recursive over expressions and trees, and both
`RECURSIVE` operators and induction over data are beyond it too. The properties of
the four violated runs are false, and so are not proved either. The other way
round, `ImplementsMainline` of `Grind`, `AlwaysSomethingToCommit` and the `RunsDown` properties
are proved and not part of a run.

## Not modelled

Everything an agent is told and prints, logs, progress numbers, formatting, file
names. The lowering of `mtg-semantic`. The audit's and the reports' text analyses,
the catalogue commands, the console sink: they read files and print a report, and
keep no state. Of the terminal UI only the stop request. Argument parsing.

## Plan

1. Done: corpus report, add-card, its abstract specification and its proofs.
2. Done: the Scryfall client's loads of one set, and their proofs.
3. Done: concept-grind-loop over crashes and `--resume`, and its proofs.
4. Done: concept-grind with its agents, rollbacks and gates, and its proofs.
5. Done: grind with refactor-hotspot, phase 2 and the phase loop, and their proofs.
6. Done: the grammar, its conversion and the unparser, and where they disagree.
7. Done: the proofs of `StopIsBounded`, `CapWithoutSupervisor` and `SuccessIsCommitted`;
   the mainline, and the measures of the loops.
8. Corpus commands as processes of their own: torn and concurrent writes,
   `--update`, add-set, advance and refresh.
9. Terminal UI: worker, channel, stop flag and stop file, event log and viewer.
10. Pure algorithms against reference definitions: text normalization, dates,
   the two slugs, mana costs, the grammar audit, the rules split.

8 to 10 join the instance of a component they interact with.

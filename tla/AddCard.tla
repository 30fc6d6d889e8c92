------------------------------- MODULE AddCard -------------------------------
(***************************************************************************)
(* The add-card orchestrator (xtask/src/add_card.rs): a session takes one  *)
(* failing card after another, lets a coding agent extend the grammar,     *)
(* sends the result through the gates, commits and pushes it, and advances *)
(* to the next set when the current one is covered.                        *)
(*                                                                         *)
(* The working tree is one record: the grammar code, as the cards that     *)
(* round-trip under it ("rt") and the cards whose generated tests pass     *)
(* ("green": stricter, the unparsed text must equal the card's text); the  *)
(* cards with registered generated tests; corpus_status.json; and          *)
(* corpus_sets.json.  "head" is the tree of the last commit.               *)
(*                                                                         *)
(* The coding agent and the developer's own edits may turn the code into   *)
(* any other code.  A command the orchestrator spawns may fail at any time *)
(* for reasons outside the model, but a test command succeeds only if the  *)
(* tests it runs pass.  A spawned `cargo xtask corpus` is built from the   *)
(* working tree; the advance computes its report within the process of     *)
(* the session, whose grammar is the one that process was built from.      *)
(***************************************************************************)
EXTENDS CorpusReport, Descent, FiniteSets

CONSTANTS
    Listing,      \* the cards in the order Scryfall lists them (order=name)
    Options,      \* the command lines a session may be started with
    NoSet,        \* --set was not given
    NoCard,       \* no card picked yet
    InitTracked,  \* corpus_sets.json at the outset
    Withdrawals,  \* TRUE: Scryfall may also drop a card from a listing
    CountCommits  \* bound: FALSE leaves out the counts of commits

Code == {c \in [rt : SUBSET Parseable, green : SUBSET Parseable] :
            c.green \subseteq c.rt}

Trees == [rt : SUBSET Parseable, green : SUBSET Parseable, tests : SUBSET Cards,
          report : CorpusReports, tracked : Seq(Sets) \ {<<>>}]

OptionRecords == [set : Sets \cup {NoSet}, maxIterations : Nat, supervisorAttempts : Nat,
                  focusedRepairAttempts : Nat, dryRun : BOOLEAN, allowDirty : BOOLEAN]

ASSUME AddCardAssumption ==
    /\ Listing \in Seq(Cards)
    /\ Options \subseteq OptionRecords
    /\ NoSet \notin Sets
    /\ NoCard \notin Cards
    /\ InitTracked \in Seq(Sets) \ {<<>>}
    /\ Withdrawals \in BOOLEAN
    /\ CountCommits \in BOOLEAN

VARIABLES
    published,    \* the cards the Scryfall client returns
    tree,         \* the working tree
    head,         \* the committed tree
    pushed,       \* whether the last commit is pushed
    pc,           \* the orchestrator's place in run_with_sink / run_one_iteration
    opts,         \* Options of the session
    binary,       \* the cards that round-trip under the grammar linked into the process;
                  \* kept only if the session may advance, which is what needs it
    currentSet,   \* current_set
    card,         \* the card of the iteration
    iter,         \* committed iterations; counted only when they are capped
    supervised,   \* supervisor_attempts
    focusedTries, \* focused_attempt; counted only when it is capped
    stop,         \* sink.stop_requested()
    endReason,    \* SessionEndReason of the last session
    commits,          \* for properties: the commits of the current or last session
    commitsSinceStop  \* for properties: those made since the stop was requested

tally == <<commits, commitsSinceStop>>
files == <<tree, head, pushed, commits, commitsSinceStop>>
session == <<pc, opts, binary, currentSet, card, iter, supervised, focusedTries, endReason>>
vars == <<published, tree, head, pushed, pc, opts, binary, currentSet, card, iter,
          supervised, focusedTries, stop, endReason, commits, commitsSinceStop>>

IterationSteps ==
    {"find", "writeTests", "focused", "refocus", "repair", "validate", "audit",
     "generalize", "genFocused", "genAudit", "tier2", "downstream", "downFocused",
     "downTier2", "corpus", "commit", "push"}

Steps == IterationSteps \cup {"down", "error", "advance"}

Successes == {"AllPass", "DryRunStop", "MaxIterationsReached", "StopRequested",
              "CorpusComplete"}

EndReasons == Successes \cup {"none", "SurfacedToHuman", "killed"}

-----------------------------------------------------------------------------
\* What a corpus run computes in a working tree, and what it leaves: by a program
\* with the grammar "rt", and as a `cargo xtask corpus` that cargo builds first.

ReportUnder(t, rt) == BuildReport(CorpusCards(published, t.tracked), rt)

FreshReport(t) == ReportUnder(t, t.rt)

\* Mutation: corpus always overwrites, as with --update.
RegressesNever(t) == FALSE

Regresses(t) == NewFailures(t.report, FreshReport(t)) # {}

\* Mutation: the report is computed and printed but not saved.
AfterCorpusUnsaved(t) == t

AfterCorpus(t) == [t EXCEPT !.report = FreshReport(t)]

WithCode(t, c) == [t EXCEPT !.rt = c.rt, !.green = c.green]

\* Mutation: the test files are written but not registered.
WithTestsUnregistered(t) == t

WithTests(t) == [t EXCEPT !.tests = @ \cup {card}]

\* Mutation: the set list is rewritten without its first entry.
TrackingDropsFirst(t, set) == [t EXCEPT !.tracked = Tail(@)]

Tracking(t, set) == [t EXCEPT !.tracked = Append(@, set)]

\* A focused run and a tier-2 run can only succeed on passing tests.
FocusedCanPass == card \in tree.green

\* Mutation: tier 2 runs the tests of the current card only.
Tier2CanPassOwnTests == card \in tree.green

Tier2CanPass == tree.tests \subseteq tree.green

Init ==
    /\ published \in SUBSET Cards
    /\ \E c \in Code, tests \in SUBSET Cards :
         /\ tests \subseteq c.green
         /\ tree = [rt |-> c.rt, green |-> c.green, tests |-> tests,
                    report |-> BuildReport(CorpusCards(published, InitTracked), c.rt),
                    tracked |-> InitTracked]
    /\ head = tree
    /\ pushed = TRUE
    /\ pc = "down"
    /\ opts \in Options
    /\ binary = {}
    /\ currentSet = NoSet
    /\ card = NoCard
    /\ iter = 0
    /\ supervised = 0
    /\ focusedTries = 0
    /\ stop = FALSE
    /\ endReason = "none"
    /\ commits = 0
    /\ commitsSinceStop = 0

-----------------------------------------------------------------------------
\* Moves within a session.

Goto(step) ==
    /\ pc' = step
    /\ UNCHANGED <<published, opts, binary, stop, endReason>>

\* The process and the local variables of run_with_sink end with the session.
SessionEnds(reason) ==
    /\ pc' = "down"
    /\ endReason' = reason
    /\ binary' = {}
    /\ card' = NoCard
    /\ iter' = 0
    /\ supervised' = 0
    /\ focusedTries' = 0
    /\ UNCHANGED <<published, opts, currentSet, stop>>

KeepLocals == UNCHANGED <<currentSet, card, iter, supervised, focusedTries>>

Step(from, to) == pc = from /\ Goto(to) /\ KeepLocals

Surface(from) == pc = from /\ SessionEnds("SurfacedToHuman")

AgentEdits ==
    /\ \E c \in Code : tree' = WithCode(tree, c)
    /\ UNCHANGED <<head, pushed, tally>>

-----------------------------------------------------------------------------
\* run_with_sink up to the loop.

\* pick_starting_set: the newest tracked set with an actionable failure, or
\* the newest one when there is none.
IsStartingSet(set) ==
    \E i \in DOMAIN tree.tracked :
        /\ set = tree.tracked[i]
        /\ \A j \in DOMAIN tree.tracked : j > i => Actionable(tree.report, tree.tracked[j]) = {}
        /\ \/ Actionable(tree.report, set) # {}
           \/ /\ i = Len(tree.tracked)
              /\ \A j \in DOMAIN tree.tracked : Actionable(tree.report, tree.tracked[j]) = {}

\* `cargo xtask add-card` builds the program from the working tree; grind, which
\* does not ask for a clean tree either, runs the session in its own process, built
\* from whatever code there was at the time.
StartSession(o) ==
    /\ pc = "down"
    /\ o.dryRun \/ o.allowDirty \/ tree = head
    /\ binary' \in IF o.set # NoSet THEN {{}}
                   ELSE IF o.allowDirty THEN SUBSET Parseable ELSE {tree.rt}
    /\ IF o.set = NoSet
         THEN \E s \in Sets : IsStartingSet(s) /\ currentSet' = s
         ELSE currentSet' = o.set
    /\ opts' = o
    /\ pc' = "find"
    /\ iter' = 0
    /\ supervised' = 0
    /\ focusedTries' = 0
    /\ card' = NoCard
    /\ stop' = FALSE
    /\ endReason' = "none"
    /\ commits' = 0
    /\ commitsSinceStop' = 0
    /\ UNCHANGED <<published, tree, head, pushed>>

\* Mutation: one iteration too many.
MayIterateOnceMore == opts.maxIterations = 0 \/ iter <= opts.maxIterations

\* The loop condition.
MayIterate == opts.maxIterations = 0 \/ iter < opts.maxIterations

ReachMaxIterations ==
    /\ pc = "find"
    /\ ~MayIterate
    /\ SessionEnds("MaxIterationsReached")
    /\ UNCHANGED files

-----------------------------------------------------------------------------
\* Steps 1 to 4: find the next failing card, prepare logs and prompt.

\* find_next_failing_card_from_status: a listed card that the corpus report
\* records as failing; a card without an entry is passed over.
IsCandidate(c) ==
    /\ c \in published
    /\ SetOf[c] = currentSet
    /\ c \in Parseable
    /\ c \in Failing(tree.report)

NoCandidate == \A i \in DOMAIN Listing : ~IsCandidate(Listing[i])

IsNextFailing(c) ==
    \E i \in DOMAIN Listing :
        /\ c = Listing[i]
        /\ IsCandidate(c)
        /\ \A j \in 1 .. i - 1 : ~IsCandidate(Listing[j])

\* Mutation: a dry run goes on to the card.
FindFailingInDryRun ==
    /\ pc = "find"
    /\ MayIterate
    /\ \E c \in Cards : IsNextFailing(c) /\ card' = c
    /\ focusedTries' = 0
    /\ Goto("writeTests")
    /\ UNCHANGED <<files, currentSet, iter, supervised>>

FindFailing ==
    /\ pc = "find"
    /\ MayIterate
    /\ ~opts.dryRun
    /\ \E c \in Cards : IsNextFailing(c) /\ card' = c
    /\ focusedTries' = 0
    /\ Goto("writeTests")
    /\ UNCHANGED <<files, currentSet, iter, supervised>>

DryRunStop ==
    /\ pc = "find"
    /\ MayIterate
    /\ opts.dryRun
    /\ ~NoCandidate
    /\ SessionEnds("DryRunStop")
    /\ UNCHANGED files

FindAllPass == pc = "find" /\ MayIterate /\ NoCandidate

AllPassStops ==
    /\ FindAllPass
    /\ stop
    /\ SessionEnds("StopRequested")
    /\ UNCHANGED files

AllPassPinned ==
    /\ FindAllPass
    /\ ~stop
    /\ opts.set # NoSet
    /\ SessionEnds("AllPass")
    /\ UNCHANGED files

AllPassAdvances ==
    /\ FindAllPass
    /\ ~stop
    /\ opts.set = NoSet
    /\ Step("find", "advance")
    /\ UNCHANGED files

-----------------------------------------------------------------------------
\* try_advance_set, with corpus_cmd's advance_one_set and add_set_inner.

AdvanceTo(set) ==
    /\ currentSet' = set
    /\ supervised' = 0
    /\ Goto("find")
    /\ UNCHANGED <<head, pushed, tally, card, iter, focusedTries>>

\* What advance_one_set can follow with: the next release, not tracked yet.
IsNextNewSet(next) ==
    /\ IsReleaseAfter(Newest(tree.tracked), next)
    /\ ~IsTracked(tree.tracked, next)
    /\ \E c \in published : SetOf[c] = next

\* What the corpus run of the advance leaves.  It runs in the process of the session.
Advanced(set) ==
    LET t == Tracking(tree, set)
    IN  [t EXCEPT !.report = ReportUnder(t, binary)]

\* Mutation: the advance saves its report like --update.
AdvanceAlwaysSaves(set) == FALSE

\* A card that became supported after the process was built is a regression to it.
AdvanceRegresses(set) == NewFailures(tree.report, Advanced(set).report) # {}

AdvanceNewSet ==
    /\ pc = "advance"
    /\ \E next \in Sets :
         /\ IsNextNewSet(next)
         /\ ~AdvanceRegresses(next)
         /\ tree' = Advanced(next)
         /\ AdvanceTo(next)

\* add_set_inner returns Ok at once for a set that is tracked already.
AdvanceTrackedSet ==
    /\ pc = "advance"
    /\ \E next \in Sets :
         /\ IsReleaseAfter(Newest(tree.tracked), next)
         /\ IsTracked(tree.tracked, next)
         /\ AdvanceTo(next)
    /\ UNCHANGED tree

AdvanceNoMoreSets ==
    /\ pc = "advance"
    /\ IsLastRelease(Newest(tree.tracked))
    /\ SessionEnds("CorpusComplete")
    /\ UNCHANGED files

\* corpus_sets.json is saved before the corpus run that may fail.
HalfAdvanced == {Tracking(tree, next) : next \in {s \in Sets : IsNextNewSet(s)}}

AdvanceFails ==
    /\ Surface("advance")
    /\ tree' \in {tree} \cup HalfAdvanced
    /\ UNCHANGED <<head, pushed, tally>>

-----------------------------------------------------------------------------
\* Steps 5 to 9: generated tests, focused runs and the focused repair loop.

WriteGeneratedTests ==
    /\ Step("writeTests", "focused")
    /\ tree' = WithTests(tree)
    /\ UNCHANGED <<head, pushed, tally>>

\* Tests that pass before any repair are run a second time (step 9).
FocusedAlreadyPass ==
    /\ FocusedCanPass
    /\ Step("focused", "refocus")
    /\ UNCHANGED files

RefocusPasses ==
    /\ FocusedCanPass
    /\ Step("refocus", "audit")
    /\ UNCHANGED files

FocusedFails ==
    /\ Step("focused", "repair") \/ Step("refocus", "repair")
    /\ UNCHANGED files

OutOfFocusedAttempts ==
    opts.focusedRepairAttempts # 0 /\ focusedTries >= opts.focusedRepairAttempts

FocusedGivesUp ==
    /\ OutOfFocusedAttempts
    /\ Surface("repair")
    /\ UNCHANGED files

\* An agent that exits with success is validated; one that could not be
\* invoked or exits with failure costs an attempt and the loop goes on.
FocusedRepair ==
    /\ pc = "repair"
    /\ ~OutOfFocusedAttempts
    /\ focusedTries' = IF opts.focusedRepairAttempts = 0 THEN 0 ELSE focusedTries + 1
    /\ AgentEdits
    /\ Goto("repair") \/ Goto("validate")
    /\ UNCHANGED <<currentSet, card, iter, supervised>>

FocusedValidation ==
    /\ \/ FocusedCanPass /\ Step("validate", "audit")
       \/ Step("validate", "repair")
    /\ UNCHANGED files

-----------------------------------------------------------------------------
\* Steps 10 to 12: the audit and its repair, tier 2 and its repair.

\* Whether the diff has a block-candidate finding is left open.
GrammarAudit ==
    /\ Step("audit", "tier2") \/ Step("audit", "generalize")
    /\ UNCHANGED files

GeneralizationRepair ==
    /\ Step("generalize", "genFocused") \/ Surface("generalize")
    /\ AgentEdits

GeneralizationFocused ==
    /\ \/ FocusedCanPass /\ Step("genFocused", "genAudit")
       \/ Surface("genFocused")
    /\ UNCHANGED files

GeneralizationAudit ==
    /\ Step("genAudit", "tier2") \/ Surface("genAudit")
    /\ UNCHANGED files

Tier2 ==
    /\ \/ Tier2CanPass /\ Step("tier2", "corpus")
       \/ Step("tier2", "downstream")
    /\ UNCHANGED files

DownstreamRepair ==
    /\ Step("downstream", "downFocused") \/ Surface("downstream")
    /\ AgentEdits

DownstreamFocused ==
    /\ \/ FocusedCanPass /\ Step("downFocused", "downTier2")
       \/ Surface("downFocused")
    /\ UNCHANGED files

\* Mutation: a downstream repair is trusted once the focused tests pass.
DownstreamTier2Skipped == Step("downTier2", "corpus") /\ UNCHANGED files

DownstreamTier2 ==
    /\ \/ Tier2CanPass /\ Step("downTier2", "corpus")
       \/ Surface("downTier2")
    /\ UNCHANGED files

-----------------------------------------------------------------------------
\* Steps 13 to 15: corpus gate, commit, push.

CorpusGate ==
    /\ \/ /\ ~Regresses(tree)
          /\ Step("corpus", "commit")
          /\ tree' = AfterCorpus(tree)
       \/ Surface("corpus") /\ UNCHANGED tree
    /\ UNCHANGED <<head, pushed, tally>>

\* git_commit: cargo fmt, a second corpus run, add -A, commit.
GitCommit ==
    /\ ~Regresses(tree)
    /\ AfterCorpus(tree) # head
    /\ Step("commit", "push")
    /\ tree' = AfterCorpus(tree)
    /\ head' = tree'
    /\ pushed' = FALSE
    /\ commits' = IF CountCommits THEN commits + 1 ELSE 0
    /\ commitsSinceStop' = IF CountCommits /\ stop THEN commitsSinceStop + 1 ELSE 0

GitCommitNoChanges ==
    /\ ~Regresses(tree)
    /\ AfterCorpus(tree) = head
    /\ Step("commit", "error")
    /\ tree' = AfterCorpus(tree)
    /\ UNCHANGED <<head, pushed, tally>>

\* Mutation: the stop request is not looked at after a commit.
GitPushWithoutStop ==
    /\ pc = "push"
    /\ pushed' = TRUE
    /\ Goto("find")
    /\ iter' = IF opts.maxIterations = 0 THEN 0 ELSE iter + 1
    /\ supervised' = 0
    /\ UNCHANGED <<tree, head, tally, currentSet, card, focusedTries>>

GitPush ==
    /\ pc = "push"
    /\ pushed' = TRUE
    /\ \/ /\ stop
          /\ SessionEnds("StopRequested")
       \/ /\ ~stop
          /\ Goto("find")
          /\ iter' = IF opts.maxIterations = 0 THEN 0 ELSE iter + 1
          /\ supervised' = 0
          /\ UNCHANGED <<currentSet, card, focusedTries>>
    /\ UNCHANGED <<tree, head, tally>>

-----------------------------------------------------------------------------
\* Errors and crashes.

\* The working trees a step cut short can leave behind.
LeftBehind ==
    {tree}
    \cup (IF pc = "writeTests" THEN {WithTests(tree)} ELSE {})
    \cup (IF pc \in {"repair", "generalize", "downstream", "error"}
            THEN {WithCode(tree, c) : c \in Code} ELSE {})
    \cup (IF pc \in {"corpus", "commit"} /\ ~Regresses(tree)
            THEN {AfterCorpus(tree)} ELSE {})
    \cup (IF pc = "advance" THEN HalfAdvanced ELSE {})

\* The `?` of every step of run_one_iteration.
StepFails ==
    /\ pc \in IterationSteps
    /\ pc = "find" => MayIterate
    /\ tree' \in LeftBehind
    /\ Goto("error")
    /\ KeepLocals
    /\ UNCHANGED <<head, pushed, tally>>

\* Mutation: supervisor attempts are not counted.
SupervisorRepairsUncounted ==
    /\ pc = "error"
    /\ supervised < opts.supervisorAttempts
    /\ AgentEdits
    /\ Step("error", "find") \/ Surface("error")

SupervisorRepairs ==
    /\ pc = "error"
    /\ supervised < opts.supervisorAttempts
    /\ AgentEdits
    /\ \/ /\ Goto("find")
          /\ supervised' = supervised + 1
          /\ UNCHANGED <<currentSet, card, iter, focusedTries>>
       \/ Surface("error")

\* Mutation: without a supervisor an error starts the next iteration.
NoSupervisorLeftContinues ==
    /\ supervised >= opts.supervisorAttempts
    /\ Step("error", "find")
    /\ UNCHANGED files

NoSupervisorLeft ==
    /\ supervised >= opts.supervisorAttempts
    /\ Surface("error")
    /\ UNCHANGED files

Crash ==
    /\ pc # "down"
    /\ tree' \in LeftBehind
    /\ SessionEnds("killed")
    /\ UNCHANGED <<head, pushed, tally>>

-----------------------------------------------------------------------------
\* The developer and the outside world.

RequestStop ==
    /\ pc # "down"
    /\ ~stop
    /\ stop' = TRUE
    /\ UNCHANGED <<published, files, session>>

\* Between sessions the developer throws the working tree away, edits code, or
\* runs the corpus check.
DiscardTree ==
    /\ pc = "down"
    /\ tree # head
    /\ tree' = head
    /\ UNCHANGED <<published, head, pushed, tally, session, stop>>

DeveloperEdits ==
    /\ pc = "down"
    /\ AgentEdits
    /\ UNCHANGED <<published, session, stop>>

RunCorpus ==
    /\ pc = "down"
    /\ ~Regresses(tree)
    /\ tree' = AfterCorpus(tree)
    /\ UNCHANGED <<published, head, pushed, tally, session, stop>>

Publish ==
    /\ \E c \in Cards \ published : published' = published \cup {c}
    /\ UNCHANGED <<files, session, stop>>

Withdraw ==
    /\ Withdrawals
    /\ \E c \in published : published' = published \ {c}
    /\ UNCHANGED <<files, session, stop>>

-----------------------------------------------------------------------------
SessionStep ==
    \/ ReachMaxIterations
    \/ FindFailing
    \/ DryRunStop
    \/ AllPassStops
    \/ AllPassPinned
    \/ AllPassAdvances
    \/ AdvanceNewSet
    \/ AdvanceTrackedSet
    \/ AdvanceNoMoreSets
    \/ AdvanceFails
    \/ WriteGeneratedTests
    \/ FocusedAlreadyPass
    \/ RefocusPasses
    \/ FocusedFails
    \/ FocusedGivesUp
    \/ FocusedRepair
    \/ FocusedValidation
    \/ GrammarAudit
    \/ GeneralizationRepair
    \/ GeneralizationFocused
    \/ GeneralizationAudit
    \/ Tier2
    \/ DownstreamRepair
    \/ DownstreamFocused
    \/ DownstreamTier2
    \/ CorpusGate
    \/ GitCommit
    \/ GitCommitNoChanges
    \/ GitPush
    \/ StepFails
    \/ SupervisorRepairs
    \/ NoSupervisorLeft

Environment ==
    \/ \E o \in Options : StartSession(o)
    \/ Crash
    \/ RequestStop
    \/ DiscardTree
    \/ DeveloperEdits
    \/ RunCorpus
    \/ Publish
    \/ Withdraw

Next == SessionStep \/ Environment

Spec == Init /\ [][Next]_vars

\* Every command and every agent the orchestrator waits for returns.
FairSpec == Spec /\ WF_vars(SessionStep)
-----------------------------------------------------------------------------
\* Properties.

\* Every variable has its type, and past step 1 there is a card.
TypeOK ==
    /\ published \in SUBSET Cards
    /\ tree \in Trees
    /\ head \in Trees
    /\ pushed \in BOOLEAN
    /\ pc \in Steps
    /\ opts \in Options
    /\ binary \in SUBSET Parseable
    /\ currentSet \in Sets \cup {NoSet}
    /\ card \in Cards \cup {NoCard}
    /\ iter \in Nat
    /\ supervised \in Nat
    /\ focusedTries \in Nat
    /\ stop \in BOOLEAN
    /\ endReason \in EndReasons
    /\ commits \in Nat
    /\ commitsSinceStop \in Nat
    /\ pc \in IterationSteps \ {"find"} => card \in Cards

\* The committed corpus_status.json tells the truth about the committed code:
\* it marks as passing exactly its cards that round-trip.  No interleaving of
\* agent edits, gate runs, errors, crashes and restarts commits a stale report.
HeadHonest ==
    head.report.pass = {c \in head.report.known : c \in Parseable /\ c \in head.rt}

\* Every generated test in the last commit passes on the code of that commit,
\* although repairs run between the gates and a crashed session leaves tests
\* of cards that never passed behind.
HeadGated == head.tests \subseteq head.green

\* A commit supports the card of its iteration: the card's generated test is in
\* it and passes, and its report counts the card, if it is still listed.
CommitSupportsCard ==
    [][head' # head => /\ card \in head'.tests \cap head'.green
                       /\ card \in head'.report.known => card \in head'.report.pass]_vars

\* Each commit supports everything the last one supported and more: no session
\* commits a regression or an iteration that gained nothing.  Scryfall must not
\* withdraw cards, since the diff forgets a card that is missing from one run.
StrictProgress ==
    [][head' # head => /\ head.report.pass \subseteq head'.report.pass
                       /\ head.report.pass # head'.report.pass]_vars

\* A card with a committed test keeps passing in every later commit, even when
\* its report entry was lost on the way.
TestedNeverRegresses == [][head.tests \subseteq head'.green]_vars

\* Without a supervisor, a session that started from a clean tree and ends well
\* leaves no grammar code and no test uncommitted.
SuccessIsCommitted ==
    [][/\ pc # "down" /\ endReason' \in Successes
       /\ opts.supervisorAttempts = 0 /\ ~opts.allowDirty /\ ~opts.dryRun
       => /\ tree'.rt = head'.rt
          /\ tree'.green = head'.green
          /\ tree'.tests = head'.tests]_vars

\* A request to stop lets the session finish the iteration it is in, plus one
\* for each supervisor attempt: an iteration whose push fails after its commit
\* is retried without a look at the stop request.
StopIsBounded == commitsSinceStop <= 1 + opts.supervisorAttempts

\* Without a supervisor the iteration cap bounds the commits of a session, and
\* a session that committed and ends well has pushed.
CapWithoutSupervisor ==
    opts.supervisorAttempts = 0 =>
        /\ opts.maxIterations # 0 => commits <= opts.maxIterations
        /\ commits > 0 /\ endReason \in Successes => pushed

\* The repository under add-card is a mainline, which grind relies on when it runs
\* sessions: no commit loses a card, the committed report is honest, and the report
\* in the working tree remembers all that the last commit supports, although an
\* advance writes it with the grammar of another build.  Scryfall must not withdraw
\* cards.
M == INSTANCE Mainline WITH
         supported <- head.report.pass, honest <- HeadHonest, recorded <- tree.report.pass
ImplementsMainline == M!Spec

\* A dry run commits nothing, pushes nothing and writes no tests: whatever it runs
\* into, errors that go to the supervisor's agent and exhausted sets included, it
\* never gets past the search.
DryRunKeepsCommits ==
    [][pc # "down" /\ opts.dryRun
       => /\ UNCHANGED <<head, pushed>>
          /\ tree'.tests = tree.tests]_vars

\* The error "no changes to commit" is never met: at the commit the card's passing is
\* news to the report, so there is a difference from the last commit.  Scryfall must
\* not withdraw the card.
AlwaysSomethingToCommit == [][~GitCommitNoChanges]_vars

\* A session ends, also without an iteration cap: each commit supports a new
\* card, so there is an end to them.  The focused repairs must be capped.
SessionEventuallyEnds == pc # "down" ~> pc = "down"

\* What a session still has to do: cards to support, a commit to push, sets to
\* advance to, supervisor attempts, the way to the end of the iteration, and on it
\* focused attempts and a validation.
SetsAfter(set) == {j \in DOMAIN ReleaseOrder : \E i \in 1 .. j - 1 : ReleaseOrder[i] = set}

\* No set that is still to come is tracked already, as long as sets are tracked in the
\* order of their release.
TrackedInOrder(tracked) ==
    \A i \in DOMAIN tracked, j \in SetsAfter(Newest(tracked)) : ReleaseOrder[j] # tracked[i]

PlaceRank ==
    [find |-> 17, advance |-> 16, writeTests |-> 16, focused |-> 15, refocus |-> 14,
     repair |-> 13, validate |-> 13, audit |-> 12, generalize |-> 11, genFocused |-> 10,
     genAudit |-> 9, tier2 |-> 8, downstream |-> 7, downFocused |-> 6, downTier2 |-> 5,
     corpus |-> 4, commit |-> 3, push |-> 2, error |-> 1, down |-> 0]

Remaining ==
    <<Cardinality(Cards \ head.report.pass),
      IF pc = "push" THEN 1 ELSE 0,
      Cardinality(SetsAfter(Newest(tree.tracked))),
      Left(supervised, opts.supervisorAttempts),
      PlaceRank[pc],
      Left(focusedTries, opts.focusedRepairAttempts),
      IF pc = "validate" THEN 1 ELSE 0>>

\* Each step of a session with capped focused repairs leaves less of that, whatever
\* agents edit and however often gates and steps fail; what the world does meanwhile
\* leaves it as it is.  With fairness this is why the session ends.
SessionRunsDown ==
    [][pc # "down" /\ pc' # "down" /\ opts.focusedRepairAttempts # 0 =>
         IF published' = published /\ stop' = stop
           THEN Below(Remaining', Remaining)
           ELSE Remaining' = Remaining]_vars
=============================================================================

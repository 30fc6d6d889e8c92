---------------------------- MODULE AddCardProofs ----------------------------
(***************************************************************************)
(* Theorems about AddCard, for any cards, sets and command lines.          *)
(***************************************************************************)
EXTENDS AddCard, TLAPS

-----------------------------------------------------------------------------
\* What the operators that make a new tree do to its fields.

\* An edit by an agent or a developer gives a tree that differs in code only.
LEMMA WithCodeTree ==
    ASSUME NEW t \in Trees, NEW c \in Code
    PROVE  /\ WithCode(t, c) \in Trees
           /\ WithCode(t, c).green \subseteq WithCode(t, c).rt
           /\ WithCode(t, c).tests = t.tests
           /\ WithCode(t, c).report = t.report
           /\ WithCode(t, c).tracked = t.tracked
  BY DEF WithCode, Trees, Code

\* Registering the generated tests adds the card to the tests and nothing else.
LEMMA WithTestsTree ==
    ASSUME NEW t \in Trees, card \in Cards
    PROVE  /\ WithTests(t) \in Trees
           /\ WithTests(t).tests = t.tests \cup {card}
           /\ WithTests(t).rt = t.rt
           /\ WithTests(t).green = t.green
           /\ WithTests(t).report = t.report
           /\ WithTests(t).tracked = t.tracked
  BY DEF WithTests, Trees

\* A corpus run that saves replaces the report and nothing else.
LEMMA AfterCorpusTree ==
    ASSUME NEW t \in Trees, published \in SUBSET Cards
    PROVE  /\ AfterCorpus(t) \in Trees
           /\ AfterCorpus(t).report = FreshReport(t)
           /\ AfterCorpus(t).rt = t.rt
           /\ AfterCorpus(t).green = t.green
           /\ AfterCorpus(t).tests = t.tests
           /\ AfterCorpus(t).tracked = t.tracked
<1>1. FreshReport(t) \in CorpusReports
  BY DEF FreshReport, ReportUnder, BuildReport, CorpusCards, CorpusReports
<1> QED
  BY <1>1 DEF AfterCorpus, Trees

\* Tracking a set appends it to the tracked sets and does nothing else.
LEMMA TrackingTree ==
    ASSUME NEW t \in Trees, NEW s \in Sets
    PROVE  /\ Tracking(t, s) \in Trees
           /\ Tracking(t, s).tracked = Append(t.tracked, s)
           /\ Tracking(t, s).rt = t.rt
           /\ Tracking(t, s).green = t.green
           /\ Tracking(t, s).tests = t.tests
           /\ Tracking(t, s).report = t.report
<1>1. Append(t.tracked, s) \in Seq(Sets) \ {<<>>}
  BY DEF Trees
<1> QED
  BY <1>1 DEF Tracking, Trees

\* An advance tracks the set and replaces the report, and does nothing else.
LEMMA AdvancedTree ==
    ASSUME tree \in Trees, published \in SUBSET Cards, NEW s \in Sets
    PROVE  /\ Advanced(s) \in Trees
           /\ Advanced(s).tracked = Append(tree.tracked, s)
           /\ Advanced(s).rt = tree.rt
           /\ Advanced(s).green = tree.green
           /\ Advanced(s).tests = tree.tests
           /\ Advanced(s).report = ReportUnder(Tracking(tree, s), binary)
<1> DEFINE t == Tracking(tree, s)
<1>1. ReportUnder(t, binary) \in CorpusReports
  BY DEF ReportUnder, BuildReport, CorpusCards, CorpusReports
<1>2. /\ t \in Trees
      /\ t.tracked = Append(tree.tracked, s)
      /\ t.rt = tree.rt /\ t.green = tree.green /\ t.tests = tree.tests
  BY TrackingTree
<1>3. Advanced(s) = [t EXCEPT !.report = ReportUnder(t, binary)]
  BY DEF Advanced
<1> QED
  BY <1>1, <1>2, <1>3 DEF Trees

\* A step that is cut short leaves a well-formed tree behind.
LEMMA LeftBehindTrees ==
    ASSUME TypeOK
    PROVE  LeftBehind \subseteq Trees
<1> SUFFICES ASSUME NEW t \in LeftBehind PROVE t \in Trees
  OBVIOUS
<1>1. CASE t = tree
  BY <1>1 DEF TypeOK
<1>2. CASE pc = "writeTests" /\ t = WithTests(tree)
  <2>1. card \in Cards
    BY <1>2 DEF TypeOK, IterationSteps
  <2> QED
    BY <1>2, <2>1, WithTestsTree DEF TypeOK
<1>3. CASE t \in {WithCode(tree, c) : c \in Code}
  BY <1>3, WithCodeTree DEF TypeOK
<1>4. CASE t = AfterCorpus(tree)
  BY <1>4, AfterCorpusTree DEF TypeOK
<1>5. CASE t \in HalfAdvanced
  BY <1>5, TrackingTree DEF TypeOK, HalfAdvanced
<1> QED
  BY <1>1, <1>2, <1>3, <1>4, <1>5 DEF LeftBehind
-----------------------------------------------------------------------------
\* Type correctness.

TallyTyped == commits \in Nat /\ commitsSinceStop \in Nat

\* The moves within a session keep the types of what they mention.
LEMMA GotoTypes ==
    ASSUME TypeOK, NEW step \in Steps, Goto(step), KeepLocals,
           step \in IterationSteps \ {"find"} => card \in Cards,
           tree' \in Trees, head' \in Trees, pushed' \in BOOLEAN, TallyTyped'
    PROVE  TypeOK'
  BY DEF TypeOK, TallyTyped, Goto, KeepLocals

LEMMA SessionEndsTypes ==
    ASSUME TypeOK, NEW reason \in EndReasons, SessionEnds(reason),
           tree' \in Trees, head' \in Trees, pushed' \in BOOLEAN, TallyTyped'
    PROVE  TypeOK'
  BY DEF TypeOK, TallyTyped, SessionEnds, Steps, IterationSteps

\* Every step keeps the trees well-formed.
LEMMA TreesTyped ==
    ASSUME TypeOK, Next
    PROVE  /\ tree' \in Trees
           /\ head' \in Trees
           /\ pushed' \in BOOLEAN
           /\ TallyTyped'
<1> USE AddCardAssumption DEF TallyTyped, tally
<1>1. tree \in Trees /\ head \in Trees /\ pushed \in BOOLEAN /\ TallyTyped
  BY DEF TypeOK
<1>2. CASE UNCHANGED files
  BY <1>1, <1>2 DEF files
<1>3. CASE AgentEdits
  BY <1>1, <1>3, WithCodeTree DEF AgentEdits
<1>4. CASE tree' \in LeftBehind /\ UNCHANGED <<head, pushed, tally>>
  BY <1>1, <1>4, LeftBehindTrees
<1>5. CASE AdvanceNewSet
  BY <1>1, <1>5, AdvancedTree DEF AdvanceNewSet, AdvanceTo, TypeOK
<1>6. CASE AdvanceTrackedSet
  BY <1>1, <1>6 DEF AdvanceTrackedSet, AdvanceTo
<1>7. CASE AdvanceFails
  BY <1>1, <1>7, TrackingTree DEF AdvanceFails, HalfAdvanced
<1>8. CASE WriteGeneratedTests
  BY <1>1, <1>8, WithTestsTree DEF WriteGeneratedTests, Step, TypeOK, IterationSteps
<1>9. CASE CorpusGate
  BY <1>1, <1>9, AfterCorpusTree DEF CorpusGate, TypeOK
<1>10. CASE GitCommit
  <2>1. tree' \in Trees /\ head' \in Trees /\ pushed' \in BOOLEAN
    BY <1>1, <1>10, AfterCorpusTree DEF GitCommit, TypeOK
  <2>2. TallyTyped'
    BY <1>1, <1>10 DEF GitCommit
  <2> QED
    BY <2>1, <2>2
<1>11. CASE GitCommitNoChanges
  BY <1>1, <1>11, AfterCorpusTree DEF GitCommitNoChanges, TypeOK
<1>12. CASE GitPush
  BY <1>1, <1>12 DEF GitPush
<1>13. CASE DiscardTree
  BY <1>1, <1>13 DEF DiscardTree
<1>14. ASSUME NEW o \in Options, StartSession(o)
       PROVE  tree' \in Trees /\ head' \in Trees /\ pushed' \in BOOLEAN /\ TallyTyped'
  BY <1>1, <1>14 DEF StartSession
<1>15. CASE RunCorpus
  BY <1>1, <1>15, AfterCorpusTree DEF RunCorpus, TypeOK
<1> QED
  BY <1>2, <1>3, <1>4, <1>5, <1>6, <1>7, <1>8, <1>9, <1>10, <1>11, <1>12, <1>13, <1>14, <1>15
     DEF Next, SessionStep, Environment, ReachMaxIterations, FindFailing, DryRunStop,
         AllPassStops, AllPassPinned, AllPassAdvances, AdvanceNoMoreSets,
         FocusedAlreadyPass, RefocusPasses, FocusedFails, FocusedGivesUp, FocusedRepair,
         FocusedValidation, GrammarAudit, GeneralizationRepair, GeneralizationFocused,
         GeneralizationAudit, Tier2, DownstreamRepair, DownstreamFocused,
         DownstreamTier2, StepFails, SupervisorRepairs, NoSupervisorLeft, Crash,
         RequestStop, DeveloperEdits, Publish, Withdraw

\* The initial states are well typed.
LEMMA TypeInit == Init => TypeOK
<1> SUFFICES ASSUME Init PROVE TypeOK
  OBVIOUS
<1> USE AddCardAssumption
<1>1. published \in SUBSET Cards
  BY DEF Init
<1>2. PICK c \in Code, tests \in SUBSET Cards :
        tree = [rt |-> c.rt, green |-> c.green, tests |-> tests,
                report |-> BuildReport(CorpusCards(published, InitTracked), c.rt),
                tracked |-> InitTracked]
  BY DEF Init
<1>3. BuildReport(CorpusCards(published, InitTracked), c.rt) \in CorpusReports
  BY <1>1 DEF BuildReport, CorpusCards, CorpusReports
<1>4. tree \in Trees
  BY <1>2, <1>3 DEF Trees, Code
<1> QED
  BY <1>1, <1>4 DEF Init, TypeOK, Steps, IterationSteps, EndReasons

\* Every step keeps the types, one case per action.
LEMMA TypeStep == TypeOK /\ [Next]_vars => TypeOK'
<1> SUFFICES ASSUME TypeOK, [Next]_vars PROVE TypeOK'
  OBVIOUS
<1> USE AddCardAssumption DEF TallyTyped
<1>stutter. CASE UNCHANGED vars
  BY <1>stutter DEF TypeOK, vars
<1>next. CASE Next
  <2>trees. tree' \in Trees /\ head' \in Trees /\ pushed' \in BOOLEAN /\ TallyTyped'
    BY <1>next, TreesTyped
  <2>1. ASSUME NEW o \in Options, StartSession(o) PROVE TypeOK'
    <3>1. tree.rt \in SUBSET Parseable
      BY DEF TypeOK, Trees
    <3>2. binary' \in SUBSET Parseable
      BY <2>1, <3>1 DEF StartSession
    <3> QED
      BY <2>1, <2>trees, <3>2
         DEF StartSession, TypeOK, OptionRecords, Steps, IterationSteps, EndReasons
  <2>2. CASE FindFailing
    BY <2>2, <2>trees DEF FindFailing, Goto, TypeOK, Steps, IterationSteps
  <2>3. CASE AdvanceNewSet \/ AdvanceTrackedSet
    BY <2>3, <2>trees
       DEF AdvanceNewSet, AdvanceTrackedSet, AdvanceTo, Goto, TypeOK, Steps, IterationSteps
  <2>4. CASE FocusedRepair
    BY <2>4, <2>trees DEF FocusedRepair, Goto, TypeOK, Steps, IterationSteps
  <2>5. CASE GitPush /\ ~stop
    BY <2>5, <2>trees DEF GitPush, Goto, TypeOK, Steps, IterationSteps
  <2>6. CASE SupervisorRepairs /\ Goto("find")
    BY <2>6, <2>trees DEF SupervisorRepairs, Goto, Surface, SessionEnds, TypeOK, Steps, IterationSteps
  <2>7. CASE RequestStop \/ DiscardTree \/ DeveloperEdits \/ RunCorpus \/ Publish \/ Withdraw
    BY <2>7, <2>trees
       DEF RequestStop, DiscardTree, DeveloperEdits, RunCorpus, Publish, Withdraw, session, TypeOK
  <2>8. ASSUME NEW reason \in EndReasons, SessionEnds(reason) PROVE TypeOK'
    BY <2>8, <2>trees, SessionEndsTypes
  <2>9. ASSUME NEW from \in IterationSteps \ {"find"}, NEW to \in Steps, Step(from, to)
        PROVE  TypeOK'
    <3>1. card \in Cards
      BY <2>9 DEF TypeOK, Step
    <3> QED
      BY <2>9, <3>1, <2>trees, GotoTypes DEF Step
  <2>10. CASE AllPassAdvances
    BY <2>10, <2>trees, GotoTypes DEF AllPassAdvances, Step, Steps, IterationSteps
  <2>11. CASE StepFails
    BY <2>11, <2>trees, GotoTypes DEF StepFails, Steps, IterationSteps
  <2>12. CASE ReachMaxIterations \/ DryRunStop \/ AllPassStops \/ AllPassPinned
              \/ AdvanceNoMoreSets \/ AdvanceFails \/ FocusedGivesUp \/ NoSupervisorLeft
              \/ (GitPush /\ stop) \/ (SupervisorRepairs /\ Surface("error")) \/ Crash
    BY <2>12, <2>8
       DEF ReachMaxIterations, DryRunStop, AllPassStops, AllPassPinned, AdvanceNoMoreSets,
           AdvanceFails, FocusedGivesUp, NoSupervisorLeft, GitPush, SupervisorRepairs,
           Crash, Surface, EndReasons, Successes
  <2>13. CASE WriteGeneratedTests \/ FocusedAlreadyPass \/ RefocusPasses \/ FocusedFails
              \/ FocusedValidation \/ GrammarAudit \/ GitCommit \/ GitCommitNoChanges
    BY <2>13, <2>9
       DEF WriteGeneratedTests, FocusedAlreadyPass, RefocusPasses, FocusedFails,
           FocusedValidation, GrammarAudit, GitCommit, GitCommitNoChanges, Steps, IterationSteps
  <2>14. CASE GeneralizationRepair \/ GeneralizationFocused \/ GeneralizationAudit
              \/ Tier2 \/ DownstreamRepair \/ DownstreamFocused \/ DownstreamTier2
              \/ CorpusGate
    BY <2>14, <2>8, <2>9
       DEF GeneralizationRepair, GeneralizationFocused, GeneralizationAudit, Tier2,
           DownstreamRepair, DownstreamFocused, DownstreamTier2, CorpusGate, Surface,
           Steps, IterationSteps, EndReasons
  <2> QED
    BY <1>next, <2>1, <2>2, <2>3, <2>4, <2>5, <2>6, <2>7, <2>10, <2>11, <2>12, <2>13, <2>14
       DEF Next, SessionStep, Environment, GitPush, SupervisorRepairs
<1> QED
  BY <1>stutter, <1>next

\* Every variable keeps its type, and an iteration past step 1 has a card.
THEOREM TypeCorrect == Spec => []TypeOK
  BY TypeInit, TypeStep, PTL DEF Spec
-----------------------------------------------------------------------------
\* The committed report is honest.

\* Only git_commit changes the committed tree.
LEMMA HeadSteps == Next => head' = head \/ GitCommit
  BY DEF Next, SessionStep, Environment, ReachMaxIterations, FindFailing, DryRunStop, AllPassStops,
         AllPassPinned, AllPassAdvances, AdvanceNewSet, AdvanceTrackedSet,
         AdvanceNoMoreSets, AdvanceFails, AdvanceTo, WriteGeneratedTests,
         FocusedAlreadyPass, RefocusPasses, FocusedFails, FocusedGivesUp, FocusedRepair,
         FocusedValidation, GrammarAudit, GeneralizationRepair, GeneralizationFocused,
         GeneralizationAudit, Tier2, DownstreamRepair, DownstreamFocused,
         DownstreamTier2, CorpusGate, GitCommitNoChanges, GitPush, StepFails,
         SupervisorRepairs, NoSupervisorLeft, Crash, RequestStop, DiscardTree,
         DeveloperEdits, RunCorpus, Publish, Withdraw, StartSession, AgentEdits, files

\* What `cargo xtask corpus` saves is honest about the tree it ran in.
LEMMA FreshReportHonest ==
    ASSUME NEW t
    PROVE  FreshReport(t).pass =
               {c \in FreshReport(t).known : c \in Parseable /\ c \in t.rt}
  BY DEF FreshReport, ReportUnder, BuildReport

\* corpus_status.json of the last commit marks as passing exactly the cards that
\* round-trip under the code of that commit: git_commit runs the corpus on the
\* tree it commits, and nothing else commits.
THEOREM CommittedReportHonest == Spec => []HeadHonest
<1>1. Init => HeadHonest
  <2> SUFFICES ASSUME Init PROVE HeadHonest
    OBVIOUS
  <2>1. PICK c \in Code, tests \in SUBSET Cards :
          tree = [rt |-> c.rt, green |-> c.green, tests |-> tests,
                  report |-> BuildReport(CorpusCards(published, InitTracked), c.rt),
                  tracked |-> InitTracked]
    BY DEF Init
  <2> QED
    BY <2>1 DEF Init, HeadHonest, BuildReport
<1>2. TypeOK /\ HeadHonest /\ [Next]_vars => HeadHonest'
  <2> SUFFICES ASSUME TypeOK, HeadHonest, [Next]_vars PROVE HeadHonest'
    OBVIOUS
  <2>1. CASE head' = head
    BY <2>1 DEF HeadHonest
  <2>2. CASE GitCommit
    <3>1. /\ head'.report = FreshReport(tree)
          /\ head'.rt = tree.rt
      BY <2>2, AfterCorpusTree DEF GitCommit, TypeOK
    <3> QED
      BY <3>1, FreshReportHonest DEF HeadHonest
  <2> QED
    BY <2>1, <2>2, HeadSteps DEF vars
<1> QED
  BY <1>1, <1>2, TypeCorrect, PTL DEF Spec

-----------------------------------------------------------------------------
\* The committed tests pass.

\* The steps at which the generated tests of the card are registered.
Registered == IterationSteps \ {"find", "writeTests", "push"}

\* HeadGated with what makes it inductive: between tier 2 and the commit the
\* registered tests pass in the working tree, because no step of that stretch
\* edits code; the card's tests are registered from step 5 on; the working tree
\* has all committed tests; and code that passes a card's tests round-trips it.
GatedInv ==
    /\ HeadGated
    /\ pc \in {"corpus", "commit"} => tree.tests \subseteq tree.green
    /\ pc \in Registered => card \in tree.tests
    /\ head.tests \subseteq tree.tests
    /\ tree.green \subseteq tree.rt
    /\ head.green \subseteq head.rt

\* What a step can make of the working tree.
TreeStep ==
    \/ tree' = tree
    \/ pc = "down" /\ tree' = head
    \/ \E c \in Code : tree' = WithCode(tree, c)
    \/ pc = "writeTests" /\ tree' = WithTests(tree)
    \/ ~Regresses(tree) /\ tree' = AfterCorpus(tree)
    \/ \E s \in Sets : tree' = Tracking(tree, s)
    \/ \E s \in Sets : ~AdvanceRegresses(s) /\ tree' = Advanced(s)

LEMMA TreeSteps == Next => TreeStep
<1> SUFFICES ASSUME Next PROVE TreeStep
  OBVIOUS
<1>1. CASE tree' \in LeftBehind
  BY <1>1 DEF LeftBehind, HalfAdvanced, TreeStep
<1>2. CASE AdvanceFails
  BY <1>2 DEF AdvanceFails, HalfAdvanced, TreeStep
<1>3. CASE AdvanceNewSet \/ DiscardTree
  BY <1>3 DEF AdvanceNewSet, DiscardTree, TreeStep
<1>4. CASE CorpusGate \/ GitCommit \/ GitCommitNoChanges \/ RunCorpus
  BY <1>4 DEF CorpusGate, GitCommit, GitCommitNoChanges, RunCorpus, Step, TreeStep
<1>5. CASE WriteGeneratedTests
  BY <1>5 DEF WriteGeneratedTests, Step, TreeStep
<1>6. CASE AgentEdits
  BY <1>6 DEF AgentEdits, TreeStep
<1>7. CASE UNCHANGED tree
  BY <1>7 DEF TreeStep
<1> QED
  BY <1>1, <1>2, <1>3, <1>4, <1>5, <1>6, <1>7
     DEF Next, SessionStep, Environment, ReachMaxIterations, FindFailing, DryRunStop,
         AllPassStops, AllPassPinned, AllPassAdvances, AdvanceTrackedSet,
         AdvanceNoMoreSets, FocusedAlreadyPass, RefocusPasses, FocusedFails,
         FocusedGivesUp, FocusedRepair, FocusedValidation, GrammarAudit,
         GeneralizationRepair, GeneralizationFocused, GeneralizationAudit, Tier2,
         DownstreamRepair, DownstreamFocused, DownstreamTier2, GitPush, StepFails,
         SupervisorRepairs, NoSupervisorLeft, Crash, RequestStop, DeveloperEdits,
         Publish, Withdraw, StartSession, files

LEMMA GatedInit == Init => GatedInv
<1> SUFFICES ASSUME Init PROVE GatedInv
  OBVIOUS
<1>1. PICK c \in Code, tests \in SUBSET Cards :
        /\ tests \subseteq c.green
        /\ tree = [rt |-> c.rt, green |-> c.green, tests |-> tests,
                   report |-> BuildReport(CorpusCards(published, InitTracked), c.rt),
                   tracked |-> InitTracked]
  BY DEF Init
<1> QED
  BY <1>1 DEF Init, GatedInv, HeadGated, Code, Registered, IterationSteps

\* A step enters or stays in the stretch from tier 2 to the commit only with
\* passing tests, and leaves code and tests alone there.
LEMMA GatedStretch ==
    ASSUME TypeOK, GatedInv, Next, pc' \in {"corpus", "commit"}
    PROVE  tree'.tests \subseteq tree'.green
<1>1. CASE Tier2 \/ DownstreamTier2
  BY <1>1 DEF Tier2, DownstreamTier2, Tier2CanPass, Step, Goto, Surface, SessionEnds, files
<1>2. CASE CorpusGate
  BY <1>2, AfterCorpusTree DEF CorpusGate, Step, Surface, SessionEnds, GatedInv, TypeOK
<1>3. CASE RequestStop \/ Publish \/ Withdraw
  BY <1>3 DEF RequestStop, Publish, Withdraw, files, session, GatedInv
<1> QED
  BY <1>1, <1>2, <1>3
     DEF Next, SessionStep, Environment, ReachMaxIterations, FindFailing, DryRunStop, AllPassStops,
         AllPassPinned, AllPassAdvances, AdvanceNewSet, AdvanceTrackedSet,
         AdvanceNoMoreSets, AdvanceFails, AdvanceTo, WriteGeneratedTests,
         FocusedAlreadyPass, RefocusPasses, FocusedFails, FocusedGivesUp, FocusedRepair,
         FocusedValidation, GrammarAudit, GeneralizationRepair, GeneralizationFocused,
         GeneralizationAudit, Tier2, DownstreamRepair, DownstreamFocused,
         DownstreamTier2, GitCommitNoChanges, GitPush, StepFails,
         SupervisorRepairs, NoSupervisorLeft, Crash, RequestStop, DiscardTree,
         DeveloperEdits, RunCorpus, Publish, Withdraw, StartSession, AgentEdits,
         GitCommit, Step, Goto, Surface, SessionEnds, session
\* Within the registered steps the card is the one of the step before, and only
\* step 5 enters them.
LEMMA RegisteredSteps ==
    ASSUME TypeOK, Next, pc' \in Registered
    PROVE  /\ card' = card
           /\ pc \in Registered \/ WriteGeneratedTests
  BY DEF Next, SessionStep, Environment, ReachMaxIterations, FindFailing, DryRunStop, AllPassStops,
         AllPassPinned, AllPassAdvances, AdvanceNewSet, AdvanceTrackedSet,
         AdvanceNoMoreSets, AdvanceFails, AdvanceTo,
         FocusedAlreadyPass, RefocusPasses, FocusedFails, FocusedGivesUp, FocusedRepair,
         FocusedValidation, GrammarAudit, GeneralizationRepair, GeneralizationFocused,
         GeneralizationAudit, Tier2, DownstreamRepair, DownstreamFocused,
         DownstreamTier2, CorpusGate, GitCommit, GitCommitNoChanges, GitPush, StepFails,
         SupervisorRepairs, NoSupervisorLeft, Crash, RequestStop, DiscardTree,
         DeveloperEdits, RunCorpus, Publish, Withdraw, StartSession, WriteGeneratedTests,
         Step, Goto, Surface, SessionEnds, KeepLocals, session, Registered, IterationSteps

\* No step but throwing the tree away, which a session never does, loses a test.
LEMMA TestsKept ==
    ASSUME TypeOK, Next, pc # "down" \/ tree' # head
    PROVE  tree.tests \subseteq tree'.tests
<1>1. ASSUME NEW c \in Code, tree' = WithCode(tree, c) PROVE tree.tests \subseteq tree'.tests
  BY <1>1, WithCodeTree DEF TypeOK
<1>2. CASE pc = "writeTests" /\ tree' = WithTests(tree)
  BY <1>2, WithTestsTree DEF TypeOK, IterationSteps
<1>3. ASSUME NEW s \in Sets, tree' = Tracking(tree, s) \/ tree' = Advanced(s)
      PROVE  tree.tests \subseteq tree'.tests
  BY <1>3, TrackingTree, AdvancedTree DEF TypeOK
<1>4. CASE tree' = tree \/ tree' = AfterCorpus(tree)
  BY <1>4, AfterCorpusTree DEF TypeOK
<1> QED
  BY <1>1, <1>2, <1>3, <1>4, TreeSteps DEF TreeStep

LEMMA GatedStep == TypeOK /\ GatedInv /\ [Next]_vars => GatedInv'
<1> SUFFICES ASSUME TypeOK, GatedInv, [Next]_vars PROVE GatedInv'
  OBVIOUS
<1>stutter. CASE UNCHANGED vars
  BY <1>stutter DEF GatedInv, HeadGated, vars
<1>next. CASE Next
  <2>1. pc' \in {"corpus", "commit"} => tree'.tests \subseteq tree'.green
    BY <1>next, GatedStretch
  <2>2. tree'.green \subseteq tree'.rt
    <3>1. CASE pc = "writeTests" /\ tree' = WithTests(tree)
      BY <3>1, WithTestsTree DEF TypeOK, IterationSteps, GatedInv
    <3>2. ASSUME NEW c \in Code, tree' = WithCode(tree, c) PROVE tree'.green \subseteq tree'.rt
      BY <3>2, WithCodeTree DEF TypeOK
    <3>3. ASSUME NEW s \in Sets, tree' = Tracking(tree, s) \/ tree' = Advanced(s)
          PROVE  tree'.green \subseteq tree'.rt
      BY <3>3, TrackingTree, AdvancedTree DEF TypeOK, GatedInv
    <3>4. CASE tree' = tree \/ tree' = head \/ tree' = AfterCorpus(tree)
      BY <3>4, AfterCorpusTree DEF TypeOK, GatedInv
    <3> QED
      BY <1>next, <3>1, <3>2, <3>3, <3>4, TreeSteps DEF TreeStep
  <2>3. pc' \in Registered => card' \in tree'.tests
    <3>1. CASE WriteGeneratedTests
      BY <3>1, WithTestsTree
         DEF WriteGeneratedTests, Step, KeepLocals, TypeOK, IterationSteps
    <3>2. CASE pc \in Registered
      BY <1>next, <3>2, TestsKept, RegisteredSteps DEF GatedInv, Registered, IterationSteps
    <3> QED
      BY <1>next, <3>1, <3>2, RegisteredSteps
  <2>4. CASE head' = head
    <3>1. head'.tests \subseteq tree'.tests
      BY <1>next, <2>4, TestsKept DEF GatedInv
    <3> QED
      BY <2>1, <2>2, <2>3, <2>4, <3>1 DEF GatedInv, HeadGated
  <2>5. CASE GitCommit
    <3>1. /\ head'.tests = tree.tests
          /\ head'.green = tree.green
          /\ head'.rt = tree.rt
          /\ head' = tree'
      BY <2>5, AfterCorpusTree DEF GitCommit, TypeOK
    <3>2. tree.tests \subseteq tree.green
      BY <2>5 DEF GitCommit, Step, GatedInv
    <3> QED
      BY <2>1, <2>2, <2>3, <3>1, <3>2 DEF GatedInv, HeadGated
  <2> QED
    BY <1>next, <2>4, <2>5, HeadSteps
<1> QED
  BY <1>stutter, <1>next

LEMMA GatedCorrect == Spec => []GatedInv
  BY GatedInit, GatedStep, TypeCorrect, PTL DEF Spec

\* Every generated test of the last commit passes on the code of that commit.
THEOREM CommittedTestsPass == Spec => []HeadGated
<1>1. GatedInv => HeadGated
  BY DEF GatedInv
<1> QED
  BY <1>1, GatedCorrect, PTL
\* A card with a committed test passes it in every later commit, whatever Scryfall
\* drops from its listings.
THEOREM TestedCardsKeepPassing == Spec => TestedNeverRegresses
<1>1. GatedInv /\ TypeOK /\ [Next]_vars => [head.tests \subseteq head'.green]_vars
  <2> SUFFICES ASSUME GatedInv, TypeOK, Next PROVE head.tests \subseteq head'.green
    BY DEF vars
  <2>1. CASE head' = head
    BY <2>1 DEF GatedInv, HeadGated
  <2>2. CASE GitCommit
    <3>1. head'.green = tree.green
      BY <2>2, AfterCorpusTree DEF GitCommit, TypeOK
    <3> QED
      BY <2>2, <3>1 DEF GitCommit, Step, GatedInv
  <2> QED
    BY <2>1, <2>2, HeadSteps
<1> QED
  BY <1>1, GatedCorrect, TypeCorrect, PTL DEF Spec, TestedNeverRegresses

\* A commit contains the generated test of its card, passes it, and counts the
\* card as passing if it is still listed.
THEOREM CommitsSupportTheirCard == Spec => CommitSupportsCard
<1> DEFINE Supports ==
      head' # head => /\ card \in head'.tests \cap head'.green
                      /\ card \in head'.report.known => card \in head'.report.pass
<1>1. GatedInv /\ TypeOK /\ [Next]_vars => [Supports]_vars
  <2> SUFFICES ASSUME GatedInv, TypeOK, Next, head' # head PROVE Supports
    BY DEF vars
  <2>1. GitCommit
    BY HeadSteps
  <2>2. /\ head'.tests = tree.tests
        /\ head'.green = tree.green
        /\ head'.report = FreshReport(tree)
    BY <2>1, AfterCorpusTree DEF GitCommit, TypeOK
  <2>3. card \in tree.tests /\ card \in tree.green /\ card \in tree.rt
    BY <2>1 DEF GitCommit, Step, GatedInv, Registered, IterationSteps
  <2>4. card \in Parseable
    BY <2>3 DEF TypeOK, Trees
  <2> QED
    BY <2>2, <2>3, <2>4, FreshReportHonest
<1> QED
  BY <1>1, GatedCorrect, TypeCorrect, PTL DEF Spec, CommitSupportsCard
-----------------------------------------------------------------------------
\* Progress, while Scryfall does not withdraw cards.

\* No known card is out of the run that would be made now, so that no pass is
\* forgotten.
Remembers(t, cards) ==
    /\ t.report.pass \subseteq t.report.known
    /\ t.report.known \subseteq CorpusCards(cards, t.tracked)

\* The steps of an iteration that work on a card.
Working == IterationSteps \ {"find", "push"}

\* What the last commit supports is recorded in the working tree, and the card
\* of an iteration is one the commit does not support yet.
ProgressInv ==
    /\ Remembers(tree, published)
    /\ Remembers(head, published)
    /\ head.report.pass \subseteq tree.report.pass
    /\ pc \in Working => card \in tree.report.known \ head.report.pass

\* More published cards or another tracked set only add cards to a run.
LEMMA CorpusCardsGrow ==
    ASSUME NEW p, NEW q, p \subseteq q, NEW t \in Seq(Sets), NEW s \in Sets
    PROVE  /\ CorpusCards(p, t) \subseteq CorpusCards(q, t)
           /\ CorpusCards(p, t) \subseteq CorpusCards(p, Append(t, s))
<1>1. \A i \in DOMAIN t : i \in DOMAIN Append(t, s) /\ Append(t, s)[i] = t[i]
  OBVIOUS
<1> QED
  BY <1>1 DEF CorpusCards

\* A corpus run that finds no regression loses no pass and no known card, whatever
\* grammar it runs with.
LEMMA ReportKeepsPasses ==
    ASSUME NEW t, NEW rt, Remembers(t, published),
           NewFailures(t.report, ReportUnder(t, rt)) = {}
    PROVE  /\ t.report.pass \subseteq ReportUnder(t, rt).pass
           /\ t.report.known \subseteq ReportUnder(t, rt).known
           /\ ReportUnder(t, rt).pass \subseteq ReportUnder(t, rt).known
           /\ ReportUnder(t, rt).known = CorpusCards(published, t.tracked)
  BY DEF Remembers, NewFailures, Failing, ReportUnder, BuildReport

LEMMA RunKeepsPasses ==
    ASSUME NEW t \in Trees, published \in SUBSET Cards, ~Regresses(t),
           Remembers(t, published)
    PROVE  /\ t.report.pass \subseteq FreshReport(t).pass
           /\ t.report.known \subseteq FreshReport(t).known
           /\ FreshReport(t).pass \subseteq FreshReport(t).known
           /\ FreshReport(t).known = CorpusCards(published, t.tracked)
  BY ReportKeepsPasses DEF Regresses, FreshReport

\* The published cards only grow.
LEMMA PublishedGrows ==
    ASSUME TypeOK, ~Withdrawals, Next
    PROVE  published \subseteq published'
  BY DEF Next, SessionStep, Environment, ReachMaxIterations, FindFailing, DryRunStop, AllPassStops,
         AllPassPinned, AllPassAdvances, AdvanceNewSet, AdvanceTrackedSet,
         AdvanceNoMoreSets, AdvanceFails, AdvanceTo, WriteGeneratedTests,
         FocusedAlreadyPass, RefocusPasses, FocusedFails, FocusedGivesUp, FocusedRepair,
         FocusedValidation, GrammarAudit, GeneralizationRepair, GeneralizationFocused,
         GeneralizationAudit, Tier2, DownstreamRepair, DownstreamFocused,
         DownstreamTier2, CorpusGate, GitCommit, GitCommitNoChanges, GitPush, StepFails,
         SupervisorRepairs, NoSupervisorLeft, Crash, RequestStop, DiscardTree,
         DeveloperEdits, RunCorpus, Publish, Withdraw, StartSession,
         Step, Goto, Surface, SessionEnds
\* A step other than throwing the tree away forgets no pass and no known card,
\* and what is known stays within reach of the next run.
LEMMA TreeRemembers ==
    ASSUME TypeOK, ProgressInv, ~Withdrawals, Next
    PROVE  /\ Remembers(tree', published')
           /\ \/ pc = "down" /\ tree' = head
              \/ /\ tree.report.pass \subseteq tree'.report.pass
                 /\ tree.report.known \subseteq tree'.report.known
<1>1. published \subseteq published' /\ published \in SUBSET Cards /\ tree \in Trees
  BY PublishedGrows DEF TypeOK
<1>2. ASSUME NEW t \in Trees, Remembers(t, published)
      PROVE  Remembers(t, published')
  <2>1. t.tracked \in Seq(Sets)
    BY DEF Trees
  <2>2. CorpusCards(published, t.tracked) \subseteq CorpusCards(published', t.tracked)
    BY <1>1 DEF CorpusCards
  <2> QED
    BY <1>2, <2>2 DEF Remembers
<1>3. ASSUME NEW t \in Trees, ~Regresses(t), Remembers(t, published)
      PROVE  /\ Remembers(AfterCorpus(t), published)
             /\ AfterCorpus(t) \in Trees
             /\ t.report.pass \subseteq AfterCorpus(t).report.pass
             /\ t.report.known \subseteq AfterCorpus(t).report.known
  BY <1>1, <1>3, RunKeepsPasses, AfterCorpusTree DEF Remembers
<1>4. ASSUME NEW s \in Sets
      PROVE  /\ Remembers(Tracking(tree, s), published)
             /\ Tracking(tree, s) \in Trees
             /\ Tracking(tree, s).report = tree.report
  <2>1. CorpusCards(published, tree.tracked)
          \subseteq CorpusCards(published, Append(tree.tracked, s))
    BY <1>1, CorpusCardsGrow DEF Trees
  <2> QED
    BY <1>1, <2>1, TrackingTree DEF ProgressInv, Remembers
<1>5. CASE pc = "down" /\ tree' = head
  BY <1>2, <1>5 DEF ProgressInv, TypeOK
<1>6. ASSUME tree' \in Trees, tree'.report = tree.report, tree'.tracked = tree.tracked
      PROVE  /\ Remembers(tree', published')
             /\ tree.report.pass \subseteq tree'.report.pass
             /\ tree.report.known \subseteq tree'.report.known
  BY <1>2, <1>6 DEF ProgressInv, Remembers
<1>7. CASE tree' = tree
  BY <1>1, <1>6, <1>7
<1>8. CASE \E c \in Code : tree' = WithCode(tree, c)
  BY <1>1, <1>6, <1>8, WithCodeTree
<1>9. CASE pc = "writeTests" /\ tree' = WithTests(tree)
  BY <1>6, <1>9, WithTestsTree DEF TypeOK, IterationSteps
<1>10. CASE ~Regresses(tree) /\ tree' = AfterCorpus(tree)
  BY <1>1, <1>2, <1>3, <1>10 DEF ProgressInv
<1>11. CASE \E s \in Sets : tree' = Tracking(tree, s)
  BY <1>2, <1>4, <1>11
<1>12. CASE \E s \in Sets : ~AdvanceRegresses(s) /\ tree' = Advanced(s)
  <2>1. PICK s \in Sets : ~AdvanceRegresses(s) /\ tree' = Advanced(s)
    BY <1>12
  <2> DEFINE t == Tracking(tree, s)
  <2>2. /\ Remembers(t, published)
        /\ t.report = tree.report
        /\ t.tracked = Append(tree.tracked, s)
    BY <1>1, <1>4, TrackingTree
  <2>3. /\ tree' \in Trees
        /\ tree'.report = ReportUnder(t, binary)
        /\ tree'.tracked = Append(tree.tracked, s)
    BY <1>1, <2>1, AdvancedTree
  <2>4. NewFailures(t.report, ReportUnder(t, binary)) = {}
    BY <2>1, <2>2, <2>3 DEF AdvanceRegresses
  <2> HIDE DEF t
  <2>5. /\ Remembers(tree', published)
        /\ tree.report.pass \subseteq tree'.report.pass
        /\ tree.report.known \subseteq tree'.report.known
    BY <2>2, <2>3, <2>4, ReportKeepsPasses DEF Remembers
  <2> QED
    BY <1>2, <2>3, <2>5
<1> QED
  BY <1>5, <1>7, <1>8, <1>9, <1>10, <1>11, <1>12, TreeSteps DEF TreeStep

\* What the working tree of the last commit was known to support is kept by
\* every commit, and the card of the iteration comes on top.
LEMMA CommitGains ==
    ASSUME TypeOK, GatedInv, ProgressInv, GitCommit
    PROVE  /\ head'.report = FreshReport(tree)
           /\ head'.tracked = tree.tracked
           /\ head.report.pass \subseteq head'.report.pass
           /\ card \in head'.report.pass \ head.report.pass
<1>1. /\ head'.report = FreshReport(tree)
      /\ head'.tracked = tree.tracked
      /\ ~Regresses(tree)
      /\ pc = "commit"
      /\ tree \in Trees
      /\ published \in SUBSET Cards
  BY AfterCorpusTree DEF GitCommit, Step, TypeOK
<1>2. head.report.pass \subseteq head'.report.pass
  BY <1>1, RunKeepsPasses DEF ProgressInv
<1>3. card \in FreshReport(tree).known /\ card \notin head.report.pass
  BY <1>1, RunKeepsPasses DEF ProgressInv, Working, IterationSteps
<1>4. card \in tree.rt /\ card \in Parseable
  BY <1>1 DEF GatedInv, Registered, IterationSteps, Trees
<1> QED
  BY <1>1, <1>2, <1>3, <1>4, FreshReportHonest

\* Only FindFailing turns to another card.
LEMMA WorkingSteps ==
    ASSUME TypeOK, Next, pc' \in Working
    PROVE  \/ FindFailing
           \/ card' = card /\ pc \in Working
  BY DEF Next, SessionStep, Environment, ReachMaxIterations, DryRunStop, AllPassStops,
         AllPassPinned, AllPassAdvances, AdvanceNewSet, AdvanceTrackedSet,
         AdvanceNoMoreSets, AdvanceFails, AdvanceTo,
         FocusedAlreadyPass, RefocusPasses, FocusedFails, FocusedGivesUp, FocusedRepair,
         FocusedValidation, GrammarAudit, GeneralizationRepair, GeneralizationFocused,
         GeneralizationAudit, Tier2, DownstreamRepair, DownstreamFocused,
         DownstreamTier2, CorpusGate, GitCommit, GitCommitNoChanges, GitPush, StepFails,
         SupervisorRepairs, NoSupervisorLeft, Crash, RequestStop, DiscardTree,
         DeveloperEdits, RunCorpus, Publish, Withdraw, StartSession, WriteGeneratedTests,
         Step, Goto, Surface, SessionEnds, KeepLocals, session, Working, IterationSteps

LEMMA ProgressInit == Init => ProgressInv
<1> SUFFICES ASSUME Init PROVE ProgressInv
  OBVIOUS
<1>1. PICK c \in Code, tests \in SUBSET Cards :
        tree = [rt |-> c.rt, green |-> c.green, tests |-> tests,
                report |-> BuildReport(CorpusCards(published, InitTracked), c.rt),
                tracked |-> InitTracked]
  BY DEF Init
<1>2. Remembers(tree, published)
  BY <1>1 DEF Remembers, BuildReport
<1> QED
  BY <1>2 DEF Init, ProgressInv, Working, IterationSteps

LEMMA ProgressStep ==
    ASSUME ~Withdrawals, TypeOK, GatedInv, ProgressInv, [Next]_vars
    PROVE  ProgressInv'
<1>stutter. CASE UNCHANGED vars
  BY <1>stutter DEF ProgressInv, Remembers, CorpusCards, vars
<1>next. CASE Next
  <2>1. Remembers(tree', published')
    BY <1>next, TreeRemembers
  <2>2. CASE head' = head
    <3>1. Remembers(head, published')
      <4>1. CorpusCards(published, head.tracked) \subseteq CorpusCards(published', head.tracked)
        BY <1>next, PublishedGrows DEF CorpusCards
      <4> QED
        BY <4>1 DEF ProgressInv, Remembers
    <3>2. head.report.pass \subseteq tree'.report.pass
      BY <1>next, TreeRemembers DEF ProgressInv
    <3>3. ASSUME pc' \in Working
          PROVE  card' \in tree'.report.known \ head.report.pass
      <4>1. CASE FindFailing
        <5>1. card' \in Failing(tree.report) /\ tree' = tree
          BY <4>1 DEF FindFailing, IsNextFailing, IsCandidate, files
        <5> QED
          BY <5>1 DEF Failing, ProgressInv
      <4>2. CASE card' = card /\ pc \in Working
        BY <1>next, <4>2, TreeRemembers DEF ProgressInv, Working, IterationSteps
      <4> QED
        BY <1>next, <3>3, <4>1, <4>2, WorkingSteps
    <3> QED
      BY <2>1, <2>2, <3>1, <3>2, <3>3 DEF ProgressInv
  <2>3. CASE GitCommit
    <3>1. head' = tree' /\ pc' = "push"
      BY <2>3 DEF GitCommit, Step, Goto
    <3> QED
      BY <2>1, <3>1 DEF ProgressInv, Working
  <2> QED
    BY <1>next, <2>2, <2>3, HeadSteps
<1> QED
  BY <1>stutter, <1>next

\* While no card is withdrawn, every commit supports all that the last commit
\* supported and at least one card more, whatever agents and developers edit and
\* wherever a session fails or is killed.
THEOREM EveryCommitGains ==
    ASSUME ~Withdrawals
    PROVE  Spec => StrictProgress
<1>1. TypeOK /\ GatedInv /\ ProgressInv /\ [Next]_vars => ProgressInv'
  BY ProgressStep
<1>2. TypeOK /\ GatedInv /\ ProgressInv /\ [Next]_vars
        => [head' # head => /\ head.report.pass \subseteq head'.report.pass
                            /\ head.report.pass # head'.report.pass]_vars
  BY CommitGains, HeadSteps DEF vars
<1> QED
  BY <1>1, <1>2, ProgressInit, GatedCorrect, TypeCorrect, PTL DEF Spec, StrictProgress

\* Sessions of add-card keep the promise of the mainline, which grind relies on,
\* although the advance may write the report of another build of the grammar.
THEOREM SessionsKeepMainline ==
    ASSUME ~Withdrawals
    PROVE  Spec => ImplementsMainline
<1>1. TypeOK /\ GatedInv /\ ProgressInv /\ [Next]_vars => ProgressInv'
  BY ProgressStep
<1>2. HeadHonest /\ ProgressInv => M!Init
  BY DEF M!Init, ProgressInv
<1>3. TypeOK /\ GatedInv /\ HeadHonest' /\ ProgressInv /\ ProgressInv' /\ [Next]_vars
        => [M!Next]_<<head.report.pass, HeadHonest, tree.report.pass>>
  <2> SUFFICES ASSUME TypeOK, GatedInv, HeadHonest', ProgressInv, ProgressInv', [Next]_vars
               PROVE  M!Next
    OBVIOUS
  <2>1. HeadHonest' = TRUE
    BY DEF HeadHonest
  <2>2. head'.report.pass \subseteq tree'.report.pass
    BY DEF ProgressInv
  <2>3. head.report.pass \subseteq head'.report.pass
    BY CommitGains, HeadSteps DEF vars
  <2> QED
    BY <2>1, <2>2, <2>3 DEF M!Next
<1> QED
  BY <1>1, <1>2, <1>3, ProgressInit, GatedCorrect, TypeCorrect, CommittedReportHonest, PTL
     DEF Spec, ImplementsMainline, M!Spec

\* A commit never fails for want of a change: the report that the corpus run before it
\* saves counts the card, and the report of the last commit does not.
THEOREM CommitsNeverEmpty ==
    ASSUME ~Withdrawals
    PROVE  Spec => AlwaysSomethingToCommit
<1>1. TypeOK /\ GatedInv /\ ProgressInv /\ [Next]_vars => ProgressInv'
  BY ProgressStep
<1>2. TypeOK /\ GatedInv /\ ProgressInv => ~GitCommitNoChanges
  <2> SUFFICES ASSUME TypeOK, GatedInv, ProgressInv, GitCommitNoChanges PROVE FALSE
    OBVIOUS
  <2>1. /\ FreshReport(tree) = head.report
        /\ ~Regresses(tree)
        /\ pc = "commit"
        /\ tree \in Trees
        /\ published \in SUBSET Cards
    BY AfterCorpusTree DEF GitCommitNoChanges, Step, TypeOK
  <2>2. card \in FreshReport(tree).known /\ card \notin head.report.pass
    BY <2>1, RunKeepsPasses DEF ProgressInv, Working, IterationSteps
  <2>3. card \in tree.rt /\ card \in Parseable
    BY <2>1 DEF GatedInv, Registered, IterationSteps, Trees
  <2> QED
    BY <2>1, <2>2, <2>3, FreshReportHonest
<1>3. TypeOK /\ GatedInv /\ ProgressInv /\ [Next]_vars => [~GitCommitNoChanges]_vars
  BY <1>2
<1> QED
  BY <1>1, <1>3, ProgressInit, GatedCorrect, TypeCorrect, PTL DEF Spec, AlwaysSomethingToCommit
-----------------------------------------------------------------------------
\* Where uncommitted work can be.

\* A step changes grammar code or tests only where it says so; sets and reports are
\* not work.
SameWork(s, t) == s.rt = t.rt /\ s.green = t.green /\ s.tests = t.tests

\* The places of a session without supervisor that have no iteration under way.
Between == {"find", "advance", "push"}

Unsupervised(o) == o.supervisorAttempts = 0 /\ ~o.allowDirty /\ ~o.dryRun

\* The work of the tree is committed between iterations, unless a supervisor's agent
\* may have been at it; and a session has no end reason before its end.
SettledInv ==
    pc # "down" =>
        /\ endReason = "none"
        /\ Unsupervised(opts) /\ pc \in Between => SameWork(tree, head)

\* How a session gets on with its work elsewhere.
WorkingOn ==
    \/ pc # "down" /\ pc' \notin Between \cup {"down"} /\ endReason' = endReason
    \/ pc' = "down" /\ pc # "down" /\ endReason' \notin Successes
    \/ pc \in Between /\ UNCHANGED <<tree, head, opts, endReason>>
    \/ pc \in Between /\ pc' = "down" /\ UNCHANGED <<tree, head, opts>>
    \/ pc = "down" /\ pc' = "down"
    \/ UNCHANGED <<tree, head, pc, opts, endReason>>

LEMMA SettledSteps ==
    ASSUME Next
    PROVE  \/ \E o \in Options : StartSession(o)
           \/ GitCommit
           \/ SupervisorRepairs
           \/ AdvanceNewSet
           \/ WorkingOn
<1>1. ASSUME NEW reason, SessionEnds(reason), reason \notin Successes, pc # "down"
      PROVE  WorkingOn
  BY <1>1 DEF SessionEnds, WorkingOn
<1>2. CASE \/ ReachMaxIterations \/ DryRunStop \/ AllPassStops \/ AllPassPinned
           \/ AdvanceNoMoreSets \/ GitPush \/ AllPassAdvances \/ AdvanceTrackedSet
  BY <1>2 DEF ReachMaxIterations, DryRunStop, AllPassStops, AllPassPinned, FindAllPass,
              AllPassAdvances, AdvanceTrackedSet, AdvanceTo, AdvanceNoMoreSets, GitPush, Step,
              Goto, SessionEnds, files, WorkingOn, Between
<1>3. ASSUME NEW from \in Steps \ {"down"}, NEW to \in Steps \ (Between \cup {"down"}),
             Step(from, to) \/ (pc = from /\ Goto(to))
      PROVE  WorkingOn
  BY <1>3 DEF Step, Goto, WorkingOn
<1>4. ASSUME NEW from \in Steps \ {"down"}, Surface(from)
      PROVE  WorkingOn
  BY <1>1, <1>4 DEF Surface, Successes
<1>5. CASE \/ FindFailing \/ WriteGeneratedTests \/ FocusedAlreadyPass \/ RefocusPasses
           \/ FocusedFails \/ FocusedRepair \/ FocusedValidation \/ GrammarAudit
           \/ GitCommitNoChanges
  BY <1>3, <1>5 DEF FindFailing, WriteGeneratedTests, FocusedAlreadyPass, RefocusPasses,
       FocusedFails, FocusedRepair, FocusedValidation, GrammarAudit, GitCommitNoChanges, Steps,
       IterationSteps, Between
<1>6. CASE \/ GeneralizationRepair \/ GeneralizationFocused \/ GeneralizationAudit \/ Tier2
           \/ DownstreamRepair \/ DownstreamFocused \/ DownstreamTier2 \/ CorpusGate
  BY <1>3, <1>4, <1>6 DEF GeneralizationRepair, GeneralizationFocused, GeneralizationAudit,
       Tier2, DownstreamRepair, DownstreamFocused, DownstreamTier2, CorpusGate, Steps,
       IterationSteps, Between
<1>7. CASE AdvanceFails \/ FocusedGivesUp \/ NoSupervisorLeft
  BY <1>4, <1>7 DEF AdvanceFails, FocusedGivesUp, NoSupervisorLeft, Steps, IterationSteps
<1>8. CASE StepFails
  BY <1>8 DEF StepFails, Goto, WorkingOn, Between, IterationSteps
<1>9. CASE Crash
  BY <1>1, <1>9 DEF Crash, Successes
<1>10. CASE RequestStop \/ DiscardTree \/ DeveloperEdits \/ RunCorpus \/ Publish \/ Withdraw
  BY <1>10 DEF RequestStop, DiscardTree, DeveloperEdits, RunCorpus, Publish, Withdraw, session,
               files, WorkingOn
<1> QED
  BY <1>2, <1>5, <1>6, <1>7, <1>8, <1>9, <1>10 DEF Next, SessionStep, Environment

\* Only commits and the start of a session bring a session between iterations with a
\* new claim, and both have tree and commit agree.
LEMMA SettledStep == TypeOK /\ SettledInv /\ [Next]_vars => SettledInv'
<1> SUFFICES ASSUME TypeOK, SettledInv, [Next]_vars PROVE SettledInv'
  OBVIOUS
<1> USE DEF SettledInv, SameWork
<1>1. CASE UNCHANGED vars
  BY <1>1 DEF vars
<1>2. ASSUME NEW o \in Options, StartSession(o) PROVE SettledInv'
  BY <1>2 DEF StartSession, Unsupervised, files
<1>3. CASE GitCommit
  BY <1>3 DEF GitCommit, Step, Goto
<1>4. CASE SupervisorRepairs
  <2>1. supervised \in Nat /\ opts \in OptionRecords
    BY AddCardAssumption DEF TypeOK
  <2> QED
    BY <1>4, <2>1 DEF SupervisorRepairs, OptionRecords, Goto, Surface, SessionEnds, Unsupervised
<1>5. CASE AdvanceNewSet
  <2>1. PICK next \in Sets : tree' = Advanced(next)
    BY <1>5 DEF AdvanceNewSet
  <2>2. SameWork(tree', tree)
    BY <2>1, AdvancedTree DEF TypeOK
  <2> QED
    BY <1>5, <2>2 DEF AdvanceNewSet, AdvanceTo, Goto, Between
<1>6. CASE WorkingOn
  BY <1>6 DEF WorkingOn, Between
<1> QED
  BY <1>1, <1>2, <1>3, <1>4, <1>5, <1>6, SettledSteps

\* A session without supervisor, dirty tree or --dry-run that ends well leaves no
\* grammar code and no test behind that is not committed.
THEOREM GoodEndsAreCommitted == Spec => SuccessIsCommitted
<1> DEFINE Settles ==
      /\ pc # "down" /\ endReason' \in Successes
      /\ opts.supervisorAttempts = 0 /\ ~opts.allowDirty /\ ~opts.dryRun
      => /\ tree'.rt = head'.rt
         /\ tree'.green = head'.green
         /\ tree'.tests = head'.tests
<1>1. Init => SettledInv
  BY DEF Init, SettledInv
<1>2. TypeOK /\ SettledInv /\ [Next]_vars => [Settles]_vars
  <2> SUFFICES ASSUME TypeOK, SettledInv, Next, pc # "down", endReason' \in Successes,
                      Unsupervised(opts)
               PROVE  SameWork(tree', head')
    BY DEF Unsupervised, SameWork
  <2>1. endReason = "none" /\ endReason' # "none"
    BY DEF SettledInv, Successes
  <2>2. WorkingOn
    <3>1. ~\E o \in Options : StartSession(o)
      BY DEF StartSession
    <3>2. ~GitCommit /\ ~AdvanceNewSet
      BY <2>1 DEF GitCommit, AdvanceNewSet, AdvanceTo, Step, Goto
    <3>3. ~SupervisorRepairs
      BY <2>1 DEF SupervisorRepairs, Goto, Surface, SessionEnds, Successes
    <3> QED
      BY <3>1, <3>2, <3>3, SettledSteps
  <2>3. pc \in Between /\ UNCHANGED <<tree, head>>
    BY <2>1, <2>2 DEF WorkingOn
  <2> QED
    BY <2>3 DEF SettledInv, SameWork
<1> QED
  BY <1>1, <1>2, SettledStep, TypeCorrect, PTL DEF Spec, SuccessIsCommitted
=============================================================================

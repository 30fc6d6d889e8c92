------------------------ MODULE AddCardSessionProofs ------------------------
(***************************************************************************)
(* Theorems about the sessions of AddCard: how many commits one makes, and *)
(* how long it may last.                                                   *)
(***************************************************************************)
EXTENDS AddCardProofs, FiniteSetTheorems

-----------------------------------------------------------------------------
\* What a step does to the locals that bound a session.

Uncounted == commits' = commits /\ commitsSinceStop' = commitsSinceStop

Uncommitted == head' = head /\ pushed' = pushed /\ Uncounted

Begins ==
    /\ pc = "down" /\ pc' = "find"
    /\ iter' = 0 /\ supervised' = 0 /\ stop' = FALSE /\ endReason' = "none"
    /\ head' = head
    /\ commits' = 0 /\ commitsSinceStop' = 0

\* A good end is reached from the search, or by a push.
Ends ==
    /\ pc # "down" /\ pc' = "down"
    /\ UNCHANGED <<opts, stop, head>>
    /\ Uncounted
    /\ \/ endReason' \notin Successes
       \/ pc \in {"find", "advance"} /\ pushed' = pushed
       \/ pc = "push" /\ pushed' = TRUE

Commits ==
    /\ pc = "commit" /\ pc' = "push"
    /\ UNCHANGED <<opts, stop, endReason, iter, supervised>>
    /\ commits' \in {commits + 1, 0}
    /\ commitsSinceStop' \in {0} \cup (IF stop THEN {commitsSinceStop + 1} ELSE {})

\* From one step of an iteration to the next, or to an error.
GoesOn ==
    /\ pc \in IterationSteps
    /\ pc' \in Steps \ {"find", "down", "push"}
    /\ pc = "find" => MayIterate
    /\ pc = "push" => pc' = "error"
    /\ pc' = "advance" => ~stop
    /\ Uncommitted
    /\ UNCHANGED <<opts, stop, endReason, iter, supervised>>

Advances ==
    /\ pc = "advance" /\ pc' = "find"
    /\ supervised' = 0
    /\ Uncommitted
    /\ UNCHANGED <<opts, stop, endReason, iter>>

Pushes ==
    /\ pc = "push" /\ pc' = "find" /\ ~stop
    /\ pushed' = TRUE
    /\ supervised' = 0
    /\ iter' = IF opts.maxIterations = 0 THEN 0 ELSE iter + 1
    /\ UNCHANGED <<head, opts, stop, endReason>>
    /\ Uncounted

IsSupervised ==
    /\ pc = "error" /\ pc' = "find"
    /\ supervised < opts.supervisorAttempts
    /\ supervised' = supervised + 1
    /\ Uncommitted
    /\ UNCHANGED <<opts, stop, endReason, iter>>

StandsStill ==
    /\ UNCHANGED session
    /\ Uncommitted
    /\ stop' = stop \/ (pc # "down" /\ ~stop /\ stop' = TRUE)

SessionMoves ==
    \/ Begins \/ Ends \/ Commits \/ GoesOn \/ Advances \/ Pushes \/ IsSupervised \/ StandsStill

\* The ends of a session.
LEMMA EndSteps ==
    ASSUME TypeOK,
           \/ ReachMaxIterations \/ DryRunStop \/ AllPassStops \/ AllPassPinned
           \/ AdvanceNoMoreSets \/ AdvanceFails \/ FocusedGivesUp \/ NoSupervisorLeft \/ Crash
           \/ GitPush /\ SessionEnds("StopRequested")
    PROVE  Ends
  BY DEF Ends, ReachMaxIterations, DryRunStop, AllPassStops, AllPassPinned, FindAllPass,
         AdvanceNoMoreSets, AdvanceFails, FocusedGivesUp, NoSupervisorLeft, Crash, GitPush,
         Surface, SessionEnds, files, tally, Uncounted, Successes

\* Every step is one of these moves.
LEMMA Moves == TypeOK /\ Next => SessionMoves
<1> SUFFICES ASSUME TypeOK, Next PROVE SessionMoves
  OBVIOUS
<1> USE DEF Uncounted, tally
<1>1. ASSUME NEW o \in Options, StartSession(o) PROVE Begins
  BY <1>1 DEF StartSession, Begins, files
<1>2. CASE FindFailing \/ AllPassAdvances
  BY <1>2 DEF FindFailing, AllPassAdvances, FindAllPass, Step, Goto, KeepLocals, SessionMoves,
              GoesOn, Uncommitted, files, Steps, IterationSteps
<1>3. CASE AdvanceNewSet \/ AdvanceTrackedSet
  BY <1>3 DEF AdvanceNewSet, AdvanceTrackedSet, AdvanceTo, Goto, SessionMoves, Advances,
              Uncommitted
<1>4. CASE WriteGeneratedTests \/ FocusedAlreadyPass \/ RefocusPasses \/ FocusedFails
           \/ FocusedRepair \/ FocusedValidation \/ GrammarAudit \/ GitCommitNoChanges \/ StepFails
  BY <1>4 DEF WriteGeneratedTests, FocusedAlreadyPass, RefocusPasses, FocusedFails, FocusedRepair,
              FocusedValidation, GrammarAudit, GitCommitNoChanges, StepFails, AgentEdits, Step,
              Goto, KeepLocals, SessionMoves, GoesOn, Uncommitted, files, Steps, IterationSteps
<1>5. CASE GeneralizationRepair \/ GeneralizationFocused \/ GeneralizationAudit \/ Tier2
  BY <1>5 DEF GeneralizationRepair, GeneralizationFocused, GeneralizationAudit, Tier2, AgentEdits,
              Step, Surface, SessionEnds, Goto, KeepLocals, SessionMoves, Ends, GoesOn,
              Uncommitted, files, Steps, IterationSteps, Successes
<1>6. CASE DownstreamRepair \/ DownstreamFocused \/ DownstreamTier2 \/ CorpusGate
  BY <1>6 DEF DownstreamRepair, DownstreamFocused, DownstreamTier2, CorpusGate, AgentEdits,
              Step, Surface, SessionEnds, Goto, KeepLocals, SessionMoves, Ends, GoesOn,
              Uncommitted, files, Steps, IterationSteps, Successes
<1>7. CASE GitCommit
  BY <1>7 DEF GitCommit, Step, Goto, KeepLocals, SessionMoves, Commits
<1>8. CASE GitPush /\ ~SessionEnds("StopRequested")
  BY <1>8 DEF GitPush, Goto, SessionMoves, Pushes
<1>9. CASE SupervisorRepairs
  BY <1>9 DEF SupervisorRepairs, AgentEdits, Surface, SessionEnds, Goto, SessionMoves, Ends,
              IsSupervised, Uncommitted, Successes
<1>10. CASE RequestStop \/ DiscardTree \/ DeveloperEdits \/ RunCorpus \/ Publish \/ Withdraw
  BY <1>10 DEF RequestStop, DiscardTree, DeveloperEdits, RunCorpus, Publish, Withdraw, AgentEdits,
               SessionMoves, StandsStill, Uncommitted, files
<1> QED
  BY <1>1, <1>2, <1>3, <1>4, <1>5, <1>6, <1>7, <1>8, <1>9, <1>10, EndSteps
     DEF Next, SessionStep, Environment, SessionMoves
-----------------------------------------------------------------------------
\* Where a session stands with its commits.

CountTypes == commits \in Nat /\ commitsSinceStop \in Nat

\* An iteration that has committed and not yet been counted.
Committed == {"push", "error"}

StopInv ==
    /\ pc # "down" => supervised <= opts.supervisorAttempts
    /\ ~stop \/ pc = "advance" => commitsSinceStop = 0
    /\ pc \notin Committed \cup {"down"} => commitsSinceStop <= supervised
    /\ pc \in Committed => commitsSinceStop <= supervised + 1
    /\ StopIsBounded

CapInv ==
    /\ pc # "down" => endReason = "none"
    /\ opts.supervisorAttempts = 0 =>
         /\ opts.maxIterations # 0 =>
              /\ pc \notin {"find", "down"} => iter < opts.maxIterations
              /\ pc \notin Committed \cup {"down"} => commits <= iter
              /\ pc \in Committed => commits <= iter + 1
              /\ commits <= opts.maxIterations
         /\ commits > 0 /\ pc \notin Committed \cup {"down"} => pushed
         /\ commits > 0 /\ endReason \in Successes => pushed

CountInv == CountTypes /\ StopInv /\ CapInv

\* A session begins without commits.
LEMMA CountedInitially == Init => CountInv
<1> SUFFICES ASSUME Init PROVE CountInv
  OBVIOUS
<1>1. opts \in OptionRecords
  BY AddCardAssumption DEF Init
<1> QED
  BY <1>1 DEF Init, CountInv, CountTypes, StopInv, CapInv, StopIsBounded, Committed,
              OptionRecords, Successes

\* Every step keeps the counts within their bounds, one case per move.
LEMMA CountedStep ==
    ASSUME TypeOK, TypeOK', CountInv, [Next]_vars
    PROVE  CountInv'
<1> USE DEF CountInv, CountTypes, StopInv, CapInv, StopIsBounded, Committed, Uncounted
<1>1. CASE UNCHANGED vars
  BY <1>1 DEF vars
<1>2. CASE Next
  <2>1. /\ opts \in OptionRecords /\ opts' \in OptionRecords
        /\ iter \in Nat /\ supervised \in Nat /\ stop \in BOOLEAN
        /\ iter' \in Nat /\ supervised' \in Nat /\ stop' \in BOOLEAN
    BY AddCardAssumption DEF TypeOK
  <2>2. /\ opts.supervisorAttempts \in Nat /\ opts.maxIterations \in Nat
        /\ opts'.supervisorAttempts \in Nat /\ opts'.maxIterations \in Nat
    BY <2>1 DEF OptionRecords
  <2>3. CountTypes'
    BY DEF TypeOK
  <2>4. CASE Begins
    BY <1>2, <2>2, <2>3, <2>4 DEF Begins, Successes
  <2>5. CASE Ends
    BY <1>2, <2>1, <2>2, <2>3, <2>5 DEF Ends, Successes
  <2>6. CASE Commits
    BY <1>2, <2>1, <2>2, <2>3, <2>6 DEF Commits, Successes
  <2>7. CASE GoesOn
    BY <1>2, <2>1, <2>2, <2>3, <2>7
       DEF GoesOn, Uncommitted, MayIterate, Successes, Steps, IterationSteps
  <2>8. CASE Advances
    BY <1>2, <2>1, <2>2, <2>3, <2>8 DEF Advances, Uncommitted, Successes
  <2>9. CASE Pushes
    BY <1>2, <2>1, <2>2, <2>3, <2>9 DEF Pushes, Successes
  <2>10. CASE IsSupervised
    BY <1>2, <2>1, <2>2, <2>3, <2>10
       DEF IsSupervised, Uncommitted, Successes
  <2>11. CASE StandsStill
    BY <1>2, <2>1, <2>2, <2>3, <2>11
       DEF StandsStill, Uncommitted, session, Successes
  <2> QED
    BY <1>2, <2>4, <2>5, <2>6, <2>7, <2>8, <2>9, <2>10, <2>11, Moves DEF SessionMoves
<1> QED
  BY <1>1, <1>2

LEMMA CountsCorrect == Spec => []CountInv
<1>1. TypeOK /\ TypeOK' /\ CountInv /\ [Next]_vars => CountInv'
  BY CountedStep
<1> QED
  BY <1>1, CountedInitially, TypeCorrect, PTL DEF Spec

\* After a stop request a session makes one commit more and another one for each
\* supervisor attempt at most: a retry comes with an attempt that is used up, and
\* only a push, after which the request is heard, gives the attempts back.
THEOREM StopsInTime == Spec => []StopIsBounded
<1>1. CountInv => StopIsBounded
  BY DEF CountInv, StopInv
<1> QED
  BY <1>1, CountsCorrect, PTL

\* Without a supervisor no iteration is repeated: the cap counts every commit, and
\* a session that ends well has pushed the last one.
THEOREM CapIsKept == Spec => []CapWithoutSupervisor
<1>1. CountInv => CapWithoutSupervisor
  BY DEF CountInv, CapInv, CapWithoutSupervisor
<1> QED
  BY <1>1, CountsCorrect, PTL
-----------------------------------------------------------------------------
\* Dry runs.

Search == {"find", "advance", "error"}

\* What can happen during the search.
LEMMA SearchSteps ==
    ASSUME Next, pc \in Search
    PROVE  \/ ReachMaxIterations \/ FindFailing \/ DryRunStop \/ AllPassStops \/ AllPassPinned
           \/ AllPassAdvances \/ AdvanceNewSet \/ AdvanceTrackedSet \/ AdvanceNoMoreSets
           \/ AdvanceFails \/ StepFails \/ SupervisorRepairs \/ NoSupervisorLeft
           \/ Crash \/ RequestStop \/ Publish \/ Withdraw
  BY DEF Next, SessionStep, Environment, WriteGeneratedTests,
         FocusedAlreadyPass, RefocusPasses, FocusedFails, FocusedGivesUp, FocusedRepair,
         FocusedValidation, GrammarAudit, GeneralizationRepair, GeneralizationFocused,
         GeneralizationAudit, Tier2, DownstreamRepair, DownstreamFocused,
         DownstreamTier2, CorpusGate, GitCommit, GitCommitNoChanges, GitPush, DiscardTree,
         DeveloperEdits, RunCorpus, StartSession, Step, Surface, Search

\* A dry run stays at the search.
DryRunInv == pc # "down" /\ opts.dryRun => pc \in Search

LEMMA DryRunStep ==
    ASSUME TypeOK, DryRunInv, Next
    PROVE  DryRunInv'
<1> USE DEF DryRunInv, Search
<1>1. CASE Begins \/ Ends \/ Advances \/ Pushes \/ IsSupervised \/ StandsStill
  BY <1>1 DEF Begins, Ends, Advances, Pushes, IsSupervised, StandsStill, session
<1>2. CASE Commits
  BY <1>2 DEF Commits
<1>3. CASE GoesOn
  <2> SUFFICES ASSUME opts'.dryRun PROVE pc' \in Search
    OBVIOUS
  <2>1. pc = "find" \/ pc = "advance"
    BY <1>3 DEF GoesOn, IterationSteps
  <2>2. ~FindFailing
    BY <1>3 DEF FindFailing, GoesOn
  <2> QED
    BY <1>3, <2>1, <2>2, SearchSteps
       DEF GoesOn, ReachMaxIterations, DryRunStop, AllPassStops, AllPassPinned, AllPassAdvances,
           AdvanceNewSet, AdvanceTrackedSet, AdvanceTo, AdvanceNoMoreSets, AdvanceFails,
           StepFails, SupervisorRepairs, NoSupervisorLeft, Crash, RequestStop, Publish, Withdraw,
           Step, Surface, SessionEnds, Goto, session
<1> QED
  BY <1>1, <1>2, <1>3, Moves DEF SessionMoves

\* From the search neither commits nor tests are changed, unless a card is picked.
LEMMA SearchLeaves ==
    ASSUME TypeOK, Next, pc \in Search, ~FindFailing
    PROVE  UNCHANGED <<head, pushed>> /\ tree'.tests = tree.tests
<1> USE DEF Search
<1>1. CASE \/ ReachMaxIterations \/ DryRunStop \/ AllPassStops \/ AllPassPinned
           \/ AllPassAdvances \/ AdvanceTrackedSet \/ AdvanceNoMoreSets
           \/ NoSupervisorLeft \/ RequestStop \/ Publish \/ Withdraw
  BY <1>1 DEF ReachMaxIterations, DryRunStop, AllPassStops, AllPassPinned, AllPassAdvances,
              AdvanceTrackedSet, AdvanceTo, AdvanceNoMoreSets, NoSupervisorLeft, RequestStop,
              Publish, Withdraw, files
<1>2. CASE AdvanceNewSet
  <2>1. PICK next \in Sets : tree' = Advanced(next)
    BY <1>2 DEF AdvanceNewSet
  <2>2. tree'.tests = tree.tests
    BY <2>1, AdvancedTree DEF TypeOK
  <2> QED
    BY <1>2, <2>2 DEF AdvanceNewSet, AdvanceTo
<1>3. ASSUME NEW t \in HalfAdvanced PROVE t.tests = tree.tests
  BY TrackingTree DEF TypeOK, HalfAdvanced
<1>4. ASSUME NEW c \in Code PROVE WithCode(tree, c).tests = tree.tests
  BY WithCodeTree DEF TypeOK
<1>5. CASE AdvanceFails
  BY <1>3, <1>5 DEF AdvanceFails
<1>6. CASE SupervisorRepairs
  BY <1>4, <1>6 DEF SupervisorRepairs, AgentEdits
<1>7. CASE StepFails \/ Crash
  <2>1. tree' \in LeftBehind /\ UNCHANGED <<head, pushed>>
    BY <1>7 DEF StepFails, Crash
  <2>2. tree' = tree \/ tree' \in {WithCode(tree, c) : c \in Code} \/ tree' \in HalfAdvanced
    BY <2>1 DEF LeftBehind
  <2> QED
    BY <1>3, <1>4, <2>1, <2>2
<1> QED
  BY <1>1, <1>2, <1>5, <1>6, <1>7, SearchSteps

\* A dry run commits nothing, pushes nothing and registers no test, although an error
\* takes it to the supervisor and an exhausted set to the next one.
THEOREM DryRunsCommitNothing == Spec => DryRunKeepsCommits
<1> DEFINE Keeps ==
      pc # "down" /\ opts.dryRun
      => /\ UNCHANGED <<head, pushed>>
         /\ tree'.tests = tree.tests
<1>1. Init => DryRunInv
  BY DEF Init, DryRunInv
<1>2. TypeOK /\ DryRunInv /\ [Next]_vars => DryRunInv'
  BY DryRunStep DEF DryRunInv, Search, vars
<1>3. TypeOK /\ DryRunInv /\ [Next]_vars => [Keeps]_vars
  <2> SUFFICES ASSUME TypeOK, DryRunInv, Next, pc # "down", opts.dryRun
               PROVE  UNCHANGED <<head, pushed>> /\ tree'.tests = tree.tests
    OBVIOUS
  <2> QED
    BY SearchLeaves DEF DryRunInv, FindFailing
<1> QED
  BY <1>1, <1>2, <1>3, TypeCorrect, PTL DEF Spec, DryRunKeepsCommits
-----------------------------------------------------------------------------
\* The way to the end of a session.

LEMMA SmallerSubset ==
    ASSUME NEW S, NEW T \in SUBSET S, IsFiniteSet(S), T # S
    PROVE  Cardinality(T) < Cardinality(S)
<1>1. IsFiniteSet(T) /\ Cardinality(T) <= Cardinality(S) /\ Cardinality(T) # Cardinality(S)
  BY FS_Subset
<1>2. Cardinality(T) \in Nat /\ Cardinality(S) \in Nat
  BY <1>1, FS_CardinalityType
<1> QED
  BY <1>1, <1>2

\* The sets behind a set in the order of release are finitely many, and fewer behind
\* the next one; a set that was released later is behind.
LEMMA SetsAfterFalls ==
    ASSUME NEW s \in Sets, NEW next \in Sets, IsReleaseAfter(s, next), IsInjective(ReleaseOrder)
    PROVE  /\ IsFiniteSet(SetsAfter(s))
           /\ SetsAfter(next) \subseteq SetsAfter(s)
           /\ SetsAfter(next) # SetsAfter(s)
           /\ \A j \in SetsAfter(next) : ReleaseOrder[j] # next
           /\ \E j \in SetsAfter(s) : ReleaseOrder[j] = next
<1> USE CardAssumption
<1>1. PICK i \in 1 .. Len(ReleaseOrder) - 1 : ReleaseOrder[i] = s /\ ReleaseOrder[i + 1] = next
  BY DEF IsReleaseAfter
<1>2. /\ Len(ReleaseOrder) \in Nat
      /\ DOMAIN ReleaseOrder = 1 .. Len(ReleaseOrder)
      /\ i \in DOMAIN ReleaseOrder /\ i + 1 \in DOMAIN ReleaseOrder
  OBVIOUS
<1>3. \A j, k \in DOMAIN ReleaseOrder : ReleaseOrder[j] = ReleaseOrder[k] => j = k
  BY DEF IsInjective
<1>4. /\ SetsAfter(s) = i + 1 .. Len(ReleaseOrder)
      /\ SetsAfter(next) = i + 2 .. Len(ReleaseOrder)
  BY <1>1, <1>2, <1>3 DEF SetsAfter
<1>5. IsFiniteSet(SetsAfter(s))
  BY <1>2, <1>4, FS_Interval
<1>6. i + 1 \in SetsAfter(s) /\ i + 1 \notin SetsAfter(next)
  BY <1>2, <1>4
<1>7. SetsAfter(next) \subseteq SetsAfter(s)
  BY <1>2, <1>4
<1>8. \A j \in SetsAfter(next) : ReleaseOrder[j] # next
  <2>1. \A j \in SetsAfter(next) : j \in DOMAIN ReleaseOrder /\ j # i + 1
    BY <1>2, <1>4
  <2> QED
    BY <1>1, <1>2, <1>3, <2>1
<1> QED
  BY <1>1, <1>5, <1>6, <1>7, <1>8

\* A session tracks sets in the order of their release.
LEMMA TrackingInOrder ==
    ASSUME NEW t \in Trees, TrackedInOrder(t.tracked), IsInjective(ReleaseOrder),
           NEW s \in Sets, IsReleaseAfter(Newest(t.tracked), s)
    PROVE  /\ ~IsTracked(t.tracked, s)
           /\ Newest(Tracking(t, s).tracked) = s
           /\ TrackedInOrder(Tracking(t, s).tracked)
<1>1. t.tracked \in Seq(Sets) /\ t.tracked # <<>>
  BY DEF Trees
<1>2. Newest(t.tracked) \in Sets
  BY <1>1 DEF Newest
<1>3. Tracking(t, s).tracked = Append(t.tracked, s)
  BY TrackingTree
<1>4. ~IsTracked(t.tracked, s)
  BY <1>2, SetsAfterFalls DEF TrackedInOrder, IsTracked
<1>5. Newest(Append(t.tracked, s)) = s
  BY <1>1 DEF Newest
<1>6. ASSUME NEW i \in DOMAIN Append(t.tracked, s)
      PROVE  Append(t.tracked, s)[i] = s \/ (i \in DOMAIN t.tracked /\ Append(t.tracked, s)[i] = t.tracked[i])
  BY <1>1
<1>7. TrackedInOrder(Append(t.tracked, s))
  BY <1>2, <1>5, <1>6, SetsAfterFalls DEF TrackedInOrder
<1> QED
  BY <1>3, <1>4, <1>5, <1>7

\* Only an advance tracks a set.
LEMMA TrackedSteps ==
    ASSUME TypeOK, Next
    PROVE  \/ tree'.tracked = tree.tracked
           \/ pc = "down" /\ tree' = head
           \/ AdvanceNewSet
           \/ pc = "advance" /\ pc' \in {"down", "error"} /\ tree' \in HalfAdvanced
<1>1. tree \in Trees /\ published \in SUBSET Cards
  BY DEF TypeOK
<1>2. ASSUME AgentEdits PROVE tree'.tracked = tree.tracked
  BY <1>1, <1>2, WithCodeTree DEF AgentEdits
<1>3. ASSUME tree' = AfterCorpus(tree) PROVE tree'.tracked = tree.tracked
  BY <1>1, <1>3, AfterCorpusTree
<1>4. CASE StepFails \/ Crash
  <2>1. tree' \in LeftBehind /\ pc' \in {"down", "error"}
    BY <1>4 DEF StepFails, Crash, Goto, SessionEnds
  <2>2. CASE tree' \in {WithCode(tree, c) : c \in Code}
    BY <1>1, <2>2, WithCodeTree
  <2>3. CASE pc = "writeTests" /\ tree' = WithTests(tree)
    BY <1>1, <2>3, WithTestsTree DEF TypeOK, IterationSteps
  <2> QED
    BY <1>3, <2>1, <2>2, <2>3 DEF LeftBehind
<1>5. CASE AdvanceFails
  BY <1>5 DEF AdvanceFails, Surface, SessionEnds
<1>6. CASE WriteGeneratedTests
  BY <1>1, <1>6, WithTestsTree DEF WriteGeneratedTests, Step, TypeOK, IterationSteps
<1>7. CASE UNCHANGED tree
  BY <1>7
<1> QED
  BY <1>2, <1>3, <1>4, <1>5, <1>6, <1>7
     DEF Next, SessionStep, Environment, ReachMaxIterations, FindFailing, DryRunStop,
         AllPassStops, AllPassPinned, AllPassAdvances, AdvanceTrackedSet,
         AdvanceNoMoreSets, FocusedAlreadyPass, RefocusPasses, FocusedFails,
         FocusedGivesUp, FocusedRepair, FocusedValidation, GrammarAudit,
         GeneralizationRepair, GeneralizationFocused, GeneralizationAudit, Tier2,
         DownstreamRepair, DownstreamFocused, DownstreamTier2, CorpusGate, GitCommit,
         GitCommitNoChanges, GitPush, SupervisorRepairs, NoSupervisorLeft, RequestStop,
         DiscardTree, DeveloperEdits, RunCorpus, Publish, Withdraw, StartSession, files

OrderInv == TrackedInOrder(tree.tracked) /\ TrackedInOrder(head.tracked)

LEMMA OrderStep ==
    ASSUME IsInjective(ReleaseOrder), TypeOK, OrderInv, [Next]_vars
    PROVE  OrderInv'
<1>1. CASE UNCHANGED vars
  BY <1>1 DEF OrderInv, vars, TrackedInOrder
<1>2. CASE Next
  <2>1. tree \in Trees /\ head \in Trees /\ published \in SUBSET Cards
    BY DEF TypeOK
  <2>2. ASSUME NEW s \in Sets, IsReleaseAfter(Newest(tree.tracked), s)
        PROVE  /\ TrackedInOrder(Tracking(tree, s).tracked)
               /\ TrackedInOrder(Advanced(s).tracked)
    <3>1. Advanced(s).tracked = Tracking(tree, s).tracked
      BY <2>1, TrackingTree, AdvancedTree
    <3>2. TrackedInOrder(Tracking(tree, s).tracked)
      BY <2>1, <2>2, TrackingInOrder DEF OrderInv
    <3> QED
      BY <3>1, <3>2 DEF TrackedInOrder
  <2>3. TrackedInOrder(tree'.tracked)
    <3>1. CASE tree'.tracked = tree.tracked
      BY <3>1 DEF OrderInv
    <3>2. CASE pc = "down" /\ tree' = head
      BY <3>2 DEF OrderInv
    <3>3. CASE AdvanceNewSet
      BY <2>2, <3>3 DEF AdvanceNewSet, IsNextNewSet
    <3>4. CASE tree' \in HalfAdvanced
      BY <2>2, <3>4 DEF HalfAdvanced, IsNextNewSet
    <3> QED
      BY <1>2, <3>1, <3>2, <3>3, <3>4, TrackedSteps
  <2>4. TrackedInOrder(head'.tracked)
    <3>1. GitCommit => head' = tree'
      BY DEF GitCommit
    <3> QED
      BY <1>2, <2>3, <3>1, HeadSteps DEF OrderInv
  <2> QED
    BY <2>3, <2>4 DEF OrderInv, TrackedInOrder
<1> QED
  BY <1>1, <1>2

\* The kinds of steps that do not end a session, by what they use up.
SameSession == UNCHANGED <<published, stop, opts>>

Descends ==
    /\ pc \notin {"down", "push"} /\ pc' \notin {"down", "push"}
    /\ PlaceRank[pc'] < PlaceRank[pc]
    /\ UNCHANGED <<head, supervised>>
    /\ tree'.tracked = tree.tracked

Retries ==
    /\ pc = "error" /\ pc' = "find"
    /\ supervised < opts.supervisorAttempts /\ supervised' = supervised + 1
    /\ head' = head
    /\ tree'.tracked = tree.tracked

TriesAgain ==
    /\ pc = "repair" /\ pc' \in {"repair", "validate"}
    /\ focusedTries < opts.focusedRepairAttempts /\ focusedTries' = focusedTries + 1
    /\ UNCHANGED <<head, supervised>>
    /\ tree'.tracked = tree.tracked

FailsValidation ==
    /\ pc = "validate" /\ pc' = "repair"
    /\ UNCHANGED <<head, supervised, focusedTries, tree>>

LeavesPush == pc = "push" /\ pc' \notin {"push", "down"} /\ head' = head

RunStep ==
    \/ /\ SameSession
       /\ \/ GitCommit \/ LeavesPush \/ AdvanceNewSet \/ AdvanceTrackedSet
          \/ Retries \/ Descends \/ TriesAgain \/ FailsValidation
    \/ /\ UNCHANGED <<tree, head, pc, opts, supervised, focusedTries>>
       /\ published' # published \/ stop' # stop

LEMMA RanksOf ==
    /\ PlaceRank["find"] = 17 /\ PlaceRank["advance"] = 16 /\ PlaceRank["writeTests"] = 16
    /\ PlaceRank["focused"] = 15 /\ PlaceRank["refocus"] = 14 /\ PlaceRank["repair"] = 13
    /\ PlaceRank["validate"] = 13 /\ PlaceRank["audit"] = 12 /\ PlaceRank["generalize"] = 11
    /\ PlaceRank["genFocused"] = 10 /\ PlaceRank["genAudit"] = 9 /\ PlaceRank["tier2"] = 8
    /\ PlaceRank["downstream"] = 7 /\ PlaceRank["downFocused"] = 6 /\ PlaceRank["downTier2"] = 5
    /\ PlaceRank["corpus"] = 4 /\ PlaceRank["commit"] = 3 /\ PlaceRank["push"] = 2
    /\ PlaceRank["error"] = 1 /\ PlaceRank["down"] = 0
  BY DEF PlaceRank

\* Every step of a session with capped focused repairs is of one of these kinds.
LEMMA RunSteps ==
    ASSUME TypeOK, Next, pc # "down", pc' # "down", opts.focusedRepairAttempts # 0
    PROVE  RunStep
<1>1. tree \in Trees /\ opts \in OptionRecords /\ focusedTries \in Nat
  BY AddCardAssumption DEF TypeOK
<1>2. opts.focusedRepairAttempts \in Nat
  BY <1>1 DEF OptionRecords
<1>3. ASSUME NEW reason PROVE ~SessionEnds(reason)
  BY DEF SessionEnds
<1>4. ASSUME NEW from PROVE ~Surface(from)
  BY <1>3 DEF Surface
<1>5. ASSUME AgentEdits PROVE head' = head /\ tree'.tracked = tree.tracked
  BY <1>1, <1>5, WithCodeTree DEF AgentEdits
<1>6. ASSUME NEW from \in Steps \ {"down", "push"}, NEW to \in Steps \ {"down", "push"},
             Step(from, to), PlaceRank[to] < PlaceRank[from],
             head' = head, tree'.tracked = tree.tracked
      PROVE  RunStep
  BY <1>6 DEF Step, Goto, KeepLocals, RunStep, SameSession, Descends
<1> USE DEF Steps, IterationSteps
<1>7. CASE FindFailing
  BY <1>7, RanksOf DEF FindFailing, Goto, files, RunStep, SameSession, Descends
<1>8. CASE AllPassAdvances \/ FocusedAlreadyPass \/ RefocusPasses \/ FocusedFails \/ GrammarAudit
  BY <1>6, <1>8, RanksOf DEF AllPassAdvances, FocusedAlreadyPass, RefocusPasses, FocusedFails,
                             GrammarAudit, files
<1>9. CASE WriteGeneratedTests
  <2>1. tree'.tracked = tree.tracked
    BY <1>1, <1>9, WithTestsTree DEF WriteGeneratedTests, Step, TypeOK
  <2> QED
    BY <1>6, <1>9, <2>1, RanksOf DEF WriteGeneratedTests
<1>10. CASE GeneralizationRepair \/ DownstreamRepair
  BY <1>4, <1>5, <1>6, <1>10, RanksOf DEF GeneralizationRepair, DownstreamRepair
<1>11. CASE GeneralizationFocused \/ GeneralizationAudit \/ Tier2
            \/ DownstreamFocused \/ DownstreamTier2
  BY <1>4, <1>6, <1>11, RanksOf DEF GeneralizationFocused, GeneralizationAudit, Tier2,
                                    DownstreamFocused, DownstreamTier2, files
<1>12. CASE CorpusGate \/ GitCommitNoChanges
  <2>1. tree'.tracked = tree.tracked
    BY <1>1, <1>12, AfterCorpusTree DEF CorpusGate, GitCommitNoChanges, TypeOK
  <2> QED
    BY <1>4, <1>6, <1>12, <2>1, RanksOf DEF CorpusGate, GitCommitNoChanges
<1>13. CASE FocusedRepair
  BY <1>2, <1>1, <1>5, <1>13 DEF FocusedRepair, OutOfFocusedAttempts, Goto, RunStep, SameSession,
                           TriesAgain
<1>14. CASE FocusedValidation
  <2>1. CASE Step("validate", "audit")
    BY <1>6, <1>14, <2>1, RanksOf DEF FocusedValidation, files
  <2>2. CASE Step("validate", "repair")
    BY <1>14, <2>2 DEF FocusedValidation, files, Step, Goto, KeepLocals, RunStep, SameSession,
                       FailsValidation
  <2> QED
    BY <1>14, <2>1, <2>2 DEF FocusedValidation
<1>15. CASE StepFails
  <2>1. /\ head' = head /\ pc' = "error" /\ SameSession /\ supervised' = supervised
        /\ pc \in IterationSteps
    BY <1>15 DEF StepFails, Goto, KeepLocals, SameSession
  <2>2. CASE pc = "push"
    BY <2>1, <2>2 DEF RunStep, LeavesPush
  <2>3. CASE pc # "push"
    <3>1. tree'.tracked = tree.tracked
      <4>1. pc' = "error" /\ ~AdvanceNewSet
        BY <2>1 DEF AdvanceNewSet, AdvanceTo, Goto
      <4>2. pc # "advance"
        BY <2>1
      <4> QED
        BY <4>1, <4>2, TrackedSteps
    <3>2. PlaceRank["error"] < PlaceRank[pc]
      BY <2>1, RanksOf
    <3> QED
      BY <2>1, <2>3, <3>1, <3>2 DEF RunStep, Descends
  <2> QED
    BY <2>2, <2>3
<1>16. CASE SupervisorRepairs
  BY <1>4, <1>5, <1>16 DEF SupervisorRepairs, Goto, RunStep, SameSession, Retries
<1>17. CASE GitPush
  BY <1>3, <1>17 DEF GitPush, Goto, RunStep, SameSession, LeavesPush
<1>18. CASE GitCommit \/ AdvanceNewSet \/ AdvanceTrackedSet
  BY <1>18 DEF GitCommit, AdvanceNewSet, AdvanceTrackedSet, AdvanceTo, Step, Goto, RunStep,
               SameSession
<1>19. CASE RequestStop \/ Publish \/ Withdraw
  BY <1>19 DEF RequestStop, Publish, Withdraw, files, session, RunStep, TypeOK
<1>20. ~\/ ReachMaxIterations \/ DryRunStop \/ AllPassStops \/ AllPassPinned
        \/ AdvanceNoMoreSets \/ AdvanceFails \/ FocusedGivesUp \/ NoSupervisorLeft \/ Crash
        \/ DiscardTree \/ DeveloperEdits \/ RunCorpus \/ \E o \in Options : StartSession(o)
  BY <1>3, <1>4 DEF ReachMaxIterations, DryRunStop, AllPassStops, AllPassPinned,
       AdvanceNoMoreSets, AdvanceFails, FocusedGivesUp, NoSupervisorLeft, Crash, DiscardTree,
       DeveloperEdits, RunCorpus, StartSession
<1> QED
  BY <1>7, <1>8, <1>9, <1>10, <1>11, <1>12, <1>13, <1>14, <1>15, <1>16, <1>17, <1>18, <1>19, <1>20
     DEF Next, SessionStep, Environment

LEMMA BelowInSeven ==
    ASSUME NEW a, NEW b,
           DOMAIN b = 1 .. 7,
           \/ a[1] < b[1]
           \/ a[1] = b[1] /\ a[2] < b[2]
           \/ a[1] = b[1] /\ a[2] = b[2] /\ a[3] < b[3]
           \/ a[1] = b[1] /\ a[2] = b[2] /\ a[3] = b[3] /\ a[4] < b[4]
           \/ a[1] = b[1] /\ a[2] = b[2] /\ a[3] = b[3] /\ a[4] = b[4] /\ a[5] < b[5]
           \/ a[1] = b[1] /\ a[2] = b[2] /\ a[3] = b[3] /\ a[4] = b[4] /\ a[5] = b[5]
              /\ a[6] < b[6]
           \/ a[1] = b[1] /\ a[2] = b[2] /\ a[3] = b[3] /\ a[4] = b[4] /\ a[5] = b[5]
              /\ a[6] = b[6] /\ a[7] < b[7]
    PROVE  Below(a, b)
<1>1. CASE a[1] < b[1]
  BY <1>1 DEF Below
<1>2. CASE a[1] = b[1] /\ a[2] < b[2]
  BY <1>2 DEF Below
<1>3. CASE a[1] = b[1] /\ a[2] = b[2] /\ a[3] < b[3]
  BY <1>3 DEF Below
<1>4. CASE a[1] = b[1] /\ a[2] = b[2] /\ a[3] = b[3] /\ a[4] < b[4]
  BY <1>4 DEF Below
<1>5. CASE a[1] = b[1] /\ a[2] = b[2] /\ a[3] = b[3] /\ a[4] = b[4] /\ a[5] < b[5]
  BY <1>5 DEF Below
<1>6. CASE a[1] = b[1] /\ a[2] = b[2] /\ a[3] = b[3] /\ a[4] = b[4] /\ a[5] = b[5]
           /\ a[6] < b[6]
  BY <1>6 DEF Below
<1>7. CASE a[1] = b[1] /\ a[2] = b[2] /\ a[3] = b[3] /\ a[4] = b[4] /\ a[5] = b[5]
           /\ a[6] = b[6] /\ a[7] < b[7]
  BY <1>7 DEF Below
<1> QED
  BY <1>1, <1>2, <1>3, <1>4, <1>5, <1>6, <1>7

\* A step of a session leaves less to do.
LEMMA SessionDescends ==
    ASSUME IsFiniteSet(Cards), IsInjective(ReleaseOrder),
           TypeOK, TypeOK', GatedInv, ProgressInv, OrderInv,
           Next, pc # "down", pc' # "down", opts.focusedRepairAttempts # 0
    PROVE  IF published' = published /\ stop' = stop
             THEN Below(Remaining', Remaining)
             ELSE Remaining' = Remaining
<1> DEFINE a == Remaining'
           b == Remaining
<1>1. /\ tree \in Trees /\ opts \in OptionRecords /\ opts' \in OptionRecords
      /\ focusedTries \in Nat /\ supervised \in Nat
      /\ published \in SUBSET Cards
  BY AddCardAssumption DEF TypeOK
<1>2. opts.focusedRepairAttempts \in Nat /\ opts.supervisorAttempts \in Nat
  BY <1>1 DEF OptionRecords
<1>3. DOMAIN Remaining = 1 .. 7
  BY DEF Remaining
<1>4. /\ a[1] = Cardinality(Cards \ head'.report.pass)
      /\ a[2] = IF pc' = "push" THEN 1 ELSE 0
      /\ a[3] = Cardinality(SetsAfter(Newest(tree'.tracked)))
      /\ a[4] = Left(supervised', opts'.supervisorAttempts)
      /\ a[5] = PlaceRank[pc']
      /\ a[6] = Left(focusedTries', opts'.focusedRepairAttempts)
      /\ a[7] = IF pc' = "validate" THEN 1 ELSE 0
  BY DEF Remaining, SetsAfter, PlaceRank
<1>5. /\ b[1] = Cardinality(Cards \ head.report.pass)
      /\ b[2] = IF pc = "push" THEN 1 ELSE 0
      /\ b[3] = Cardinality(SetsAfter(Newest(tree.tracked)))
      /\ b[4] = Left(supervised, opts.supervisorAttempts)
      /\ b[5] = PlaceRank[pc]
      /\ b[6] = Left(focusedTries, opts.focusedRepairAttempts)
      /\ b[7] = IF pc = "validate" THEN 1 ELSE 0
  BY DEF Remaining
<1> HIDE DEF a, b
<1>6. RunStep
  BY RunSteps
<1>7. CASE /\ UNCHANGED <<tree, head, pc, opts, supervised, focusedTries>>
           /\ published' # published \/ stop' # stop
  BY <1>7 DEF Remaining, SetsAfter
<1>8. CASE SameSession /\ GitCommit
  <2>1. /\ head.report.pass \subseteq head'.report.pass
        /\ card \in head'.report.pass \ head.report.pass
    BY <1>8, CommitGains
  <2>2. card \in Cards
    BY <1>8 DEF GitCommit, Step, TypeOK, IterationSteps
  <2>3. a[1] < b[1]
    <3>1. IsFiniteSet(Cards \ head.report.pass)
      BY FS_Subset
    <3>2. Cards \ head'.report.pass \in SUBSET (Cards \ head.report.pass)
      BY <2>1
    <3>3. Cards \ head'.report.pass # Cards \ head.report.pass
      BY <2>1, <2>2
    <3>4. Cardinality(Cards \ head'.report.pass) < Cardinality(Cards \ head.report.pass)
      BY <3>1, <3>2, <3>3, SmallerSubset
    <3> QED
      BY <1>4, <1>5, <3>4
  <2> QED
    BY <1>3, <1>8, <2>3, BelowInSeven DEF SameSession, b, a
<1>9. CASE SameSession /\ LeavesPush
  <2>1. a[1] = b[1] /\ a[2] < b[2]
    BY <1>4, <1>5, <1>9 DEF LeavesPush
  <2> QED
    BY <1>3, <1>9, <2>1, BelowInSeven DEF SameSession, b, a
<1>10. CASE SameSession /\ AdvanceNewSet
  <2>1. PICK next \in Sets : /\ IsReleaseAfter(Newest(tree.tracked), next)
                             /\ tree' = Advanced(next)
    BY <1>10 DEF AdvanceNewSet, IsNextNewSet
  <2>2. head' = head /\ pc = "advance" /\ pc' = "find"
    BY <1>10 DEF AdvanceNewSet, AdvanceTo, Goto
  <2>3. tree'.tracked = Tracking(tree, next).tracked
    BY <1>1, <2>1, TrackingTree, AdvancedTree
  <2>4. Newest(tree'.tracked) = next
    BY <1>1, <2>1, <2>3, TrackingInOrder DEF OrderInv
  <2>5. Newest(tree.tracked) \in Sets
    BY <1>1 DEF Trees, Newest
  <2>6. /\ IsFiniteSet(SetsAfter(Newest(tree.tracked)))
        /\ SetsAfter(next) \in SUBSET SetsAfter(Newest(tree.tracked))
        /\ SetsAfter(next) # SetsAfter(Newest(tree.tracked))
    BY <2>1, <2>5, SetsAfterFalls
  <2>7. Cardinality(SetsAfter(next)) < Cardinality(SetsAfter(Newest(tree.tracked)))
    BY <2>6, SmallerSubset
  <2>8. a[1] = b[1] /\ a[2] = b[2] /\ a[3] < b[3]
    BY <1>4, <1>5, <2>2, <2>4, <2>7
  <2> QED
    BY <1>3, <1>10, <2>8, BelowInSeven DEF SameSession, b, a
<1>11. ~AdvanceTrackedSet
  BY <1>1, TrackingInOrder DEF AdvanceTrackedSet, OrderInv
<1>12. CASE SameSession /\ Retries
  <2>1. a[1] = b[1] /\ a[2] = b[2] /\ a[3] = b[3]
    BY <1>4, <1>5, <1>12 DEF Retries
  <2>2. a[4] < b[4]
    BY <1>1, <1>2, <1>4, <1>5, <1>12 DEF Retries, SameSession, Left
  <2> QED
    BY <1>3, <1>12, <2>1, <2>2, BelowInSeven DEF SameSession, b, a
<1>13. CASE SameSession /\ Descends
  <2>1. a[1] = b[1] /\ a[2] = b[2] /\ a[3] = b[3]
    BY <1>4, <1>5, <1>13 DEF Descends
  <2>2. a[4] = b[4] /\ a[5] < b[5]
    BY <1>4, <1>5, <1>13 DEF Descends, SameSession
  <2> QED
    BY <1>3, <1>13, <2>1, <2>2, BelowInSeven DEF SameSession, b, a
<1>14. CASE SameSession /\ TriesAgain
  <2>1. a[1] = b[1] /\ a[2] = b[2] /\ a[3] = b[3]
    BY <1>4, <1>5, <1>14 DEF TriesAgain
  <2>2. a[4] = b[4] /\ a[5] = b[5]
    BY <1>4, <1>5, <1>14, RanksOf DEF TriesAgain, SameSession
  <2>3. a[6] < b[6]
    BY <1>1, <1>2, <1>4, <1>5, <1>14 DEF TriesAgain, SameSession, Left
  <2> QED
    BY <1>3, <1>14, <2>1, <2>2, <2>3, BelowInSeven DEF SameSession, b, a
<1>15. CASE SameSession /\ FailsValidation
  <2>1. a[1] = b[1] /\ a[2] = b[2] /\ a[3] = b[3]
    BY <1>4, <1>5, <1>15 DEF FailsValidation
  <2>2. a[4] = b[4] /\ a[5] = b[5]
    BY <1>4, <1>5, <1>15, RanksOf DEF FailsValidation, SameSession
  <2>3. a[6] = b[6] /\ a[7] < b[7]
    BY <1>4, <1>5, <1>15 DEF FailsValidation, SameSession
  <2> QED
    BY <1>3, <1>15, <2>1, <2>2, <2>3, BelowInSeven DEF SameSession, b, a
<1> QED
  BY <1>6, <1>7, <1>8, <1>9, <1>10, <1>11, <1>12, <1>13, <1>14, <1>15 DEF RunStep

\* What is left to do is seven numbers.
LEMMA RemainingTyped ==
    ASSUME IsFiniteSet(Cards), TypeOK
    PROVE  Remaining \in Tuples(7)
<1>1. /\ opts \in OptionRecords /\ focusedTries \in Nat /\ supervised \in Nat /\ pc \in Steps
  BY AddCardAssumption DEF TypeOK
<1>2. Cardinality(Cards \ head.report.pass) \in Nat
  BY FS_Subset, FS_CardinalityType
<1>3. Cardinality(SetsAfter(Newest(tree.tracked))) \in Nat
  <2>1. DOMAIN ReleaseOrder = 1 .. Len(ReleaseOrder) /\ Len(ReleaseOrder) \in Nat
    BY CardAssumption
  <2>2. SetsAfter(Newest(tree.tracked)) \in SUBSET (1 .. Len(ReleaseOrder))
    BY <2>1 DEF SetsAfter
  <2>3. IsFiniteSet(1 .. Len(ReleaseOrder))
    BY <2>1, FS_Interval
  <2>4. IsFiniteSet(SetsAfter(Newest(tree.tracked)))
    BY <2>2, <2>3, FS_Subset
  <2> QED
    BY <2>4, FS_CardinalityType
<1>4. /\ Left(supervised, opts.supervisorAttempts) \in Nat
      /\ Left(focusedTries, opts.focusedRepairAttempts) \in Nat
  BY <1>1 DEF OptionRecords, Left
<1>5. PlaceRank[pc] \in Nat
  BY <1>1, RanksOf DEF Steps, IterationSteps
<1> QED
  BY <1>2, <1>3, <1>4, <1>5 DEF Remaining, Tuples

\* Each step of a session uses up something of which there is finitely much: a card to
\* support, a push, a set to advance to, a supervisor attempt, a place on the way to
\* the end of the iteration, or a focused attempt.  Cards must not be withdrawn, the
\* focused repairs be capped, and sets tracked in the order of their release.
THEOREM SessionsRunDown ==
    ASSUME ~Withdrawals, IsFiniteSet(Cards), IsInjective(ReleaseOrder),
           TrackedInOrder(InitTracked)
    PROVE  Spec => SessionRunsDown /\ [](Remaining \in Tuples(7))
<1> DEFINE Falls ==
      pc # "down" /\ pc' # "down" /\ opts.focusedRepairAttempts # 0 =>
         IF published' = published /\ stop' = stop
           THEN Below(Remaining', Remaining)
           ELSE Remaining' = Remaining
<1>1. Init => OrderInv
  <2> SUFFICES ASSUME Init PROVE OrderInv
    OBVIOUS
  <2>1. tree.tracked = InitTracked /\ head = tree
    BY DEF Init
  <2> QED
    BY <2>1 DEF OrderInv
<1>2. TypeOK /\ OrderInv /\ [Next]_vars => OrderInv'
  BY OrderStep
<1>3. TypeOK /\ GatedInv /\ ProgressInv /\ [Next]_vars => ProgressInv'
  BY ProgressStep
<1>4. TypeOK /\ TypeOK' /\ GatedInv /\ ProgressInv /\ OrderInv /\ [Next]_vars => [Falls]_vars
  BY SessionDescends
<1>5. TypeOK => Remaining \in Tuples(7)
  BY RemainingTyped
<1> QED
  BY <1>1, <1>2, <1>3, <1>4, <1>5, ProgressInit, GatedCorrect, TypeCorrect, PTL
     DEF Spec, SessionRunsDown
=============================================================================

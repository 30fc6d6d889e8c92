-------------------------- MODULE ConceptGrindProofs --------------------------
(***************************************************************************)
(* Theorems about ConceptGrind, for any rules, concepts, command lines and *)
(* trees.                                                                  *)
(***************************************************************************)
EXTENDS ConceptGrind, TLAPS

InIteration == pc \notin {"down", "top"}

-----------------------------------------------------------------------------
\* Type correctness.

\* What the locals of run_grind are where they are used.
TypeInv ==
    /\ TypeOK
    /\ pc = "down" => iteration = 1
    /\ ~InIteration => repairs = 0 /\ rule = NoRule
    /\ InIteration => /\ iteration <= opts.maxIterations
                      /\ rule \in Rules
                      /\ concept \in Concepts
    /\ pc = "fastCheck" => snapshot \in Trees

\* The parts of a tree.
LEMMA TreeParts ==
    ASSUME NEW t \in Trees
    PROVE  /\ t.rules \in SUBSET Rules /\ t.pest \in PestVersions
           /\ t.green \in SUBSET Concepts /\ t.marked \in SUBSET Concepts
           /\ t.owns \in [Concepts -> SUBSET Rules]
           /\ \A c \in Concepts : t.owns[c] \subseteq t.rules
  BY DEF Trees, Files

\* Maturity marks and the fast path make a tree out of a tree.
LEMMA MarksMakeTrees ==
    ASSUME NEW t \in Trees, NEW marked \in SUBSET Concepts
    PROVE  [t EXCEPT !.marked = marked] \in Trees
  BY DEF Trees, Files

LEMMA CleanedIsTree == head \in Trees /\ tree \in Trees => Cleaned \in Trees
  BY DEF Cleaned, Trees, Files

\* Cleaning up changes nothing but the seeds.
LEMMA CleanedKeeps ==
    ASSUME head \in Trees, tree \in Trees
    PROVE  /\ Cleaned.seeds = head.seeds /\ Cleaned.replays = tree.replays
           /\ Cleaned.rules = tree.rules /\ Cleaned.owns = tree.owns
           /\ Cleaned.green = tree.green /\ Cleaned.marked = tree.marked
           /\ Cleaned.pest = tree.pest /\ Cleaned.stray = tree.stray
           /\ Unmapped(Cleaned) = Unmapped(tree)
           /\ \A b \in Trees : Improves(b, tree) => Improves(b, Cleaned)
<1>1. /\ Cleaned.seeds = head.seeds /\ Cleaned.replays = tree.replays
      /\ Cleaned.rules = tree.rules /\ Cleaned.owns = tree.owns
      /\ Cleaned.green = tree.green /\ Cleaned.marked = tree.marked
      /\ Cleaned.pest = tree.pest /\ Cleaned.stray = tree.stray
  BY DEF Cleaned, Trees, Files
<1>2. Mapped(Cleaned) = Mapped(tree)
  BY <1>1 DEF Mapped
<1>3. Unmapped(Cleaned) = Unmapped(tree)
  BY <1>1, <1>2 DEF Unmapped
<1> QED
  BY <1>1, <1>2, <1>3 DEF Improves

LEMMA FastPathMakesTrees ==
    ASSUME NEW t \in Trees, NEW c \in Concepts, NEW owned \in SUBSET t.rules,
           NEW green \in SUBSET Concepts, NEW marked \in SUBSET Concepts
    PROVE  [t EXCEPT !.owns[c] = owned, !.green = green, !.marked = marked] \in Trees
<1> DEFINE u == [t EXCEPT !.owns[c] = owned, !.green = green, !.marked = marked]
<1>1. u \in Files
  BY DEF Trees, Files
<1>2. ASSUME NEW d \in Concepts PROVE u.owns[d] \subseteq u.rules
  BY <1>2, TreeParts DEF Trees, Files
<1> QED
  BY <1>1, <1>2 DEF Trees

LEMMA TypeInit == Init => TypeInv
<1> SUFFICES ASSUME Init PROVE TypeInv
  OBVIOUS
<1>1. InitTree \in Trees /\ InitTree.pest \in PestVersions
  BY TreeParts, GrindAssumption
<1>2. opts.maxIterations \in Nat \ {0} /\ opts.repairAttempts \in Nat
  BY GrindAssumption DEF Init, CommandLines
<1> QED
  BY <1>1, <1>2, GrindAssumption DEF Init, TypeInv, TypeOK, InIteration, Places, Paths

\* The beginnings and ends that actions share.
LEMMA SessionEndsTypes ==
    ASSUME TypeInv, SessionEnds, head' \in Trees, tree' \in Trees, index' \in PestVersions,
           persisted' \in SUBSET Rules, obeyed' \in BOOLEAN
    PROVE  TypeInv'
<1>1. opts.maxIterations \in Nat \ {0} /\ opts.repairAttempts \in Nat
  BY GrindAssumption DEF TypeInv, TypeOK, CommandLines
<1> QED
  BY <1>1 DEF TypeInv, TypeOK, SessionEnds, LeaveIteration, InIteration, Places, Paths

LEMMA NextIterationTypes ==
    ASSUME TypeInv, InIteration, NextIteration, head' \in Trees, tree' \in Trees,
           index' \in PestVersions, persisted' \in SUBSET Rules, obeyed' \in BOOLEAN,
           opts' = opts, blocked' \in SUBSET Rules, cooled' \in SUBSET Plumbing
    PROVE  TypeInv'
<1>1. opts.maxIterations \in Nat \ {0} /\ opts.repairAttempts \in Nat
  BY GrindAssumption DEF TypeInv, TypeOK, CommandLines
<1> QED
  BY <1>1 DEF TypeInv, TypeOK, NextIteration, LeaveIteration, InIteration, Places, Paths

LEMMA GotoTypes ==
    ASSUME TypeInv, InIteration, NEW place \in Places \ {"down", "top"}, Goto(place),
           head' \in Trees, tree' \in Trees, index' \in PestVersions,
           persisted' \in SUBSET Rules, obeyed' \in BOOLEAN, rule' = rule,
           concept' \in Concepts, UNCHANGED before, path' \in Paths,
           snapshot' \in Trees \cup {NoTree}, place = "fastCheck" => snapshot' \in Trees,
           repairs' \in 0 .. opts.repairAttempts
    PROVE  TypeInv'
<1>1. opts.maxIterations \in Nat \ {0} /\ opts.repairAttempts \in Nat
  BY GrindAssumption DEF TypeInv, TypeOK, CommandLines
<1> QED
  BY <1>1 DEF TypeInv, TypeOK, Goto, session, InIteration, Places, Paths

\* Every step keeps the types, one case per action.
LEMMA TypeStep == TypeInv /\ [Next]_vars => TypeInv'
<1> SUFFICES ASSUME TypeInv, [Next]_vars PROVE TypeInv'
  OBVIOUS
<1> USE GrindAssumption
<1>a. opts.maxIterations \in Nat \ {0} /\ opts.repairAttempts \in Nat
  BY DEF TypeInv, TypeOK, CommandLines
<1>b. /\ head \in Trees /\ tree \in Trees /\ index \in PestVersions /\ obeyed \in BOOLEAN
      /\ persisted \in SUBSET Rules /\ blocked \in SUBSET Rules /\ cooled \in SUBSET Plumbing
      /\ path \in Paths /\ snapshot \in Trees \cup {NoTree}
      /\ repairs \in 0 .. opts.repairAttempts
  BY DEF TypeInv, TypeOK
<1>c. head.pest \in PestVersions /\ tree.pest \in PestVersions
  BY <1>b, TreeParts
<1>d. Edited \subseteq Trees
  BY <1>b DEF Edited
<1>e. InIteration => concept \in Concepts /\ rule \in Rules /\ Marked(tree) \in Trees
  <2>1. InIteration => concept \in Concepts /\ rule \in Rules
    BY DEF TypeInv
  <2>2. tree.marked \in SUBSET Concepts
    BY <1>b, TreeParts
  <2> QED
    BY <1>b, <2>1, <2>2, MarksMakeTrees DEF Marked
<1>stutter. CASE UNCHANGED vars
  BY <1>stutter DEF vars, TypeInv, TypeOK, InIteration
<1>1. CASE StartSession
  <2>1. iteration = 1 /\ repairs = 0
    BY <1>1 DEF StartSession, TypeInv, InIteration
  <2>2. opts'.maxIterations \in Nat \ {0} /\ opts'.repairAttempts \in Nat
    BY <1>1 DEF StartSession, CommandLines
  <2> QED
    BY <1>1, <1>b, <2>1, <2>2 DEF StartSession, git, gap, TypeInv, TypeOK, InIteration, Places
<1>2. CASE StopSession \/ DryRunStop
  BY <1>2, <1>b, SessionEndsTypes DEF StopSession, DryRunStop, git
<1>3. CASE SelectGap
  <2>1. Candidates \subseteq Rules
    BY <1>b, TreeParts DEF Candidates, Unmapped
  <2>2. PICK place \in {"boundary", "combined"} : Goto(place)
    BY <1>3 DEF SelectGap
  <2>3. rule' \in Rules /\ concept' \in Concepts
    BY <1>3, <2>1 DEF SelectGap
  <2>4. repairs = 0 /\ pc = "top"
    BY <1>3 DEF SelectGap, TypeInv, InIteration
  <2> QED
    BY <1>3, <1>a, <1>b, <2>2, <2>3, <2>4
       DEF SelectGap, Goto, session, git, TypeInv, TypeOK, InIteration, Places
<1>4. CASE CombinedSucceeds \/ CombinedFallsBack
  <2>1. PICK place \in {"gates", "boundary"} : Goto(place)
    BY <1>4 DEF CombinedSucceeds, CombinedFallsBack
  <2>2. InIteration
    BY <1>4 DEF CombinedSucceeds, CombinedFallsBack, InIteration
  <2>3. tree' \in Trees /\ concept' \in Concepts /\ path' \in Paths /\ index' \in PestVersions
    BY <1>4, <1>b, <1>c, <1>d, <1>e, <2>2 DEF CombinedSucceeds, CombinedFallsBack, git, gap, Paths
  <2> QED
    BY <1>4, <1>b, <2>1, <2>2, <2>3, GotoTypes
       DEF CombinedSucceeds, CombinedFallsBack, git, gap, Places
<1>5. CASE BoundaryBlocks
  <2>1. InIteration /\ tree' \in Trees /\ index' \in PestVersions /\ head' \in Trees
    BY <1>5, <1>b, <1>d DEF BoundaryBlocks, BoundaryAgent, InIteration, git
  <2>2. obeyed' \in BOOLEAN
    BY <1>5, Zenon DEF BoundaryBlocks, BoundaryAgent
  <2>3. persisted' \in SUBSET Rules
    BY <1>5, <1>b, <1>e, <2>1 DEF BoundaryBlocks
  <2>4. CASE SessionEnds
    BY <2>1, <2>2, <2>3, <2>4, SessionEndsTypes
  <2>5. CASE NextIteration /\ ~SessionEnds
    <3>1. opts' = opts /\ blocked' \in SUBSET Rules /\ cooled' \in SUBSET Plumbing
      BY <1>5, <1>b, <1>e, <2>1, <2>5 DEF BoundaryBlocks
    <3> QED
      BY <2>1, <2>2, <2>3, <2>5, <3>1, NextIterationTypes
  <2> QED
    BY <1>5, <2>4, <2>5 DEF BoundaryBlocks
<1>6. CASE BoundaryOwns
  <2>1. PICK place \in {"fast", "patch"} : Goto(place)
    BY <1>6 DEF BoundaryOwns
  <2>2. InIteration /\ tree' \in Trees
    BY <1>6, <1>d DEF BoundaryOwns, BoundaryAgent, InIteration
  <2>3. obeyed' \in BOOLEAN
    BY <1>6, Zenon DEF BoundaryOwns, BoundaryAgent
  <2> QED
    BY <1>6, <1>b, <2>1, <2>2, <2>3, GotoTypes DEF BoundaryOwns, git, Places
<1>7. CASE FastPathWrites
  <2>1. InIteration
    BY <1>7 DEF FastPathWrites, InIteration
  <2>2. PICK owned \in SUBSET (tree.rules \ Shared), fixture \in {{}, {concept}} :
            tree' = [tree EXCEPT !.owns[concept] = owned,
                                 !.green = (@ \ {concept}) \cup fixture,
                                 !.marked = @ \ {concept}]
    BY <1>7 DEF FastPathWrites
  <2>3. (tree.green \ {concept}) \cup fixture \in SUBSET Concepts
    BY <1>b, <1>e, <2>1, TreeParts
  <2>4. tree.marked \ {concept} \in SUBSET Concepts
    BY <1>b, TreeParts
  <2>5. tree' \in Trees
    BY <1>b, <1>e, <2>1, <2>2, <2>3, <2>4, FastPathMakesTrees
  <2> QED
    BY <1>7, <1>b, <1>e, <2>1, <2>5, GotoTypes DEF FastPathWrites, git, gap, Places
<1>8. CASE FastPathSucceeds \/ FastPathFallsBack
  <2>1. PICK place \in {"gates", "patch"} : Goto(place)
    BY <1>8 DEF FastPathSucceeds, FastPathFallsBack
  <2>2. InIteration /\ snapshot \in Trees
    BY <1>8 DEF FastPathSucceeds, FastPathFallsBack, InIteration, TypeInv
  <2> QED
    BY <1>8, <1>b, <1>e, <2>1, <2>2, GotoTypes
       DEF FastPathSucceeds, FastPathFallsBack, git, gap, Places, Paths
<1>9. CASE PatchAgent \/ Repair
  <2>1. InIteration /\ Goto("gates") /\ tree' \in Trees
    BY <1>9, <1>d DEF PatchAgent, Repair, InIteration
  <2>2. repairs' \in 0 .. opts.repairAttempts
    BY <1>9, <1>a, <1>b DEF PatchAgent, Repair
  <2> QED
    BY <1>9, <1>b, <1>e, <2>1, <2>2, GotoTypes DEF PatchAgent, Repair, git, gap, Places, Paths
<1>10. CASE GatesPass
  BY <1>10, <1>b, <1>e, GotoTypes DEF GatesPass, InIteration, git, gap, Places
<1>11. CASE \E phase \in {"map", "final"} : ContractHolds(phase) \/ ContractRepaired(phase)
  <2>1. PICK place \in {"mature", "close"} : Goto(place)
    BY <1>11 DEF ContractHolds, ContractRepaired, After
  <2>2. InIteration /\ tree' \in Trees
    BY <1>11, <1>b, <1>d DEF ContractHolds, ContractRepaired, InIteration
  <2> QED
    BY <1>11, <1>b, <1>e, <2>1, <2>2, GotoTypes DEF ContractHolds, ContractRepaired, git, gap, Places
<1>12. CASE UpdateMaturity
  <2>1. InIteration
    BY <1>12 DEF UpdateMaturity, InIteration
  <2>2. tree.marked \ {concept} \in SUBSET Concepts
    BY <1>b, TreeParts
  <2>3. tree' \in Trees
    BY <1>12, <1>b, <1>e, <2>1, <2>2, MarksMakeTrees DEF UpdateMaturity
  <2> QED
    BY <1>12, <1>b, <1>e, <2>1, <2>3, GotoTypes DEF UpdateMaturity, git, gap, Places
<1>13. CASE Close
  <2>1. InIteration
    BY <1>13 DEF Close, InIteration
  <2>2. tree' \in Trees
    BY <1>13, <1>e, <2>1 DEF Close
  <2>3. CASE Goto("commit") /\ UNCHANGED <<gap, path, snapshot, repairs>>
    BY <1>13, <1>b, <1>e, <2>1, <2>2, <2>3, GotoTypes DEF Close, git, gap, Places
  <2>4. CASE NextIteration /\ UNCHANGED session
    BY <1>13, <1>b, <2>1, <2>2, <2>4, NextIterationTypes DEF Close, git, session
  <2> QED
    BY <1>13, <2>3, <2>4 DEF Close
<1>14. CASE Commit
  BY <1>14, <1>b, <1>c, <1>e, CleanedIsTree, GotoTypes DEF Commit, InIteration, gap, Places
<1>15. CASE NothingToCommit \/ Push
  <2>1. InIteration
    BY <1>15 DEF NothingToCommit, Push, InIteration
  <2> QED
    BY <1>15, <1>b, <1>c, <2>1, NextIterationTypes DEF NothingToCommit, Push, git, session
<1>16. CASE Die
  <2>1. InIteration => tree' \in Trees
    BY <1>16, <1>b, <1>d, <1>e, CleanedIsTree DEF Die
  <2>2. ~InIteration => tree' = tree
    BY <1>16 DEF Die, InIteration
  <2>3. persisted' \in SUBSET Rules
    BY <1>16, <1>b, <1>e DEF Die, InIteration
  <2>4. index' \in PestVersions
    BY <1>16, <1>b, <1>c DEF Die
  <2> QED
    BY <1>16, <1>b, <2>1, <2>2, <2>3, <2>4, SessionEndsTypes DEF Die
<1>17. CASE DiscardTree \/ DeveloperEdits
  <2>1. tree' \in Trees
    BY <1>17, <1>b DEF DiscardTree, DeveloperEdits
  <2>2. index' \in PestVersions
    BY <1>17, <1>b, <1>c, <2>1, TreeParts DEF DiscardTree, DeveloperEdits
  <2> QED
    BY <1>17, <2>1, <2>2
       DEF DiscardTree, DeveloperEdits, session, gap, TypeInv, TypeOK, InIteration
<1> QED
  BY <1>stutter, <1>1, <1>2, <1>3, <1>4, <1>5, <1>6, <1>7, <1>8, <1>9, <1>10, <1>11, <1>12,
     <1>13, <1>14, <1>15, <1>16, <1>17 DEF Next, Iterate

\* Every variable keeps its type.
THEOREM GrindTypes == Spec => []TypeOK
<1>1. TypeInv => TypeOK
  BY DEF TypeInv
<1> QED
  BY <1>1, TypeInit, TypeStep, PTL DEF Spec
-----------------------------------------------------------------------------
\* What is known of the files.

\* A session that refuses to work over uncommitted changes.
Careful == ~opts.allowDirty /\ ~opts.dryRun

\* From the first gates that pass to the commit, the tree has passed them, and what
\* is about to be committed has passed the last ones too.
GatesInv ==
    /\ pc \in {"map", "mature", "final", "close", "commit"} => TestsPass(tree) /\ concept \in tree.green
    /\ pc = "commit" => /\ ~opts.noCommit
                        /\ concept \in tree.marked
                        /\ GapClosed(rule, concept, before, tree)
                        /\ path = "fast" => tree.pest = index

\* A careful session stages nothing but what it commits.
IndexInv ==
    /\ InIteration => ~opts.dryRun
    /\ pc # "down" /\ Careful => index = head.pest

\* Where a careful session that commits stands on the last commit, if its boundary
\* agents only read.
HeadInv ==
    Careful /\ ~opts.noCommit /\ obeyed =>
        /\ pc \in {"top", "combined", "boundary", "fast", "patch", "push"} => tree = head
        /\ pc = "fastCheck" => snapshot = head
        /\ InIteration /\ pc # "push" => before = head

\* A session has every rule of the logs in blocked_targets.
BlockInv == pc # "down" => persisted \subseteq blocked

SafetyInv == GatesInv /\ IndexInv /\ HeadInv /\ BlockInv
LEMMA GatesStep == TypeInv /\ GatesInv /\ [Next]_vars => GatesInv'
<1> SUFFICES ASSUME TypeInv, GatesInv, [Next]_vars PROVE GatesInv'
  OBVIOUS
<1>a. ASSUME NextIteration \/ SessionEnds PROVE GatesInv'
  BY <1>a DEF NextIteration, SessionEnds, GatesInv
<1>b. tree \in Trees
  BY DEF TypeInv, TypeOK
<1>c. InIteration => concept \in Concepts
  BY DEF TypeInv
<1>stutter. CASE UNCHANGED vars
  BY <1>stutter DEF vars, GatesInv, GapClosed, Improves, Mapped, Unmapped
<1>1. CASE StartSession \/ SelectGap \/ DiscardTree \/ DeveloperEdits
  BY <1>1 DEF StartSession, SelectGap, DiscardTree, DeveloperEdits, Goto, GatesInv
<1>2. CASE StopSession \/ DryRunStop \/ Die \/ NothingToCommit \/ Push
  BY <1>2, <1>a DEF StopSession, DryRunStop, Die, NothingToCommit, Push
<1>3. CASE CombinedSucceeds \/ CombinedFallsBack \/ BoundaryOwns
  BY <1>3 DEF CombinedSucceeds, CombinedFallsBack, BoundaryOwns, Goto, GatesInv
<1>4. CASE BoundaryBlocks
  BY <1>4, <1>a DEF BoundaryBlocks
<1>5. CASE FastPathWrites \/ FastPathSucceeds \/ FastPathFallsBack \/ PatchAgent \/ Repair
  BY <1>5 DEF FastPathWrites, FastPathSucceeds, FastPathFallsBack, PatchAgent, Repair, Goto,
              GatesInv
<1>6. CASE GatesPass
  BY <1>6 DEF GatesPass, GatesCanPass, Goto, gap, GatesInv
<1>7. CASE \E phase \in {"map", "final"} : ContractHolds(phase) \/ ContractRepaired(phase)
  <2>1. pc' \in {"mature", "close"}
    BY <1>7 DEF ContractHolds, ContractRepaired, After, Goto
  <2>2. TestsPass(tree') /\ concept \in tree'.green
    BY <1>7 DEF ContractHolds, ContractRepaired, GatesCanPass, GatesInv
  <2> QED
    BY <1>7, <2>1, <2>2 DEF ContractHolds, ContractRepaired, gap, GatesInv
<1>8. CASE UpdateMaturity
  <2>1. /\ tree'.seeds = tree.seeds /\ tree'.replays = tree.replays
        /\ tree'.green = tree.green
    BY <1>8, <1>b DEF UpdateMaturity, Marked, Trees, Files
  <2> QED
    BY <1>8, <2>1 DEF UpdateMaturity, Goto, gap, GatesInv, TestsPass
<1>9. CASE Close
  <2>1. CASE NextIteration
    BY <1>a, <2>1
  <2>2. CASE ~opts.noCommit /\ Goto("commit") /\ UNCHANGED <<gap, path, snapshot, repairs>>
    <3>1. /\ tree'.seeds = tree.seeds /\ tree'.replays = tree.replays
          /\ tree'.green = tree.green
          /\ tree'.pest = tree.pest /\ concept \in tree'.marked
      BY <1>9, <1>b, <1>c DEF Close, InIteration, Marked, Trees, Files
    <3>2. pc = "close" /\ UNCHANGED <<opts, rule, concept, before, path, index>>
      BY <1>9, <2>2 DEF Close, Goto, session, gap, git
    <3>3. GapClosed(rule, concept, before, tree)'
      BY <1>9, <3>2 DEF Close, GapClosed, Improves, Mapped, Unmapped
    <3>4. path = "fast" => tree.pest = index
      BY <1>9, <3>1 DEF Close
    <3> QED
      BY <2>2, <3>1, <3>2, <3>3, <3>4 DEF GatesInv, TestsPass
  <2> QED
    BY <1>9, <2>1, <2>2 DEF Close
<1>10. CASE Commit
  BY <1>10 DEF Commit, Goto, GatesInv
<1> QED
  BY <1>stutter, <1>1, <1>2, <1>3, <1>4, <1>5, <1>6, <1>7, <1>8, <1>9, <1>10 DEF Next, Iterate

LEMMA IndexStep == TypeInv /\ IndexInv /\ [Next]_vars => IndexInv'
<1> SUFFICES ASSUME TypeInv, IndexInv, [Next]_vars PROVE IndexInv'
  OBVIOUS
<1> USE DEF IndexInv, InIteration, Careful
<1>stutter. CASE UNCHANGED vars
  BY <1>stutter DEF vars
<1>1. CASE StartSession
  BY <1>1 DEF StartSession, git
<1>2. CASE StopSession \/ DryRunStop \/ Die
  BY <1>2 DEF StopSession, DryRunStop, Die, SessionEnds
<1>3. CASE SelectGap \/ CombinedSucceeds \/ CombinedFallsBack \/ BoundaryOwns
  BY <1>3 DEF SelectGap, CombinedSucceeds, CombinedFallsBack, BoundaryOwns, Goto, session, git
<1>4. CASE BoundaryBlocks
  BY <1>4 DEF BoundaryBlocks, SessionEnds, NextIteration, git
<1>5. CASE FastPathWrites \/ FastPathSucceeds \/ FastPathFallsBack \/ PatchAgent \/ Repair
  BY <1>5 DEF FastPathWrites, FastPathSucceeds, FastPathFallsBack, PatchAgent, Repair, Goto,
              session, git
<1>6. CASE GatesPass \/ UpdateMaturity
  BY <1>6 DEF GatesPass, UpdateMaturity, Goto, session, git
<1>7. CASE \E phase \in {"map", "final"} : ContractHolds(phase) \/ ContractRepaired(phase)
  BY <1>7 DEF ContractHolds, ContractRepaired, Goto, session, git
<1>8. CASE Close
  BY <1>8 DEF Close, NextIteration, Goto, session, git
<1>9. CASE Commit
  <2>1. Cleaned.pest = tree.pest
    BY CleanedKeeps DEF TypeInv, TypeOK
  <2> QED
    BY <1>9, <2>1 DEF Commit, Goto, session
<1>10. CASE NothingToCommit \/ Push
  BY <1>10 DEF NothingToCommit, Push, NextIteration, session, git
<1>11. CASE DiscardTree \/ DeveloperEdits
  BY <1>11 DEF DiscardTree, DeveloperEdits
<1> QED
  BY <1>stutter, <1>1, <1>2, <1>3, <1>4, <1>5, <1>6, <1>7, <1>8, <1>9, <1>10, <1>11
     DEF Next, Iterate

LEMMA HeadStep == TypeInv /\ IndexInv /\ HeadInv /\ [Next]_vars => HeadInv'
<1> SUFFICES ASSUME TypeInv, IndexInv, HeadInv, [Next]_vars, (Careful /\ ~opts.noCommit /\ obeyed)'
             PROVE  /\ pc' \in {"top", "combined", "boundary", "fast", "patch", "push"} =>
                           tree' = head'
                    /\ pc' = "fastCheck" => snapshot' = head'
                    /\ pc' \notin {"down", "top", "push"} => before' = head'
  BY DEF HeadInv, InIteration
<1> USE DEF HeadInv, InIteration, Careful
<1>stutter. CASE UNCHANGED vars
  BY <1>stutter DEF vars
<1>1. CASE StartSession
  BY <1>1 DEF StartSession, git
<1>2. CASE StopSession \/ DryRunStop \/ Die
  BY <1>2 DEF StopSession, DryRunStop, Die, SessionEnds
<1>3. CASE SelectGap
  BY <1>3 DEF SelectGap, Goto, session, git
<1>4. CASE CombinedSucceeds \/ CombinedFallsBack
  BY <1>4 DEF CombinedSucceeds, CombinedFallsBack, Goto, session, git, gap
<1>5. CASE BoundaryBlocks \/ BoundaryOwns
  <2>1. obeyed /\ tree' = tree
    BY <1>5, Zenon DEF BoundaryBlocks, BoundaryOwns, BoundaryAgent
  <2> QED
    BY <1>5, <2>1 DEF BoundaryBlocks, BoundaryOwns, SessionEnds, NextIteration, Goto, session, git
<1>6. CASE FastPathWrites \/ FastPathSucceeds \/ FastPathFallsBack \/ PatchAgent \/ Repair
  BY <1>6 DEF FastPathWrites, FastPathSucceeds, FastPathFallsBack, PatchAgent, Repair, Goto,
              session, git, gap
<1>7. CASE GatesPass \/ UpdateMaturity
  BY <1>7 DEF GatesPass, UpdateMaturity, Goto, session, git, gap
<1>8. CASE \E phase \in {"map", "final"} : ContractHolds(phase) \/ ContractRepaired(phase)
  <2>1. pc \in {"map", "final"} /\ pc' \in {"mature", "close"}
    BY <1>8 DEF ContractHolds, ContractRepaired, After, Goto
  <2> QED
    BY <1>8, <2>1 DEF ContractHolds, ContractRepaired, Goto, session, git, gap
<1>9. CASE Close
  BY <1>9 DEF Close, NextIteration, Goto, session, git, gap
<1>10. CASE Commit
  BY <1>10 DEF Commit, Goto, session
<1>11. CASE NothingToCommit \/ Push
  BY <1>11 DEF NothingToCommit, Push, NextIteration, session, git
<1>12. CASE DiscardTree \/ DeveloperEdits
  BY <1>12 DEF DiscardTree, DeveloperEdits
<1> QED
  BY <1>stutter, <1>1, <1>2, <1>3, <1>4, <1>5, <1>6, <1>7, <1>8, <1>9, <1>10, <1>11, <1>12
     DEF Next, Iterate

LEMMA BlockStep == BlockInv /\ [Next]_vars => BlockInv'
<1> SUFFICES ASSUME BlockInv, [Next]_vars PROVE BlockInv'
  OBVIOUS
<1> USE DEF BlockInv
<1>stutter. CASE UNCHANGED vars
  BY <1>stutter DEF vars
<1>1. CASE StartSession
  BY <1>1 DEF StartSession
<1>2. CASE StopSession \/ DryRunStop \/ Die
  BY <1>2 DEF StopSession, DryRunStop, Die, SessionEnds
<1>3. CASE SelectGap \/ CombinedSucceeds \/ CombinedFallsBack \/ BoundaryOwns
  BY <1>3 DEF SelectGap, CombinedSucceeds, CombinedFallsBack, BoundaryOwns, Goto, session
<1>4. CASE BoundaryBlocks
  BY <1>4 DEF BoundaryBlocks, SessionEnds, NextIteration
<1>5. CASE FastPathWrites \/ FastPathSucceeds \/ FastPathFallsBack \/ PatchAgent \/ Repair
  BY <1>5 DEF FastPathWrites, FastPathSucceeds, FastPathFallsBack, PatchAgent, Repair, Goto, session
<1>6. CASE GatesPass \/ UpdateMaturity
  BY <1>6 DEF GatesPass, UpdateMaturity, Goto, session
<1>7. CASE \E phase \in {"map", "final"} : ContractHolds(phase) \/ ContractRepaired(phase)
  BY <1>7 DEF ContractHolds, ContractRepaired, Goto, session
<1>8. CASE Close \/ Commit
  BY <1>8 DEF Close, Commit, NextIteration, Goto, session
<1>9. CASE NothingToCommit \/ Push
  BY <1>9 DEF NothingToCommit, Push, NextIteration, session
<1>10. CASE DiscardTree \/ DeveloperEdits
  BY <1>10 DEF DiscardTree, DeveloperEdits
<1> QED
  BY <1>stutter, <1>1, <1>2, <1>3, <1>4, <1>5, <1>6, <1>7, <1>8, <1>9, <1>10 DEF Next, Iterate

\* The strengthened invariant.
GrindInv == TypeInv /\ SafetyInv

THEOREM GrindInvariant == Spec => []GrindInv
<1>1. Init => GrindInv
  BY TypeInit DEF Init, GrindInv, SafetyInv, GatesInv, IndexInv, HeadInv, BlockInv, InIteration
<1>2. GrindInv /\ [Next]_vars => GrindInv'
  BY TypeStep, GatesStep, IndexStep, HeadStep, BlockStep DEF GrindInv, SafetyInv
<1> QED
  BY <1>1, <1>2, PTL DEF Spec

-----------------------------------------------------------------------------
\* The properties.

\* Only Commit makes a commit.
LEMMA OnlyCommitMovesHead ==
    ASSUME [Next]_vars, head' # head
    PROVE  Commit
<1> USE DEF git
<1>1. CASE UNCHANGED vars
  BY <1>1 DEF vars
<1>2. CASE Iterate
  BY <1>2 DEF Iterate, StopSession, SelectGap, DryRunStop, CombinedSucceeds, CombinedFallsBack,
              BoundaryBlocks, BoundaryOwns, FastPathWrites, FastPathSucceeds, FastPathFallsBack,
              PatchAgent, GatesPass, Repair, ContractHolds, ContractRepaired, UpdateMaturity,
              Close, NothingToCommit, Push
<1>3. CASE StartSession \/ Die \/ DiscardTree \/ DeveloperEdits
  BY <1>3 DEF StartSession, Die, DiscardTree, DeveloperEdits
<1> QED
  BY <1>1, <1>2, <1>3 DEF Next

\* A commit passed its gates, however it was repaired after them, but for the seeds,
\* which are put back after the last gate.
THEOREM CommitsGated == Spec => CommitsAreGated
<1>1. GrindInv /\ [Next]_vars =>
          (head' # head =>
             /\ tree.seeds \in head'.replays
             /\ head'.seeds = head.seeds
             /\ ~head'.stray
             /\ concept \in head'.green /\ concept \in head'.marked
             /\ rule \notin Unmapped(head')
             /\ rule \in head'.rules => rule \in head'.owns[concept])
  <2> SUFFICES ASSUME GrindInv, [Next]_vars, head' # head
               PROVE  /\ tree.seeds \in head'.replays
                      /\ head'.seeds = head.seeds
                      /\ ~head'.stray
                      /\ concept \in head'.green /\ concept \in head'.marked
                      /\ rule \notin Unmapped(head')
                      /\ rule \in head'.rules => rule \in head'.owns[concept]
    OBVIOUS
  <2>1. Commit /\ head' = Cleaned
    BY OnlyCommitMovesHead DEF Commit
  <2>2. /\ tree.seeds \in tree.replays /\ ~tree.stray
        /\ concept \in tree.green /\ concept \in tree.marked
        /\ rule \notin Unmapped(tree)
        /\ rule \in tree.rules => rule \in tree.owns[concept]
    BY <2>1 DEF GrindInv, SafetyInv, GatesInv, Commit, GapClosed, TestsPass
  <2> QED
    BY <2>1, <2>2, CleanedKeeps DEF GrindInv, TypeInv, TypeOK
<1> QED
  BY <1>1, GrindInvariant, PTL DEF Spec, CommitsAreGated

\* A commit of a careful session improves on the commit before it.
THEOREM CommitsImprove == Spec => CommitsImproveMap
<1>1. GrindInv /\ [Next]_vars =>
          (head' # head /\ obeyed /\ ~opts.allowDirty => Improves(head, head'))
  <2> SUFFICES ASSUME GrindInv, [Next]_vars, head' # head, obeyed, ~opts.allowDirty
               PROVE  Improves(head, head')
    OBVIOUS
  <2>1. pc = "commit" /\ head' = Cleaned
    BY OnlyCommitMovesHead DEF Commit
  <2>2. before = head
    BY <2>1 DEF GrindInv, SafetyInv, GatesInv, IndexInv, HeadInv, InIteration, Careful
  <2>3. Improves(before, tree)
    BY <2>1 DEF GrindInv, SafetyInv, GatesInv, GapClosed
  <2> QED
    BY <2>1, <2>2, <2>3, CleanedKeeps DEF GrindInv, TypeInv, TypeOK
<1> QED
  BY <1>1, GrindInvariant, PTL DEF Spec, CommitsImproveMap

\* A fast-path commit of a careful session leaves the grammar alone.
THEOREM FastPathPest == Spec => FastPathKeepsPest
<1>1. GrindInv /\ [Next]_vars =>
          (head' # head /\ path = "fast" /\ ~opts.allowDirty => head'.pest = head.pest)
  BY OnlyCommitMovesHead, CleanedKeeps
     DEF GrindInv, TypeInv, TypeOK, SafetyInv, GatesInv, IndexInv, InIteration, Careful, Commit
<1> QED
  BY <1>1, GrindInvariant, PTL DEF Spec, FastPathKeepsPest

\* The logs of all sessions are heeded.
THEOREM BlockedRulesAreLeft == Spec => BlockedNeverSelected
<1>1. GrindInv /\ [Next]_vars => (pc = "top" /\ rule' # NoRule => rule' \notin persisted)
  <2> SUFFICES ASSUME GrindInv, [Next]_vars, pc = "top", rule' # NoRule
               PROVE  rule' \notin persisted
    OBVIOUS
  <2>1. rule = NoRule
    BY DEF GrindInv, TypeInv, InIteration
  <2>2. SelectGap
    <3>1. ~UNCHANGED vars
      BY <2>1 DEF vars
    <3>2. ~(StopSession \/ DryRunStop \/ Die)
      BY DEF StopSession, DryRunStop, Die, SessionEnds, LeaveIteration
    <3>3. ~\E phase \in {"map", "final"} : ContractHolds(phase) \/ ContractRepaired(phase)
      BY DEF ContractHolds, ContractRepaired
    <3> QED
      BY <3>1, <3>2, <3>3
         DEF Next, Iterate, StartSession, DiscardTree, DeveloperEdits, CombinedSucceeds,
             CombinedFallsBack, BoundaryBlocks, BoundaryOwns, FastPathWrites, FastPathSucceeds,
             FastPathFallsBack, PatchAgent, GatesPass, Repair, UpdateMaturity, Close, Commit,
             NothingToCommit, Push
  <2>3. persisted \subseteq blocked
    BY DEF GrindInv, SafetyInv, BlockInv
  <2> QED
    BY <2>2, <2>3 DEF SelectGap, Candidates
<1> QED
  BY <1>1, GrindInvariant, PTL DEF Spec, BlockedNeverSelected

\* Agents start from the last commit.
THEOREM AgentsStart == Spec => []AgentsStartFromHead
<1>1. GrindInv => AgentsStartFromHead
  BY DEF GrindInv, SafetyInv, IndexInv, HeadInv, InIteration, Careful, AgentsStartFromHead
<1> QED
  BY <1>1, GrindInvariant, PTL
-----------------------------------------------------------------------------
\* The end of a session.

LEMMA RanksOf ==
    /\ PlaceRank["top"] = 12 /\ PlaceRank["combined"] = 11 /\ PlaceRank["boundary"] = 10
    /\ PlaceRank["fast"] = 9 /\ PlaceRank["fastCheck"] = 8 /\ PlaceRank["patch"] = 7
    /\ PlaceRank["gates"] = 6 /\ PlaceRank["map"] = 5 /\ PlaceRank["mature"] = 4
    /\ PlaceRank["final"] = 3 /\ PlaceRank["close"] = 2 /\ PlaceRank["commit"] = 1
    /\ PlaceRank["push"] = 0 /\ PlaceRank["down"] = 0
  BY DEF PlaceRank

LEMMA RanksAreNumbers == \A p \in Places : PlaceRank[p] \in Nat
  BY RanksOf DEF Places

\* The way through an iteration.
GoesOn ==
    /\ PlaceRank[pc'] < PlaceRank[pc]
    /\ UNCHANGED <<opts, iteration>>

\* One more repair before the gates.
Repairs ==
    /\ pc = "gates" /\ pc' = "gates"
    /\ repairs < opts.repairAttempts /\ repairs' = repairs + 1
    /\ UNCHANGED <<opts, iteration>>

LEMMA SessionSteps ==
    ASSUME TypeInv, Next, pc # "down", pc' # "down"
    PROVE  \/ InIteration /\ NextIteration /\ opts' = opts
           \/ Repairs
           \/ GoesOn
<1>1. ~SessionEnds
  BY DEF SessionEnds
<1>2. CASE SelectGap \/ CombinedSucceeds \/ CombinedFallsBack \/ BoundaryOwns
  BY <1>2, RanksOf
     DEF SelectGap, CombinedSucceeds, CombinedFallsBack, BoundaryOwns, Goto, session, GoesOn
<1>3. CASE FastPathWrites \/ FastPathSucceeds \/ FastPathFallsBack \/ PatchAgent
  <2>1. CASE FastPathWrites
    BY <2>1, RanksOf DEF FastPathWrites, Goto, session, GoesOn
  <2>2. CASE FastPathSucceeds \/ FastPathFallsBack \/ PatchAgent
    BY <2>2, RanksOf DEF FastPathSucceeds, FastPathFallsBack, PatchAgent, Goto, session, GoesOn
  <2> QED
    BY <1>3, <2>1, <2>2
<1>4. CASE GatesPass \/ UpdateMaturity \/ Commit
  BY <1>4, RanksOf DEF GatesPass, UpdateMaturity, Commit, Goto, session, GoesOn
<1>5. CASE \E phase \in {"map", "final"} : ContractHolds(phase) \/ ContractRepaired(phase)
  BY <1>5, RanksOf DEF ContractHolds, ContractRepaired, After, Goto, session, GoesOn
<1>6. CASE BoundaryBlocks \/ NothingToCommit \/ Push
  BY <1>1, <1>6 DEF BoundaryBlocks, NothingToCommit, Push, session, InIteration
<1>7. CASE Close
  BY <1>7, RanksOf DEF Close, Goto, session, GoesOn, InIteration
<1>8. CASE Repair
  BY <1>8 DEF Repair, Goto, session, Repairs
<1>9. ~StartSession /\ ~StopSession /\ ~DryRunStop /\ ~Die /\ ~DiscardTree /\ ~DeveloperEdits
  BY <1>1 DEF StartSession, StopSession, DryRunStop, Die, DiscardTree, DeveloperEdits
<1> QED
  BY <1>2, <1>3, <1>4, <1>5, <1>6, <1>7, <1>8, <1>9 DEF Next, Iterate

LEMMA BelowInThree ==
    ASSUME NEW a, NEW b,
           DOMAIN b = 1 .. 3,
           \/ a[1] < b[1]
           \/ a[1] = b[1] /\ a[2] < b[2]
           \/ a[1] = b[1] /\ a[2] = b[2] /\ a[3] < b[3]
    PROVE  Below(a, b)
<1>1. CASE a[1] < b[1]
  BY <1>1 DEF Below
<1>2. CASE a[1] = b[1] /\ a[2] < b[2]
  BY <1>2 DEF Below
<1>3. CASE a[1] = b[1] /\ a[2] = b[2] /\ a[3] < b[3]
  BY <1>3 DEF Below
<1> QED
  BY <1>1, <1>2, <1>3

LEMMA SessionDescends ==
    ASSUME TypeInv, Next, pc # "down", pc' # "down"
    PROVE  Below(Remaining', Remaining)
<1> DEFINE a == Remaining'
           b == Remaining
<1>1. /\ iteration \in Nat /\ opts.maxIterations + 1 \in Nat /\ opts.maxIterations \in Nat
      /\ repairs \in Nat /\ opts.repairAttempts \in Nat
  BY GrindAssumption DEF TypeInv, TypeOK, CommandLines
<1>2. DOMAIN b = 1 .. 3
  BY DEF Remaining
<1>3. /\ a[1] = Left(iteration', opts'.maxIterations + 1)
      /\ a[2] = PlaceRank[pc']
      /\ a[3] = Left(repairs', opts'.repairAttempts)
  BY DEF Remaining, PlaceRank
<1>4. /\ b[1] = Left(iteration, opts.maxIterations + 1)
      /\ b[2] = PlaceRank[pc]
      /\ b[3] = Left(repairs, opts.repairAttempts)
  BY DEF Remaining
<1> HIDE DEF a, b
<1>5. CASE InIteration /\ NextIteration /\ opts' = opts
  <2>1. iteration <= opts.maxIterations /\ iteration' = iteration + 1
    BY <1>5 DEF TypeInv, NextIteration
  <2>2. a[1] < b[1]
    BY <1>1, <1>3, <1>4, <1>5, <2>1 DEF Left
  <2> QED
    BY <1>2, <2>2, BelowInThree DEF a, b
<1>6. CASE Repairs
  <2>1. a[1] = b[1] /\ a[2] = b[2]
    BY <1>3, <1>4, <1>6 DEF Repairs
  <2>2. a[3] < b[3]
    BY <1>1, <1>3, <1>4, <1>6 DEF Repairs, Left
  <2> QED
    BY <1>2, <2>1, <2>2, BelowInThree DEF a, b
<1>7. CASE GoesOn
  <2>1. a[1] = b[1] /\ a[2] < b[2]
    BY <1>3, <1>4, <1>7 DEF GoesOn
  <2> QED
    BY <1>2, <2>1, BelowInThree DEF a, b
<1> QED
  BY <1>5, <1>6, <1>7, SessionSteps

LEMMA RemainingTyped == TypeInv => Remaining \in Tuples(3)
<1> SUFFICES ASSUME TypeInv PROVE Remaining \in Tuples(3)
  OBVIOUS
<1>1. /\ iteration \in Nat /\ opts.maxIterations + 1 \in Nat
      /\ repairs \in Nat /\ opts.repairAttempts \in Nat
  BY GrindAssumption DEF TypeInv, TypeOK, CommandLines
<1>2. PlaceRank[pc] \in Nat
  BY RanksAreNumbers DEF TypeInv, TypeOK
<1>3. Left(iteration, opts.maxIterations + 1) \in Nat /\ Left(repairs, opts.repairAttempts) \in Nat
  BY <1>1 DEF Left
<1> QED
  BY <1>2, <1>3 DEF Remaining, Tuples

\* Each step of a session uses up an iteration, a place on the way through one, or a
\* repair: whatever agents answer and gates find, there is an end to them.
THEOREM SessionsRunDown == Spec => SessionRunsDown /\ [](Remaining \in Tuples(3))
<1>1. TypeInv /\ [Next]_vars
        => [pc # "down" /\ pc' # "down" => Below(Remaining', Remaining)]_vars
  BY SessionDescends
<1> QED
  BY <1>1, RemainingTyped, TypeInit, TypeStep, PTL DEF Spec, SessionRunsDown
=============================================================================

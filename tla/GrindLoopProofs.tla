--------------------------- MODULE GrindLoopProofs ---------------------------
(***************************************************************************)
(* Theorems about GrindLoop, for every cap and any number of experiments.  *)
(***************************************************************************)
EXTENDS GrindLoop, TLAPS

-----------------------------------------------------------------------------
\* Type correctness.

\* A loop that runs has its loop_state.json, and an experiment to apply.
TypeInv ==
    /\ TypeOK
    /\ pc # "down" => file \in States
    /\ pc \in {"validate", "commit"} => next # NoExperiment

\* What write_grind_loop_state leaves in the file.
LEMMA StateWritten ==
    ASSUME file \in States, NEW b \in Nat, NEW a \in Experiments \cup {NoExperiment},
           file' = [file EXCEPT !.batch = b, !.active = a]
    PROVE  file' \in States /\ file'.max = file.max /\ file'.active = a
  BY DEF States

LEMMA TypeInit == Init => TypeInv
<1> SUFFICES ASSUME Init PROVE TypeInv
  OBVIOUS
<1>1. reexec \in BOOLEAN
  BY Zenon DEF Init
<1> QED
  BY <1>1, GrindLoopAssumption
     DEF Init, TypeInv, TypeOK, TreeStates, Places, Decisions, Experiments

\* Every step keeps the types, one case per action.
LEMMA TypeStep == TypeInv /\ [Next]_vars => TypeInv'
<1> SUFFICES ASSUME TypeInv, [Next]_vars PROVE TypeInv'
  OBVIOUS
<1> USE GrindLoopAssumption DEF TypeInv, TypeOK
<1>stutter. CASE UNCHANGED vars
  BY <1>stutter DEF vars
<1>1. CASE StartLoop
  <2>1. file' \in States
    BY <1>1 DEF StartLoop, States
  <2> QED
    BY <1>1, <2>1 DEF StartLoop, Forget, repository, ghosts, Places, Decisions
<1>2. CASE Resume \/ Reexec
  BY <1>2 DEF Resume, Reexec, ContinueFromFile, Forget, repository, ghosts, States, Places,
              Decisions
<1>3. CASE StartBatch
  <2>1. file' \in States
    BY <1>3 DEF StartBatch, States
  <2> QED
    BY <1>3, <2>1 DEF StartBatch, repository, locals, ghosts, Places
<1>4. CASE ReachMaxBatches
  BY <1>4 DEF ReachMaxBatches, EndProcess, Forget, repository, ghosts, Places, Decisions
<1>5. CASE RunBatch
  BY <1>5 DEF RunBatch, locals, ghosts, Places
<1>6. CASE Review
  <2>1. proposed' \in 0 .. MaxExperiments /\ next' \in Experiments \cup {NoExperiment}
    BY <1>6 DEF Review, Experiments
  <2>2. verdict' \in [Experiments -> Decisions \cup {"unseen"}]
    BY <1>6 DEF Review
  <2> QED
    BY <1>6, <2>1, <2>2 DEF Review, repository, Places
<1>7. CASE KeepActive \/ Revalidate \/ NoProposal \/ ValidateExperiment
  <2>1. reexec' \in BOOLEAN
    BY <1>7, Zenon DEF KeepActive, Revalidate, NoProposal, ValidateExperiment, MoreToCome, locals
  <2> QED
    BY <1>7, <2>1 DEF KeepActive, Revalidate, NoProposal, ValidateExperiment, repository, locals,
                      ghosts, Places
<1>8. CASE DropActive \/ RevertActive
  BY <1>8 DEF DropActive, RevertActive, repository, ghosts, Places
<1>9. CASE ApplyExperiment
  BY <1>9 DEF ApplyExperiment, locals, ghosts, Places
<1>10. CASE CommitExperiment
  <2>1. reexec' \in BOOLEAN
    BY <1>10, Zenon DEF CommitExperiment, MoreToCome
  <2> QED
    BY <1>10, <2>1 DEF CommitExperiment, TreeStates, Places
<1>11. CASE NothingToCommit
  BY <1>11 DEF NothingToCommit, repository, ghosts, Places
<1>12. CASE SaveState
  <2>1. NextBatch \in Nat
    BY DEF NextBatch
  <2>2. file' \in States
    BY <1>12, <2>1 DEF SaveState, States
  <2> QED
    BY <1>12, <2>1, <2>2 DEF SaveState, Forget, repository, Places, Decisions
<1>13. CASE Die
  BY <1>13 DEF Die, EndProcess, Forget, TreeStates, Places, Decisions
<1>14. CASE CleanUp
  BY <1>14 DEF CleanUp, locals, ghosts, TreeStates
<1> QED
  BY <1>stutter, <1>1, <1>2, <1>3, <1>4, <1>5, <1>6, <1>7, <1>8, <1>9, <1>10, <1>11, <1>12,
     <1>13, <1>14 DEF Next, Loop

\* Every variable keeps its type.
THEOREM LoopTypes == Spec => []TypeOK
<1>1. TypeInv => TypeOK
  BY DEF TypeInv
<1> QED
  BY <1>1, TypeInit, TypeStep, PTL DEF Spec
-----------------------------------------------------------------------------
\* The wrapper.

\* Where the running program may differ from HEAD: after a revert or a commit, up
\* to the exec or the end of the last batch.
WrapperInv ==
    /\ pc \in {"batch", "review", "decide"} => wrapper = head
    /\ pc \in {"propose", "validate", "commit", "save"} =>
           wrapper = head \/ reexec \/ ~MoreToCome
    /\ pc = "top" => wrapper = head \/ (Capped /\ batch > file.max)

LEMMA WrapperStep ==
    ASSUME TypeInv, WrapperInv, [Next]_vars
    PROVE  WrapperInv'
<1>stutter. CASE UNCHANGED vars
  BY <1>stutter DEF vars, WrapperInv, MoreToCome, Capped
<1>1. CASE StartLoop \/ Resume \/ Reexec
  BY <1>1 DEF StartLoop, Resume, Reexec, ContinueFromFile, repository, WrapperInv
<1>2. CASE StartBatch
  <2>1. wrapper = head
    BY <1>2, GrindLoopAssumption DEF StartBatch, WrapperInv, Capped, TypeInv, TypeOK, States
  <2> QED
    BY <1>2, <2>1 DEF StartBatch, repository, WrapperInv
<1>3. CASE ReachMaxBatches \/ Die
  BY <1>3 DEF ReachMaxBatches, Die, EndProcess, WrapperInv
<1>4. CASE RunBatch \/ Review
  BY <1>4 DEF RunBatch, Review, repository, WrapperInv
<1>5. CASE KeepActive \/ DropActive
  BY <1>5 DEF KeepActive, DropActive, repository, WrapperInv
<1>6. CASE RevertActive
  BY <1>6 DEF RevertActive, WrapperInv
<1>7. CASE Revalidate
  BY <1>7 DEF Revalidate, WrapperInv, MoreToCome, Capped
<1>8. CASE NoProposal \/ ApplyExperiment \/ ValidateExperiment
  BY <1>8 DEF NoProposal, ApplyExperiment, ValidateExperiment, repository, locals, WrapperInv,
              MoreToCome, Capped
<1>9. CASE CommitExperiment
  BY <1>9 DEF CommitExperiment, WrapperInv, MoreToCome, Capped
<1>10. CASE NothingToCommit
  BY <1>10 DEF NothingToCommit, repository, WrapperInv, MoreToCome, Capped
<1>11. CASE SaveState
  <2>1. file \in States /\ file.max \in Nat /\ batch \in Nat /\ NextBatch \in Nat
    BY <1>11, GrindLoopAssumption DEF SaveState, NextBatch, TypeInv, TypeOK, States
  <2>2. file'.max = file.max
    <3>1. active \in Experiments \cup {NoExperiment}
      BY DEF TypeInv, TypeOK
    <3> QED
      BY <1>11, <2>1, <3>1 DEF SaveState, States
  <2>3. ~MoreToCome => Capped /\ NextBatch > file.max
    BY <2>1 DEF MoreToCome, NextBatch, Capped
  <2> QED
    BY <1>11, <2>2, <2>3 DEF SaveState, repository, WrapperInv, Capped
<1>12. CASE CleanUp
  BY <1>12 DEF CleanUp, WrapperInv
<1> QED
  BY <1>stutter, <1>1, <1>2, <1>3, <1>4, <1>5, <1>6, <1>7, <1>8, <1>9, <1>10, <1>11, <1>12
     DEF Next, Loop

\* Every batch runs under a wrapper with exactly the experiments in effect.
THEOREM BatchesRunCurrentWrapper == Spec => []WrapperIsCurrent
<1>1. Init => WrapperInv
  BY DEF Init, WrapperInv
<1>2. WrapperInv => WrapperIsCurrent
  BY DEF WrapperInv, WrapperIsCurrent
<1>3. TypeInv /\ WrapperInv /\ [Next]_vars => WrapperInv'
  BY WrapperStep
<1> QED
  BY <1>1, <1>2, <1>3, TypeInit, TypeStep, PTL DEF Spec
-----------------------------------------------------------------------------
\* The experiments.

Kept(e) == verdict[e] \in {"pass", "none"}

\* Both invariants, said of an experiment "trial" instead of the one in the file, and
\* of all experiments but those in "gone".
Tracks(trial, gone) ==
    /\ \A e \in head \ gone : e = trial \/ Kept(e)
    /\ trial \in committed \ gone => trial \in head

\* What the loop knows of HEAD: before the decision the experiment on trial is in
\* the file too; after it every experiment in effect has been kept; and a proposal
\* has no commit before it is applied.
TrialInv ==
    /\ head \subseteq committed
    /\ file = NoLoop => pc = "down" /\ head = {} /\ committed = {}
    /\ pc \in {"down", "top", "batch", "review", "decide", "exec"} => moved = {}
    /\ \A e \in committed : e <= proposed
    /\ pc \in {"decide", "revalidate", "propose", "validate", "commit"} =>
           next \notin committed
    /\ file # NoLoop => Tracks(file.active, moved \cup lost)
    /\ pc \in {"top", "batch", "review", "decide", "save"} => Tracks(active, lost)
    /\ pc \in {"batch", "review"} => file.active = active
    /\ pc = "decide" /\ active # NoExperiment => verdict[active] = decision
    /\ next # NoExperiment => next <= proposed
    /\ pc \in {"revalidate", "propose", "validate", "commit"} =>
           /\ \A e \in head \ lost : Kept(e)
           /\ active \in committed \ lost => active \in head

\* The invariant is kept, one case per action.
LEMMA TrialStep ==
    ASSUME TypeInv, TypeInv', TrialInv, [Next]_vars
    PROVE  TrialInv'
<1> USE DEF Tracks, Kept
<1>types. /\ head \subseteq Experiments /\ committed \subseteq Experiments
          /\ active \in Experiments \cup {NoExperiment} /\ batch \in Nat
          /\ NoExperiment \notin Experiments
          /\ verdict \in [Experiments -> Decisions \cup {"unseen"}]
          /\ file # NoLoop => file \in States
          /\ pc # "down" => file # NoLoop
          /\ NoLoop \notin States
          /\ pc' # "down" => file' # NoLoop
  BY GrindLoopAssumption DEF TypeInv, TypeOK, Experiments
<1> USE <1>types
<1>stutter. CASE UNCHANGED vars
  BY <1>stutter DEF vars, TrialInv
<1>1. CASE StartLoop
  <2>1. file'.active = NoExperiment /\ active' = NoExperiment
    BY <1>1 DEF StartLoop
  <2>2. head = {} /\ committed = {}
    BY <1>1 DEF StartLoop, TrialInv
  <2> QED
    BY <1>1, <2>1, <2>2 DEF StartLoop, Forget, repository, ghosts, TrialInv
<1>2. CASE Resume \/ Reexec
  BY <1>2 DEF Resume, Reexec, ContinueFromFile, Forget, repository, ghosts, TrialInv
<1>3. CASE StartBatch
  <2>1. file'.active = active /\ file' # NoLoop
    <3>1. active \in Experiments \cup {NoExperiment} /\ batch \in Nat /\ file \in States
      BY <1>3 DEF StartBatch, TypeInv, TypeOK
    <3>2. file' = [file EXCEPT !.batch = batch, !.active = active]
      BY <1>3 DEF StartBatch
    <3> QED
      BY <3>1, <3>2, GrindLoopAssumption, StateWritten
  <2> QED
    BY <1>3, <2>1 DEF StartBatch, repository, locals, ghosts, TrialInv
<1>4. CASE ReachMaxBatches
  BY <1>4 DEF ReachMaxBatches, EndProcess, Forget, repository, ghosts, TrialInv
<1>5. CASE RunBatch
  BY <1>5 DEF RunBatch, locals, ghosts, TrialInv
<1>6. CASE Review
  <2>1. next' \notin committed /\ (next' # NoExperiment => next' <= proposed')
    BY <1>6, GrindLoopAssumption DEF Review, TrialInv, TypeInv, TypeOK, Experiments
  <2>2. \A e \in Experiments \ {active} : verdict'[e] = verdict[e]
    BY <1>6 DEF Review, TypeInv, TypeOK
  <2>3. \A e \in committed : e <= proposed'
    BY <1>6, GrindLoopAssumption DEF Review, TrialInv, TypeInv, TypeOK, Experiments
  <2>4. active # NoExperiment => verdict'[active] = decision'
    BY <1>6 DEF Review
  <2>5. \A e \in head \ lost : e = active \/ verdict'[e] \in {"pass", "none"}
    BY <1>6, <2>2 DEF Review, TrialInv
  <2>6. /\ UNCHANGED <<head, committed, file, active, moved, lost>>
        /\ pc = "review" /\ pc' = "decide"
        /\ file.active = active
    BY <1>6 DEF Review, TrialInv, repository
  <2> QED
    BY <2>1, <2>3, <2>4, <2>5, <2>6 DEF TrialInv
<1>7. CASE KeepActive
  <2>1. \A e \in head \ lost : Kept(e)
    BY <1>7 DEF KeepActive, TrialInv
  <2> QED
    BY <1>7, <2>1 DEF KeepActive, repository, locals, ghosts, TrialInv
<1>8. CASE DropActive
  BY <1>8 DEF DropActive, repository, ghosts, TrialInv
<1>9. CASE RevertActive
  BY <1>9 DEF RevertActive, TrialInv
<1>10. CASE Revalidate \/ NoProposal \/ ValidateExperiment
  BY <1>10 DEF Revalidate, NoProposal, ValidateExperiment, repository, locals, ghosts, TrialInv
<1>11. CASE ApplyExperiment
  BY <1>11 DEF ApplyExperiment, locals, ghosts, TrialInv
<1>12. CASE CommitExperiment
  <2>1. next \in Experiments /\ next \notin committed /\ next <= proposed
    BY <1>12 DEF CommitExperiment, TrialInv, TypeInv, TypeOK
  <2>2. head' = head \cup {next} /\ committed' = committed \cup {next} /\ active' = next
    BY <1>12 DEF CommitExperiment
  <2>3. head' \subseteq committed' /\ \A e \in committed' : e <= proposed
    BY <2>1, <2>2 DEF TrialInv
  <2>4. \A e \in head' \ lost : e = next \/ Kept(e)
    BY <1>12, <2>2 DEF CommitExperiment, TrialInv
  <2> QED
    BY <1>12, <2>2, <2>3, <2>4 DEF CommitExperiment, TrialInv
<1>13. CASE NothingToCommit
  BY <1>13 DEF NothingToCommit, repository, ghosts, TrialInv
<1>14. CASE SaveState
  <2>1. file'.active = active /\ file' # NoLoop
    <3>1. NextBatch \in Nat /\ file \in States
      BY <1>14 DEF SaveState, NextBatch
    <3>2. file' = [file EXCEPT !.batch = NextBatch, !.active = active]
      BY <1>14 DEF SaveState
    <3> QED
      BY <3>1, <3>2, StateWritten
  <2> QED
    BY <1>14, <2>1 DEF SaveState, Forget, repository, TrialInv
<1>15. CASE Die
  BY <1>15 DEF Die, EndProcess, Forget, TrialInv
<1>16. CASE CleanUp
  BY <1>16 DEF CleanUp, locals, ghosts, TrialInv
<1> QED
  BY <1>stutter, <1>1, <1>2, <1>3, <1>4, <1>5, <1>6, <1>7, <1>8, <1>9, <1>10, <1>11, <1>12,
     <1>13, <1>14, <1>15, <1>16 DEF Next, Loop

LEMMA TrialInvHolds == Spec => []TrialInv
<1>1. Init => TrialInv
  BY DEF Init, TrialInv
<1> QED
  BY <1>1, TrialStep, TypeInit, TypeStep, PTL DEF Spec

\* Every experiment in effect is on trial or was kept, but for those that a batch
\* changed whose loop died before the state file was written.
THEOREM ExperimentsAreAccountedFor == Spec => []ExperimentsAccountedFor
<1>1. TrialInv => ExperimentsAccountedFor
  BY DEF TrialInv, Tracks, Kept, ExperimentsAccountedFor
<1> QED
  BY <1>1, TrialInvHolds, PTL

\* With the same exception the experiment on trial is in effect if it has a commit.
THEOREM TrialsAreInEffect == Spec => []TrialIsInEffect
<1>1. TrialInv => TrialIsInEffect
  BY DEF TrialInv, Tracks, TrialIsInEffect
<1> QED
  BY <1>1, TrialInvHolds, PTL
-----------------------------------------------------------------------------
\* The end of a capped loop.

\* A capped loop works on a batch within the cap, and the state it continues from
\* has the batch it is at.
CountInv ==
    /\ Capped /\ pc \notin {"down", "top", "exec"} => batch <= file.max
    /\ pc = "exec" => file.batch = batch

LEMMA RanksOf ==
    /\ PlaceRank["exec"] = 10 /\ PlaceRank["top"] = 9 /\ PlaceRank["batch"] = 8
    /\ PlaceRank["review"] = 7 /\ PlaceRank["decide"] = 6 /\ PlaceRank["revalidate"] = 5
    /\ PlaceRank["propose"] = 4 /\ PlaceRank["validate"] = 3 /\ PlaceRank["commit"] = 2
    /\ PlaceRank["save"] = 1 /\ PlaceRank["down"] = 0
  BY DEF PlaceRank

LEMMA RanksAreNumbers == \A p \in Places : PlaceRank[p] \in Nat
  BY RanksOf DEF Places

\* The steps within a batch.
WithinBatch ==
    /\ pc \notin {"down", "top", "exec"} /\ pc' \notin {"down", "top", "exec"}
    /\ PlaceRank[pc'] < PlaceRank[pc]
    /\ UNCHANGED <<file, batch>>

LEMMA LoopSteps ==
    ASSUME TypeInv, Next
    PROVE  StartLoop \/ Resume \/ StartBatch \/ SaveState \/ Reexec \/ WithinBatch \/ pc' = "down"
<1>1. CASE RunBatch \/ Review \/ KeepActive \/ DropActive
  BY <1>1, RanksOf DEF RunBatch, Review, KeepActive, DropActive, locals, WithinBatch
<1>2. CASE RevertActive \/ Revalidate
  BY <1>2, RanksOf DEF RevertActive, Revalidate, WithinBatch
<1>3. CASE NoProposal \/ ApplyExperiment \/ ValidateExperiment
  BY <1>3, RanksOf DEF NoProposal, ApplyExperiment, ValidateExperiment, locals, WithinBatch
<1>4. CASE CommitExperiment \/ NothingToCommit
  BY <1>4, RanksOf DEF CommitExperiment, NothingToCommit, WithinBatch
<1>5. CASE ReachMaxBatches \/ Die \/ CleanUp
  BY <1>5 DEF ReachMaxBatches, Die, CleanUp, EndProcess
<1> QED
  BY <1>1, <1>2, <1>3, <1>4, <1>5 DEF Next, Loop

LEMMA CountStep == TypeInv /\ CountInv /\ [Next]_vars => CountInv'
<1> SUFFICES ASSUME TypeInv, CountInv, [Next]_vars PROVE CountInv'
  OBVIOUS
<1> USE DEF CountInv, Capped
<1>1. CASE UNCHANGED vars
  BY <1>1 DEF vars
<1>2. CASE StartLoop \/ Resume \/ Reexec
  BY <1>2 DEF StartLoop, Resume, Reexec, ContinueFromFile
<1>3. CASE StartBatch
  <2>1. file'.max = file.max
    BY <1>3, StateWritten DEF StartBatch, TypeInv, TypeOK
  <2> QED
    BY <1>3, <2>1 DEF StartBatch, locals
<1>4. CASE SaveState
  <2>1. file' = [file EXCEPT !.batch = NextBatch, !.active = active] /\ batch' = NextBatch
    BY <1>4 DEF SaveState
  <2>2. file'.batch = NextBatch
    BY <1>4, <2>1 DEF SaveState, TypeInv, States
  <2> QED
    BY <1>4, <2>1, <2>2 DEF SaveState
<1>5. CASE WithinBatch
  BY <1>5 DEF WithinBatch
<1>6. CASE pc' = "down"
  BY <1>6
<1> QED
  BY <1>1, <1>2, <1>3, <1>4, <1>5, <1>6, LoopSteps

\* Each step of a capped loop brings it closer to its end: a batch is counted in the
\* file that the next program reads before it is counted in the one that runs.
THEOREM CappedLoopsRunDown == Spec => LoopRunsDown /\ [](file # NoLoop => StepsLeft \in Nat)
<1> DEFINE Falls == pc # "down" /\ pc' # "down" /\ Capped => StepsLeft' < StepsLeft
<1>1. Init => CountInv
  BY DEF Init, CountInv
<1>2. TypeInv /\ TypeInv' /\ CountInv /\ [Next]_vars => [Falls]_vars
  <2> SUFFICES ASSUME TypeInv, TypeInv', CountInv, Next, pc # "down", pc' # "down", Capped
               PROVE  StepsLeft' < StepsLeft
    OBVIOUS
  <2>1. /\ batch \in Nat /\ batch' \in Nat /\ file \in States /\ file.max \in Nat
        /\ PlaceRank[pc] \in Nat /\ PlaceRank[pc'] \in Nat
    BY GrindLoopAssumption, RanksAreNumbers DEF TypeInv, TypeOK, States
  <2>2. CASE StartBatch
    <3>1. file'.max = file.max /\ batch' = batch /\ pc = "top" /\ pc' = "batch"
      BY <2>2, StateWritten DEF StartBatch, locals, TypeInv, TypeOK
    <3> QED
      BY <2>1, <3>1, RanksOf DEF StepsLeft, Left
  <2>3. CASE SaveState
    <3>1. /\ file'.max = file.max /\ batch' = batch + 1 /\ batch <= file.max
          /\ pc = "save" /\ pc' \in {"exec", "top"}
      <4>1. NextBatch = batch + 1 /\ NextBatch \in Nat
        BY <2>1 DEF NextBatch
      <4> QED
        BY <2>1, <2>3, <4>1, StateWritten DEF SaveState, CountInv, TypeInv, TypeOK, States
    <3> QED
      BY <2>1, <3>1, RanksOf DEF StepsLeft, Left
  <2>4. CASE Reexec
    <3>1. file' = file /\ batch' = batch /\ pc = "exec" /\ pc' = "top"
      BY <2>4 DEF Reexec, ContinueFromFile, CountInv
    <3> QED
      BY <2>1, <3>1, RanksOf DEF StepsLeft, Left
  <2>5. CASE WithinBatch
    BY <2>1, <2>5 DEF WithinBatch, StepsLeft, Left
  <2>6. ~StartLoop /\ ~Resume
    BY DEF StartLoop, Resume
  <2> QED
    BY <2>2, <2>3, <2>4, <2>5, <2>6, LoopSteps
<1>3. TypeInv => (file # NoLoop => StepsLeft \in Nat)
  <2> SUFFICES ASSUME TypeInv, file # NoLoop PROVE StepsLeft \in Nat
    OBVIOUS
  <2>1. batch \in Nat /\ file.max \in Nat /\ PlaceRank[pc] \in Nat
    BY GrindLoopAssumption, RanksAreNumbers DEF TypeInv, TypeOK, States
  <2> QED
    BY <2>1 DEF StepsLeft, Left
<1> QED
  BY <1>1, <1>2, <1>3, CountStep, TypeInit, TypeStep, PTL DEF Spec, LoopRunsDown
=============================================================================

------------------------------ MODULE GrindLoop ------------------------------
(***************************************************************************)
(* concept-grind-loop (xtask/src/concept.rs, run_grind_loop): batches of   *)
(* concept-grind; after each an agent reviews the experiment on trial and  *)
(* proposes the next one, which changes the workflow's own code.  What the *)
(* loop knows of its experiments is in loop_state.json; what is in effect  *)
(* is in the git history.  An interrupted loop is continued by --resume,   *)
(* and so is, after each change of its own code, the running one.          *)
(*                                                                         *)
(* One loop directory.  An experiment is the number of its proposal.  Of   *)
(* the code the model keeps the experiments whose commits it contains; of  *)
(* the working tree, whether it differs from HEAD, and whether "git diff"  *)
(* would show it.                                                          *)
(***************************************************************************)
EXTENDS Descent

CONSTANTS
    MaxBatchOptions,  \* the values of --max-batches, 0 if it is not given
    MaxExperiments,   \* bound: the proposals of the review agent
    NoExperiment,     \* None
    NoLoop            \* there is no loop_state.json

Experiments == 1 .. MaxExperiments

\* ConceptGrindLoopState: options.max_batches, next_batch, active_experiment.
States == [max : MaxBatchOptions, batch : Nat, active : Experiments \cup {NoExperiment}]

ASSUME GrindLoopAssumption ==
    /\ MaxBatchOptions \subseteq Nat
    /\ MaxExperiments \in Nat
    /\ NoExperiment \notin Nat
    /\ NoLoop \notin States

VARIABLES
    head,      \* the experiments in effect in the code of HEAD
    tree,      \* the working tree
    file,      \* loop_state.json
    proposed,  \* the number of proposals so far
    committed, \* the experiments whose "commit" is Some
    pc,        \* the place in run_grind_loop
    wrapper,   \* the experiments in effect in the running program
    batch,     \* batch, counted only under --max-batches
    active,    \* active_experiment
    next,      \* review.next_experiment
    decision,  \* review.previous_decision
    reexec,    \* should_reexec
    verdict,   \* for properties: what the last review said of each experiment
    moved,     \* for properties: the experiments that were committed or reverted since
               \* loop_state.json was written
    lost       \* for properties: those for which the loop died in between

repository == <<head, tree, committed>>
locals == <<batch, active, next, decision, reexec>>
ghosts == <<verdict, moved, lost>>
vars == <<head, tree, file, proposed, committed, pc, wrapper, batch, active, next,
          decision, reexec, verdict, moved, lost>>

Decisions == {"pass", "fail", "none"}

\* The working tree has no changes, only new files, or changed files.
TreeStates == {"clean", "new", "changed"}

Places == {"down", "top", "batch", "review", "decide", "revalidate", "propose", "validate",
           "commit", "save", "exec"}

-----------------------------------------------------------------------------
Capped == file.max # 0

\* options.max_batches.is_none_or(|max| batch < max)
MoreToCome == Capped => batch < file.max

NextBatch == IF Capped THEN batch + 1 ELSE batch

Init ==
    /\ head = {}
    /\ tree \in TreeStates
    /\ file = NoLoop
    /\ proposed = 0
    /\ committed = {}
    /\ pc = "down"
    /\ wrapper = {}
    /\ batch = 1
    /\ active = NoExperiment
    /\ next = NoExperiment
    /\ decision = "none"
    /\ reexec = FALSE
    /\ verdict = [e \in Experiments |-> "unseen"]
    /\ moved = {}
    /\ lost = {}

\* What a batch knows ends with it.
Forget ==
    /\ next' = NoExperiment
    /\ decision' = "none"
    /\ reexec' = FALSE

EndProcess ==
    /\ pc' = "down"
    /\ wrapper' = {}
    /\ batch' = 1
    /\ active' = NoExperiment
    /\ Forget

-----------------------------------------------------------------------------
\* The loop.

\* A new loop.  A dry run writes a loop directory of its own and returns.
StartLoop ==
    /\ pc = "down"
    /\ file = NoLoop
    /\ tree = "clean"
    /\ \E max \in MaxBatchOptions :
           file' = [max |-> max, batch |-> 1, active |-> NoExperiment]
    /\ pc' = "top"
    /\ wrapper' = head
    /\ batch' = 1
    /\ active' = NoExperiment
    /\ Forget
    /\ UNCHANGED <<repository, proposed, ghosts>>

\* The program that "cargo xtask" builds continues from loop_state.json.
ContinueFromFile ==
    /\ file # NoLoop
    /\ tree = "clean"
    /\ pc' = "top"
    /\ wrapper' = head
    /\ batch' = file.batch
    /\ active' = file.active
    /\ Forget
    /\ UNCHANGED <<repository, file, proposed, ghosts>>

Resume == pc = "down" /\ ContinueFromFile

StartBatch ==
    /\ pc = "top"
    /\ Capped => batch <= file.max
    /\ file' = [file EXCEPT !.batch = batch, !.active = active]
    /\ pc' = "batch"
    /\ UNCHANGED <<repository, proposed, wrapper, locals, ghosts>>

ReachMaxBatches ==
    /\ pc = "top"
    /\ Capped /\ batch > file.max
    /\ EndProcess
    /\ UNCHANGED <<repository, file, proposed, ghosts>>

\* concept-grind, which starts from a clean tree only and may leave changes that an
\* agent made outside of what it commits.
RunBatch ==
    /\ pc = "batch"
    /\ tree = "clean"
    /\ tree' \in TreeStates
    /\ pc' = "review"
    /\ UNCHANGED <<head, file, proposed, committed, wrapper, locals, ghosts>>

\* The review agent's answer.  It is told not to edit anything.
Review ==
    /\ pc = "review"
    /\ decision' \in Decisions
    /\ \/ next' = NoExperiment /\ UNCHANGED proposed
       \/ /\ proposed < MaxExperiments
          /\ proposed' = proposed + 1
          /\ next' = proposed + 1
    /\ verdict' = IF active = NoExperiment THEN verdict
                  ELSE [verdict EXCEPT ![active] = decision']
    /\ pc' = "decide"
    /\ UNCHANGED <<repository, file, wrapper, batch, active, reexec, moved, lost>>

KeepActive ==
    /\ pc = "decide"
    /\ active = NoExperiment \/ decision \in {"pass", "none"}
    /\ pc' = "propose"
    /\ UNCHANGED <<repository, file, proposed, wrapper, locals, ghosts>>

\* A failed experiment that changed nothing is only forgotten.
DropActive ==
    /\ pc = "decide"
    /\ active # NoExperiment /\ decision = "fail"
    /\ active \notin committed
    /\ active' = NoExperiment
    /\ pc' = "propose"
    /\ UNCHANGED <<repository, file, proposed, wrapper, batch, next, decision, reexec, ghosts>>

\* Mutation: a failed experiment stays on trial.
RevertAndKeep ==
    /\ pc = "decide"
    /\ active \in committed /\ decision = "fail"
    /\ active \in head
    /\ head' = head \ {active}
    /\ moved' = moved \cup {active}
    /\ pc' = "revalidate"
    /\ UNCHANGED <<tree, file, proposed, committed, wrapper, batch, active, next, decision,
                   reexec, verdict, lost>>

\* Mutation: the failed experiment is dropped, its commit is not reverted.
RevertNothing ==
    /\ pc = "decide"
    /\ active \in committed /\ decision = "fail"
    /\ active' = NoExperiment
    /\ pc' = "revalidate"
    /\ UNCHANGED <<repository, file, proposed, wrapper, batch, next, decision, reexec, ghosts>>

\* git_revert_commit.  Git refuses to revert what is no longer there.
RevertActive ==
    /\ pc = "decide"
    /\ active \in committed /\ decision = "fail"
    /\ active \in head
    /\ head' = head \ {active}
    /\ moved' = moved \cup {active}
    /\ active' = NoExperiment
    /\ pc' = "revalidate"
    /\ UNCHANGED <<tree, file, proposed, committed, wrapper, batch, next, decision, reexec,
                   verdict, lost>>

\* Mutation: a reverted experiment goes on running in the wrapper.
RevalidateWithoutReexec ==
    /\ pc = "revalidate"
    /\ pc' = "propose"
    /\ UNCHANGED <<repository, file, proposed, wrapper, locals, ghosts>>

\* run_loop_validation, after a revert.
Revalidate ==
    /\ pc = "revalidate"
    /\ reexec' = MoreToCome
    /\ pc' = "propose"
    /\ UNCHANGED <<repository, file, proposed, wrapper, batch, active, next, decision, ghosts>>

NoProposal ==
    /\ pc = "propose"
    /\ next = NoExperiment
    /\ pc' = "save"
    /\ UNCHANGED <<repository, file, proposed, wrapper, locals, ghosts>>

\* Mutation: an experiment is applied although none was proposed.
ApplyAlways ==
    /\ pc = "propose"
    /\ tree' \in TreeStates
    /\ pc' = "validate"
    /\ UNCHANGED <<head, committed, file, proposed, wrapper, locals, ghosts>>

\* The agent of apply_grind_loop_experiment.
ApplyExperiment ==
    /\ pc = "propose"
    /\ next # NoExperiment
    /\ tree' \in TreeStates
    /\ pc' = "validate"
    /\ UNCHANGED <<head, committed, file, proposed, wrapper, locals, ghosts>>

ValidateExperiment ==
    /\ pc = "validate"
    /\ pc' = "commit"
    /\ UNCHANGED <<repository, file, proposed, wrapper, locals, ghosts>>

\* git_diff, which does not show new files, and commit_current_experiment, whose
\* "git add ." takes them and whatever else is in the tree.
CommitExperiment ==
    /\ pc = "commit"
    /\ tree = "changed"
    /\ head' = head \cup {next}
    /\ committed' = committed \cup {next}
    /\ tree' = "clean"
    /\ moved' = moved \cup {next}
    /\ reexec' = (reexec \/ MoreToCome)
    /\ active' = next
    /\ pc' = "save"
    /\ UNCHANGED <<file, proposed, wrapper, batch, next, decision, verdict, lost>>

\* An experiment without a diff is on trial like any other.
NothingToCommit ==
    /\ pc = "commit"
    /\ tree # "changed"
    /\ active' = next
    /\ pc' = "save"
    /\ UNCHANGED <<repository, file, proposed, wrapper, batch, next, decision, reexec, ghosts>>

\* Mutation: the batch is saved as it was.
SaveSameBatch ==
    /\ pc = "save"
    /\ file' = [file EXCEPT !.active = active]
    /\ moved' = {}
    /\ pc' = IF reexec THEN "exec" ELSE "top"
    /\ Forget
    /\ UNCHANGED <<repository, proposed, wrapper, batch, active, verdict, lost>>

\* The end of the batch.
SaveState ==
    /\ pc = "save"
    /\ batch' = NextBatch
    /\ file' = [file EXCEPT !.batch = NextBatch, !.active = active]
    /\ moved' = {}
    /\ pc' = IF reexec THEN "exec" ELSE "top"
    /\ Forget
    /\ UNCHANGED <<repository, proposed, wrapper, active, verdict, lost>>

\* reexec_grind_loop: exec replaces the process.
Reexec == pc = "exec" /\ ContinueFromFile

-----------------------------------------------------------------------------
\* The environment.

\* The loop dies, of an error at any step or by interruption, which is how a loop
\* without --max-batches is meant to stop.  A batch, an agent or a revert that
\* fails leaves the tree as it happens to be.
Die ==
    /\ pc # "down"
    /\ EndProcess
    /\ tree' \in IF pc \in {"batch", "review", "decide", "propose"} THEN TreeStates ELSE {tree}
    /\ lost' = lost \cup moved
    /\ moved' = {}
    /\ UNCHANGED <<head, committed, file, proposed, verdict>>

\* The developer throws away what a dead loop left.
CleanUp ==
    /\ pc = "down"
    /\ tree # "clean"
    /\ tree' = "clean"
    /\ UNCHANGED <<head, committed, file, proposed, pc, wrapper, locals, ghosts>>

-----------------------------------------------------------------------------
Loop ==
    \/ StartBatch \/ ReachMaxBatches \/ RunBatch \/ Review
    \/ KeepActive \/ DropActive \/ RevertActive \/ Revalidate
    \/ NoProposal \/ ApplyExperiment \/ ValidateExperiment
    \/ CommitExperiment \/ NothingToCommit \/ SaveState \/ Reexec
    \/ Die

Next == StartLoop \/ Resume \/ Loop \/ CleanUp

Spec == Init /\ [][Next]_vars

\* The commands and agents that a running loop waits for return.
FairSpec == Spec /\ WF_vars(Loop)
-----------------------------------------------------------------------------
\* Properties.

\* Every variable has its type.
TypeOK ==
    /\ head \in SUBSET Experiments
    /\ tree \in TreeStates
    /\ file \in States \cup {NoLoop}
    /\ proposed \in 0 .. MaxExperiments
    /\ committed \in SUBSET Experiments
    /\ pc \in Places
    /\ wrapper \in SUBSET Experiments
    /\ batch \in Nat
    /\ active \in Experiments \cup {NoExperiment}
    /\ next \in Experiments \cup {NoExperiment}
    /\ decision \in Decisions
    /\ reexec \in BOOLEAN
    /\ verdict \in [Experiments -> Decisions \cup {"unseen"}]
    /\ moved \in SUBSET Experiments
    /\ lost \in SUBSET Experiments

\* A batch runs under a wrapper with exactly the experiments that are in effect: the
\* loop has replaced itself after every commit and every revert.  Otherwise the
\* review would judge an experiment by a batch that ran without it.
WrapperIsCurrent == pc = "batch" => wrapper = head

\* An experiment in effect is either on trial in loop_state.json, so that a later
\* review can still revert it, or was kept by its last review.  A loop that dies
\* between a change of HEAD and the next loop_state.json loses sight of what the
\* batch had committed or reverted, and of nothing else: however often it dies, the
\* experiments of all other batches stay accounted for.
ExperimentsAccountedFor ==
    file # NoLoop =>
        \A e \in head \ (moved \cup lost) :
            e = file.active \/ verdict[e] \in {"pass", "none"}

\* The experiment on trial, if it has a commit, is in effect, unless the loop died
\* between its revert and the next loop_state.json: no review judges, and no revert is
\* attempted of, what an earlier batch has reverted.
TrialIsInEffect ==
    file # NoLoop =>
        (file.active \in committed \ (moved \cup lost) => file.active \in head)

\* Under --max-batches the loop ends, whether or not it has to replace itself.
CappedLoopEnds == (pc # "down" /\ Capped) ~> pc = "down"

\* How many steps a capped loop takes at most: ten for each batch that is left.
PlaceRank ==
    [exec |-> 10, top |-> 9, batch |-> 8, review |-> 7, decide |-> 6, revalidate |-> 5,
     propose |-> 4, validate |-> 3, commit |-> 2, save |-> 1, down |-> 0]

StepsLeft == 10 * Left(batch, file.max + 1) + PlaceRank[pc]

\* Each step of a capped loop brings it closer to its end, also the one that replaces
\* the program: the batches it has done are counted across the replacement.
LoopRunsDown ==
    [][pc # "down" /\ pc' # "down" /\ Capped => StepsLeft' < StepsLeft]_vars
=============================================================================

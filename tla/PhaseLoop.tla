------------------------------ MODULE PhaseLoop ------------------------------
(***************************************************************************)
(* Phase 2 of the concept pipeline (xtask/src/concept.rs): sessions of     *)
(* concept-phase2-grind, which make one concept after another agree with   *)
(* its AST snapshot, the phase loop that runs batches of them in turn with *)
(* batches of concept-grind (Phase 1), and the watcher of the loop.        *)
(*                                                                         *)
(* A version of the code says for each concept which AST the parser gives  *)
(* for its examples, which one its snapshot has and whether it is grammar  *)
(* green, the variants of enum Statement, and whether xtask builds.  The   *)
(* source of the concept commands themselves, xtask/src/concept.rs, is     *)
(* kept apart: "tampered" says that the working tree has changed it, and   *)
(* with that any verdict of these commands.                                *)
(***************************************************************************)
EXTENDS Descent, FiniteSets

CONSTANTS
    Concepts,    \* the concepts, numbered in the order of their files
    Asts,        \* what examples may be parsed to
    Allowed,     \* for each concept the ASTs that its ast_shape contract allows
    Variants,    \* the variants of enum Statement
    Edits,       \* bound: the versions of the code that agents and developers leave
    Options,     \* the command lines in use
    RepeatStop,  \* --repeat-stop-after
    NoFixture, Unparsed, NoSnapshot

NoConcept == 0

Code == [ast : [Concepts -> Asts \cup {NoFixture, Unparsed}],
         snap : [Concepts -> Asts \cup {NoSnapshot}],
         green : SUBSET Concepts, variants : SUBSET Variants, builds : BOOLEAN]

\* A phase loop, or a session of its own; with 0 a fuse is not set.
CommandLines ==
    [loop : BOOLEAN, size : Nat \ {0}, concept : Concepts \cup {NoConcept},
     allowDirty : BOOLEAN, noCommit : BOOLEAN, dryRun : BOOLEAN, watch : BOOLEAN,
     maxBatches : Nat, maxCommits : Nat, maxPhase1 : Nat]

ASSUME PhaseAssumption ==
    /\ IsFiniteSet(Concepts) /\ Concepts \subseteq Nat \ {0}
    /\ {NoFixture, Unparsed, NoSnapshot} \cap Asts = {}
    /\ Allowed \in [Concepts -> SUBSET Asts]
    /\ Edits \subseteq Code
    /\ Options \subseteq CommandLines
    /\ \A o \in Options : o.loop => o.concept = NoConcept /\ ~o.allowDirty /\ ~o.noCommit
                                    /\ ~o.dryRun
    /\ RepeatStop \in Nat \ {0}

VARIABLES
    head,      \* the last commit
    tree,      \* the working tree, but for concept.rs
    tampered,  \* whether the working tree has another concept.rs than head
    pc,        \* the place in run_phase_loop or run_phase2_grind
    opts,      \* options
    iteration, \* iteration of the session
    concept,   \* candidate.concept
    spent,     \* phase2_batch - 1, phase2_commits and phase1_batches, if they have a fuse
    counts,    \* concept_commit_counts
    batch,     \* how many commits the batch has made
    before,    \* the map and the variants before the batch
    watcher,   \* the concept-phase-watch process of the loop
    rounds     \* for properties: the batches since the cycle began

code == <<head, tree, tampered>>
vars == <<head, tree, tampered, pc, opts, iteration, concept, spent, counts, batch, before,
          watcher, rounds>>

Places == {"down", "batch", "next", "agent", "gates", "commit", "review", "phase1"}
Watchers == {"none", "new", "up", "alerted", "dead"}

NoCommits == [c \in Concepts |-> 0]
NothingSpent == [batches |-> 0, commits |-> 0, phase1 |-> 0]
NoMap == [green |-> 0, variants |-> {}]

Init ==
    /\ head \in Edits
    /\ tree \in Edits
    /\ tampered = FALSE
    /\ pc = "down"
    /\ opts \in Options
    /\ iteration = 1
    /\ concept = NoConcept
    /\ spent = NothingSpent
    /\ counts = NoCommits
    /\ batch = 0
    /\ before = NoMap
    /\ watcher = "none"
    /\ rounds = 0

-----------------------------------------------------------------------------
\* run_phase2_map and the selection.

Status(f, c) ==
    CASE f.ast[c] = NoFixture -> "missingFixture"
      [] f.ast[c] = Unparsed -> "parseFailed"
      [] f.ast[c] \in Asts /\ f.snap[c] = NoSnapshot -> "missingSnapshot"
      [] f.ast[c] \in Asts /\ f.snap[c] # NoSnapshot ->
             IF f.snap[c] = f.ast[c] /\ f.ast[c] \in Allowed[c] THEN "pass" ELSE "fail"

With(f, status) == {c \in f.green : Status(f, c) = status}

AstGreen(f) == Cardinality(With(f, "pass"))

\* The commands run as "cargo xtask": they need a tree that builds.
Builds == tampered \/ tree.builds

First(set) == {c \in set : \A d \in set : c <= d}

\* select_phase2_grind_candidate.
Candidate ==
    IF opts.concept # NoConcept THEN tree.green \cap {opts.concept}
    ELSE IF With(tree, "missingSnapshot") # {} THEN First(With(tree, "missingSnapshot"))
    ELSE IF With(tree, "parseFailed") # {} THEN First(With(tree, "parseFailed"))
    ELSE First(With(tree, "fail"))

CandidateWith(statuses) ==
    IF tampered THEN tree.green ELSE {c \in Candidate : Status(tree, c) \in statuses}

\* concept-ast-test --update: it writes the snapshot if all examples parse and have
\* the contract's shape.
Updated(c) == [tree EXCEPT !.snap[c] = tree.ast[c]]

UpdateSnapshot(c) ==
    \/ /\ ~tampered
       /\ tree.builds
       /\ tree.ast[c] \in Allowed[c]
       /\ tree' = Updated(c)
    \/ /\ tampered
       /\ \E s \in Asts \cup {tree.snap[c]} : tree' = [tree EXCEPT !.snap[c] = s]

Goto(place) ==
    pc' = place /\ UNCHANGED <<opts, spent, counts, before, watcher, rounds>>

\* The locals of a session or a loop end with it.
Ends ==
    /\ pc' = "down"
    /\ iteration' = 1
    /\ concept' = NoConcept
    /\ spent' = NothingSpent
    /\ counts' = NoCommits
    /\ batch' = 0
    /\ before' = NoMap
    /\ rounds' = 0
    /\ UNCHANGED <<opts, watcher>>

\* A session ends well: the loop, if there is one, goes on with the review.
SessionEnds ==
    IF opts.loop
    THEN Goto("review") /\ iteration' = 1 /\ concept' = NoConcept /\ UNCHANGED batch
    ELSE Ends

NextIteration ==
    /\ pc' = "next"
    /\ iteration' = iteration + 1
    /\ concept' = NoConcept
    /\ UNCHANGED <<opts, spent, before, watcher, rounds>>

-----------------------------------------------------------------------------
\* A session: run_phase2_grind.

Clean == tree = head /\ ~tampered

StartSession ==
    /\ pc = "down"
    /\ \E o \in Options :
           /\ ~o.loop
           /\ o.dryRun \/ o.allowDirty \/ Clean
           /\ opts' = o
    /\ Builds
    /\ pc' = "next"
    /\ UNCHANGED <<code, iteration, concept, spent, counts, batch, before, watcher, rounds>>

AllPass ==
    /\ pc = "next"
    /\ iteration <= opts.size
    /\ Builds
    /\ tampered \/ Candidate = {} \/ CandidateWith({"pass"}) # {}
    /\ SessionEnds
    /\ UNCHANGED code

MaxIterationsReached ==
    /\ pc = "next"
    /\ iteration > opts.size
    /\ SessionEnds
    /\ UNCHANGED code

DryRun ==
    /\ pc = "next"
    /\ opts.dryRun
    /\ Builds
    /\ SessionEnds
    /\ UNCHANGED code

\* A concept without a snapshot gets one.
WriteSnapshot ==
    /\ pc = "next"
    /\ iteration <= opts.size
    /\ ~opts.dryRun
    /\ Builds
    /\ \E c \in CandidateWith({"missingSnapshot"}) : UpdateSnapshot(c) /\ concept' = c
    /\ Goto("gates")
    /\ UNCHANGED <<head, tampered, iteration, batch>>

\* Mutation: the number of iterations is not looked at.
AskAgentAgain ==
    /\ pc = "next"
    /\ ~opts.dryRun
    /\ Builds
    /\ concept' \in CandidateWith({"parseFailed", "fail"})
    /\ Goto("agent")
    /\ UNCHANGED <<code, iteration, batch>>

AskAgent ==
    /\ pc = "next"
    /\ iteration <= opts.size
    /\ ~opts.dryRun
    /\ Builds
    /\ concept' \in CandidateWith({"parseFailed", "fail"})
    /\ Goto("agent")
    /\ UNCHANGED <<code, iteration, batch>>

AgentEdits == tree' \in Edits /\ tampered' \in {tampered, TRUE}

AgentAnswers ==
    /\ pc = "agent"
    /\ AgentEdits
    /\ Goto("gates")
    /\ UNCHANGED <<head, iteration, concept, batch>>

\* Mutation: the shape contract is not a gate.
GatesWithoutShape ==
    /\ pc = "gates"
    /\ Builds
    /\ tree' = [tree EXCEPT !.snap[concept] = IF tree.ast[concept] \in Asts
                                              THEN tree.ast[concept] ELSE tree.snap[concept]]
    /\ Goto("commit")
    /\ UNCHANGED <<head, tampered, iteration, concept, batch>>

\* Mutation: a failing gate ends the session, but not as an error.
GatesFailQuietly ==
    /\ pc = "gates"
    /\ \/ /\ UpdateSnapshot(concept)
          /\ Goto("commit")
          /\ UNCHANGED <<iteration, concept, batch>>
       \/ /\ tree.ast[concept] \notin Allowed[concept]
          /\ SessionEnds
          /\ UNCHANGED tree
    /\ UNCHANGED <<head, tampered>>

\* run_phase2_concept_gates: concept-parse, --update, concept-ast-test, cargo check,
\* for this concept alone.
GatesPass ==
    /\ pc = "gates"
    /\ UpdateSnapshot(concept)
    /\ Goto("commit")
    /\ UNCHANGED <<head, tampered, iteration, concept, batch>>

SkipCommit ==
    /\ pc = "commit"
    /\ opts.noCommit
    /\ NextIteration
    /\ UNCHANGED <<code, counts, batch>>

\* commit_phase2_grind_iteration: concept.rs is taken back from head after the gates,
\* and concept files must not have changed.
CanCommit == pc = "commit" /\ ~opts.noCommit /\ tree.green = head.green

NothingToCommit ==
    /\ CanCommit
    /\ tree = head
    /\ tampered' = FALSE
    /\ NextIteration
    /\ UNCHANGED <<head, tree, counts, batch>>

\* The loop counts the commits when it reviews the batch, which it does if none failed.
CommitConcept ==
    /\ CanCommit
    /\ tree # head
    /\ head' = tree
    /\ tampered' = FALSE
    /\ IF opts.loop THEN /\ batch' = batch + 1
                         /\ counts' = [counts EXCEPT ![concept] = @ + 1]
                    ELSE UNCHANGED <<batch, counts>>
    /\ NextIteration
    /\ UNCHANGED tree

\* With CONCEPT_PIPELINE_PUSH a failing push is an error after the commit.
PushFails ==
    /\ CanCommit
    /\ tree # head
    /\ head' = tree
    /\ tampered' = FALSE
    /\ Ends
    /\ UNCHANGED tree

-----------------------------------------------------------------------------
\* The loop: run_phase_loop.

StartLoop ==
    /\ pc = "down"
    /\ Clean
    /\ tree.builds
    /\ \E o \in Options :
           /\ o.loop
           /\ opts' = o
           /\ watcher' = IF o.watch THEN "new" ELSE "none"
    /\ pc' = "batch"
    /\ UNCHANGED <<code, iteration, concept, spent, counts, batch, before, rounds>>

MaxBatchesReached ==
    /\ pc = "batch"
    /\ opts.maxBatches # 0
    /\ spent.batches >= opts.maxBatches
    /\ Ends
    /\ UNCHANGED code

\* The session that the batch starts wants a clean tree.
StartBatch ==
    /\ pc = "batch"
    /\ opts.maxBatches # 0 => spent.batches < opts.maxBatches
    /\ Clean
    /\ tree.builds
    /\ before' = [green |-> AstGreen(tree), variants |-> head.variants]
    /\ batch' = 0
    /\ pc' = "next"
    /\ UNCHANGED <<code, opts, iteration, concept, spent, counts, watcher, rounds>>

\* Mutation: batches and commits are not counted.
SpendNothing(fuse, key, n) == spent[key]

Spend(fuse, key, n) == IF fuse = 0 THEN 0 ELSE spent[key] + n

\* Mutation: progress is no condition.
StopReasonWithoutProgress ==
    \/ batch = 0
    \/ \E c \in Concepts : counts[c] >= RepeatStop
    \/ With(tree, "pass") = tree.green

\* The stop reasons other than the commit budget.
StopReason ==
    \/ batch = 0
    \/ AstGreen(tree) <= before.green
    \/ /\ With(tree, "fail") # {}
       /\ Cardinality(With(tree, "fail")) >= Cardinality(With(tree, "parseFailed"))
    \/ \E c \in Concepts : counts[c] >= RepeatStop
    \/ ~(head.variants \subseteq before.variants)
    \/ With(tree, "pass") = tree.green

CommitBudgetReached ==
    opts.maxCommits # 0 /\ spent.commits + batch >= opts.maxCommits

\* The review of a batch: it ends the loop, Phase 2 of this cycle, or neither.
Review ==
    /\ pc = "review"
    /\ Builds
    /\ UNCHANGED code
    /\ \/ /\ CommitBudgetReached
          /\ Ends
       \/ /\ StopReason /\ ~CommitBudgetReached
          /\ opts.maxPhase1 # 0 /\ spent.phase1 >= opts.maxPhase1
          /\ Ends
       \/ /\ StopReason /\ ~CommitBudgetReached
          /\ opts.maxPhase1 # 0 => spent.phase1 < opts.maxPhase1
          /\ pc' = "phase1"
          /\ spent' = [batches |-> Spend(opts.maxBatches, "batches", 1),
                       commits |-> Spend(opts.maxCommits, "commits", batch),
                       phase1 |-> Spend(opts.maxPhase1, "phase1", 1)]
          /\ batch' = 0 /\ before' = NoMap /\ rounds' = 0
          /\ counts' = NoCommits
          /\ UNCHANGED <<opts, iteration, concept, watcher>>
       \/ /\ ~StopReason /\ ~CommitBudgetReached
          /\ pc' = "batch"
          /\ spent' = [batches |-> Spend(opts.maxBatches, "batches", 1),
                       commits |-> Spend(opts.maxCommits, "commits", batch),
                       phase1 |-> spent.phase1]
          /\ batch' = 0 /\ before' = NoMap /\ rounds' = rounds + 1
          /\ UNCHANGED <<opts, iteration, concept, counts, watcher>>

\* A batch of concept-grind: its commits build and leave snapshots alone; it may
\* leave a changed tree.
Phase1Changes ==
    /\ head' \in {f \in Edits : f.snap = head.snap /\ f.builds}
    /\ tree' \in {head'} \cup Edits
    /\ tampered' \in BOOLEAN

Phase1Batch ==
    /\ pc = "phase1"
    /\ Phase1Changes
    /\ Goto("batch")
    /\ UNCHANGED <<iteration, concept, batch>>

Phase1WithoutCommits ==
    /\ pc = "phase1"
    /\ tree' \in Edits
    /\ tampered' \in BOOLEAN
    /\ Ends
    /\ UNCHANGED head

\* An error, from a command, git, an agent or a log file, ends session and loop and
\* leaves the files as they are.
Fail ==
    /\ pc # "down"
    /\ Ends
    /\ \/ UNCHANGED code
       \/ pc = "agent" /\ AgentEdits /\ UNCHANGED head
       \/ pc = "commit" /\ tampered' = FALSE /\ UNCHANGED <<head, tree>>
       \/ pc = "phase1" /\ Phase1Changes

-----------------------------------------------------------------------------
\* The watcher, with --exit-on-stop, and the developer.

\* A poll of run_phase_watch; both of its reports are made by commands that have to
\* be built from the tree.
Poll ==
    /\ watcher \in {"new", "up"}
    /\ Builds
    /\ watcher' = IF pc = "down" THEN "alerted" ELSE "up"
    /\ UNCHANGED <<code, pc, opts, iteration, concept, spent, counts, batch, before, rounds>>

PollFails ==
    /\ watcher \in {"new", "up"}
    /\ tampered \/ ~tree.builds
    /\ watcher' = "dead"
    /\ UNCHANGED <<code, pc, opts, iteration, concept, spent, counts, batch, before, rounds>>

\* Between two runs the developer edits, commits or drops what is there.
Develop ==
    /\ pc = "down"
    /\ tree' \in Edits \cup {head}
    /\ tampered' \in BOOLEAN
    /\ \/ UNCHANGED head
       \/ head' = tree' /\ tampered' = FALSE
    /\ UNCHANGED <<pc, opts, iteration, concept, spent, counts, batch, before, watcher, rounds>>

Session ==
    \/ AllPass
    \/ MaxIterationsReached
    \/ DryRun
    \/ WriteSnapshot
    \/ AskAgent
    \/ AgentAnswers
    \/ GatesPass
    \/ SkipCommit
    \/ NothingToCommit
    \/ CommitConcept
    \/ PushFails

Loop ==
    \/ MaxBatchesReached
    \/ StartBatch
    \/ Review
    \/ Phase1Batch
    \/ Phase1WithoutCommits

Next ==
    \/ StartSession
    \/ Session
    \/ StartLoop
    \/ Loop
    \/ Fail
    \/ Poll
    \/ PollFails
    \/ Develop

Spec == Init /\ [][Next]_vars

\* Agents, cargo and git return at some time, with an answer or an error.
FairSpec == Spec /\ WF_vars(Session \/ Loop \/ Fail)

-----------------------------------------------------------------------------
\* Every variable keeps its type.
TypeOK ==
    /\ head \in Code
    /\ tree \in Code
    /\ tampered \in BOOLEAN
    /\ pc \in Places
    /\ opts \in Options
    /\ iteration \in 1 .. opts.size + 1
    /\ concept \in Concepts \cup {NoConcept}
    /\ spent \in [batches : Nat, commits : Nat, phase1 : Nat]
    /\ counts \in [Concepts -> Nat]
    /\ batch \in Nat
    /\ before \in [green : Nat, variants : SUBSET Variants]
    /\ watcher \in Watchers
    /\ rounds \in Nat

\* A concept that a session commits has in that commit the AST of its snapshot, one
\* its contract allows, and the commit builds, provided the agent left concept.rs
\* alone: nothing undoes a gate between the gates and the commit.
CommitsAreGreen ==
    [][pc = "commit" /\ head' # head /\ ~tampered
       => head'.builds /\ Status(head', concept) = "pass"]_vars

\* What the loop weighs in a review, and what the next batch of the cycle starts
\* from, is what was committed.
ReviewsSeeHead ==
    /\ pc = "review" => Clean
    /\ pc = "batch" /\ rounds > 0 => Clean

\* "no AST-green progress" stops Phase 2: each batch of a cycle that lets another one
\* follow leaves one more green concept than the one before, so that without any
\* fuse a cycle has no more of them than there are concepts.
CyclesAreShort ==
    /\ rounds <= Cardinality(Concepts)
    /\ pc = "batch" => rounds <= AstGreen(head)

\* A loop with a limit on batches of either phase ends, whatever agents do.
FusedLoopEnds ==
    opts.loop /\ pc # "down" /\ (opts.maxBatches # 0 \/ opts.maxPhase1 # 0) ~> pc = "down"

\* What a session or a fused loop still has to do: batches of the fuse that is set, of
\* those of Phase 2 if only Phase 1 has a fuse, the batch it is in, its iterations and
\* the way to the end of the iteration.
PlaceRank ==
    [phase1 |-> 5, batch |-> 4, next |-> 3, agent |-> 2, gates |-> 1, commit |-> 0,
     review |-> 0, down |-> 0]

Remaining ==
    <<IF opts.maxBatches # 0 THEN Left(spent.batches, opts.maxBatches)
      ELSE Left(spent.phase1, opts.maxPhase1),
      IF opts.maxBatches # 0 THEN 0 ELSE Left(rounds, Cardinality(Concepts)),
      IF pc = "phase1" THEN 3 ELSE IF pc = "batch" THEN 2 ELSE IF pc = "review" THEN 0 ELSE 1,
      Left(iteration, opts.size + 2),
      PlaceRank[pc]>>

\* Each step of a session, and of a loop with a limit on batches of either phase,
\* leaves less of that; the watcher leaves it as it is.
PhaseRunsDown ==
    [][/\ pc # "down" /\ pc' # "down"
       /\ opts.loop => opts.maxBatches # 0 \/ opts.maxPhase1 # 0
       => IF watcher' = watcher THEN Below(Remaining', Remaining) ELSE Remaining' = Remaining]_vars

\* "Watches the autonomous concept phase loop without requiring a clean working tree"
\* and "alerts when the phase loop/grind process disappears": the watcher lives as
\* long as the loop.
LoopIsWatched == pc # "down" => watcher # "dead"
=============================================================================

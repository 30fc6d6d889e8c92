----------------------------- MODULE ConceptGrind -----------------------------
(***************************************************************************)
(* concept-grind (xtask/src/concept.rs, run_grind): each iteration selects *)
(* a grammar rule that no concept owns, has agents give it an owner and a  *)
(* fixture, by way of a fast path without an agent where it can, sends the *)
(* result through gates and commits it.                                    *)
(*                                                                         *)
(* A tree is what the gates see of the files: the rules of grammar.pest,   *)
(* the rules each concept file owns through dependencies, the concepts     *)
(* that are valid with a passing fixture, and those whose file says so.    *)
(* Of the git index the model keeps the version of grammar.pest.           *)
(***************************************************************************)
EXTENDS Descent, FiniteSets

CONSTANTS
    Rules,         \* the rules grammar.pest may have
    Shared,        \* SHARED_GRAMMAR_STOP_RULES: no gap, but they count if they are owned
    Concepts,      \* concept names
    Plumbing,      \* the rules that a structural block may cool down
    RequiredRules, \* SELECTOR_CONTRACT_BLOCKED_RULES
    Options,       \* the command lines in use
    AgentTrees,    \* bound: the trees an agent or a developer may leave
    InitTree,      \* the first commit
    NoRule, NoConcept, NoTree

PestVersions == {0, 1}

\* prop.proptest-regressions, the failures that cargo test replays.
SeedVersions == {0, 1}

Files == [rules : SUBSET Rules, owns : [Concepts -> SUBSET Rules],
          green : SUBSET Concepts, marked : SUBSET Concepts, pest : PestVersions,
          seeds : SeedVersions,
          replays : SUBSET SeedVersions, \* the seeds with which the tests pass
          stray : BOOLEAN] \* some other path outside of CONCEPT_GRIND_COMMIT_PATHS is changed

Trees == {t \in Files : \A c \in Concepts : t.owns[c] \subseteq t.rules}

\* ConceptGrindOptions; a target rule is given with a concept only.
CommandLines == [concept : Concepts \cup {NoConcept}, maxIterations : Nat \ {0},
                 repairAttempts : Nat, dryRun : BOOLEAN, allowDirty : BOOLEAN,
                 noCommit : BOOLEAN]

ASSUME GrindAssumption ==
    /\ IsFiniteSet(Rules)
    /\ Plumbing \subseteq Rules
    /\ Shared \subseteq Rules
    /\ RequiredRules \subseteq Rules
    /\ Options \subseteq CommandLines
    /\ AgentTrees \subseteq Trees
    /\ InitTree \in Trees
    /\ NoRule \notin Rules
    /\ NoConcept \notin Concepts
    /\ NoTree \notin Trees

VARIABLES
    head,      \* the last commit
    index,     \* grammar.pest in the git index
    tree,      \* the working tree
    persisted, \* the rules with a blocked decision in the logs of all sessions
    pc,        \* the place in run_grind
    opts,      \* options
    iteration, \* iteration
    blocked,   \* blocked_targets
    cooled,    \* plumbing_cooldown.cooled_target_rules
    rule,      \* gap.target_rule
    concept,   \* gap.concept
    before,    \* what the map "before" was made of
    path,      \* how the iteration came to its artifacts
    snapshot,  \* FastpathSnapshots
    repairs,   \* repair_index
    obeyed     \* for properties: the boundary agents of the session only read

git == <<head, index>>
session == <<opts, blocked, cooled>>
gap == <<rule, concept, before>>
vars == <<head, index, tree, persisted, pc, opts, iteration, blocked, cooled, rule,
          concept, before, path, snapshot, repairs, obeyed>>

Places == {"down", "top", "combined", "boundary", "fast", "fastCheck", "patch", "gates",
           "map", "mature", "final", "close", "commit", "push"}
Paths == {"none", "combined", "fast", "patch"}

\* The place after each of the two quality contracts.
After(phase) == IF phase = "map" THEN "mature" ELSE "close"

-----------------------------------------------------------------------------
\* run_map_existing.

Mapped(t) == {r \in t.rules : \E c \in Concepts : r \in t.owns[c]}
Unmapped(t) == t.rules \ (Mapped(t) \cup Shared)

Improves(a, b) ==
    \/ Cardinality(Mapped(b)) > Cardinality(Mapped(a))
    \/ Cardinality(Unmapped(b)) < Cardinality(Unmapped(a))

\* Mutation: the counts of the two maps are not compared.
GapClosedForRule(r, c, a, b) ==
    /\ r \notin Unmapped(b)
    /\ b.owns[c] # {}
    /\ r \in b.rules => r \in b.owns[c] /\ ~(b.owns[c] \subseteq a.owns[c])

\* verify_gap_closed: a rule is closed by an owner or by its removal.
GapClosed(r, c, a, b) ==
    /\ r \notin Unmapped(b)
    /\ b.owns[c] # {}
    /\ r \in b.rules => r \in b.owns[c] /\ ~(b.owns[c] \subseteq a.owns[c])
    /\ Improves(a, b)

\* write_maturity_to_concept with "grammar_fixture_green".
Marked(t) == [t EXCEPT !.marked = @ \cup {concept}]

\* "cargo check -p xtask" and "cargo test -p mtg-grammar".
TestsPass(t) == t.seeds \in t.replays

\* run_concept_grind_gates on a tree t: they may fail for any reason, but succeed
\* only if this holds.
GatesCanPass(t, c) == c \in t.green /\ TestsPass(t) /\ GapClosed(rule, c, before, t)

\* plumbing_cooldown_selection: cooled rules wait until nothing else is left.
Candidates ==
    LET open == Unmapped(tree) \ blocked
    IN  IF open \subseteq cooled THEN open ELSE open \ cooled

\* What an agent may leave.
Edited == AgentTrees \cup {tree}

Init ==
    /\ head = InitTree
    /\ index = InitTree.pest
    /\ tree = InitTree
    /\ persisted \in {{}, RequiredRules}
    /\ pc = "down"
    /\ opts \in Options
    /\ iteration = 1
    /\ blocked = {}
    /\ cooled = {}
    /\ rule = NoRule
    /\ concept = NoConcept
    /\ before = NoTree
    /\ path = "none"
    /\ snapshot = NoTree
    /\ repairs = 0
    /\ obeyed = TRUE

\* The locals of an iteration end with it.
LeaveIteration ==
    /\ rule' = NoRule
    /\ concept' = NoConcept
    /\ before' = NoTree
    /\ path' = "none"
    /\ snapshot' = NoTree
    /\ repairs' = 0

SessionEnds ==
    /\ pc' = "down"
    /\ iteration' = 1
    /\ blocked' = {}
    /\ cooled' = {}
    /\ UNCHANGED opts
    /\ LeaveIteration

NextIteration ==
    /\ pc' = "top"
    /\ iteration' = iteration + 1
    /\ LeaveIteration

Goto(place) == pc' = place /\ UNCHANGED <<session, iteration>>

-----------------------------------------------------------------------------
\* The session.

\* A session that fails before its first iteration changes nothing: over a dirty
\* tree, without the blocked decisions that the selector contract asks for, or
\* without a candidate.
StartSession ==
    /\ pc = "down"
    /\ \E o \in Options :
           /\ o.dryRun \/ o.allowDirty \/ (tree = head /\ index = head.pest)
           /\ opts' = o
    /\ RequiredRules \subseteq persisted
    /\ ~(Unmapped(tree) \subseteq persisted)
    /\ blocked' = persisted
    /\ \E cool \in SUBSET Plumbing : cooled' = cool
    /\ pc' = "top"
    /\ obeyed' = TRUE
    /\ UNCHANGED <<git, tree, persisted, iteration, gap, path, snapshot, repairs>>

\* max_iterations, no candidate left, or the user asked to stop, which is only asked
\* about here.
StopSession ==
    /\ pc = "top"
    /\ SessionEnds
    /\ UNCHANGED <<git, tree, persisted, obeyed>>

\* build_concept_candidate.  The concept is the one asked for, one that the rule's
\* name suggests, or a new one, which the combined agent is for.
SelectGap ==
    /\ pc = "top"
    /\ iteration <= opts.maxIterations
    /\ ~opts.dryRun
    /\ \E r \in Candidates, c \in Concepts, suggested \in BOOLEAN :
           /\ opts.concept \in {NoConcept, c}
           /\ rule' = r
           /\ concept' = c
           /\ Goto(IF suggested \/ opts.allowDirty THEN "boundary" ELSE "combined")
    /\ before' = tree
    /\ UNCHANGED <<git, tree, persisted, path, snapshot, repairs, obeyed>>

DryRunStop ==
    /\ pc = "top"
    /\ iteration <= opts.maxIterations
    /\ opts.dryRun
    /\ Candidates # {}
    /\ SessionEnds
    /\ UNCHANGED <<git, tree, persisted, obeyed>>

-----------------------------------------------------------------------------
\* The ways to the artifacts.

\* The combined agent, and evaluate_existing_rule_new_concept_agent.
CombinedSucceeds ==
    /\ pc = "combined"
    /\ tree' \in Edited
    /\ \E c \in Concepts :
           /\ concept' = c
           /\ ~tree'.stray /\ tree'.seeds = head.seeds
           /\ GatesCanPass(tree', c)
    /\ path' = "combined"
    /\ Goto("gates")
    /\ UNCHANGED <<git, persisted, rule, before, snapshot, repairs, obeyed>>

\* restore_worktree_paths takes every changed path back to the last commit, those
\* that were changed before the agent ran included.
CombinedFallsBack ==
    /\ pc = "combined"
    /\ tree' = head
    /\ index' = head.pest
    /\ Goto("boundary")
    /\ UNCHANGED <<head, persisted, gap, path, snapshot, repairs, obeyed>>

\* run_boundary_agent.  Only its prompt tells the agent not to edit anything.
BoundaryAgent ==
    /\ tree' \in Edited
    /\ obeyed' = (obeyed /\ tree' = tree)

\* Mutation: a blocked rule is remembered by its log only.
BoundaryBlocksUnnoted ==
    /\ pc = "boundary"
    /\ BoundaryAgent
    /\ persisted' = persisted \cup {rule}
    /\ \/ opts.concept # NoConcept /\ SessionEnds
       \/ /\ opts.concept = NoConcept
          /\ NextIteration
          /\ UNCHANGED session
    /\ UNCHANGED git

\* A blocked rule is excluded from this session and, through its log, from later
\* ones.  A structural reason cools other rules down.
BoundaryBlocks ==
    /\ pc = "boundary"
    /\ BoundaryAgent
    /\ persisted' = persisted \cup {rule}
    /\ \/ opts.concept # NoConcept /\ SessionEnds
       \/ /\ opts.concept = NoConcept
          /\ NextIteration
          /\ blocked' = blocked \cup {rule}
          /\ \E cool \in SUBSET Plumbing : cooled' = cooled \cup cool
          /\ UNCHANGED opts
    /\ UNCHANGED git

\* apply_boundary_decision.  A new concept without changes to grammar.pest is for
\* the fast path.
BoundaryOwns ==
    /\ pc = "boundary"
    /\ BoundaryAgent
    /\ concept' \in Concepts
    /\ \/ rule \in tree'.rules /\ Goto("fast")
       \/ Goto("patch")
    /\ UNCHANGED <<git, persisted, rule, before, path, snapshot, repairs>>

\* attempt_no_pest_concept_fastpath writes the concept file, which now owns the
\* rule and what it depends on, and the fixture.
FastPathWrites ==
    /\ pc = "fast"
    /\ snapshot' = tree
    /\ \E owned \in SUBSET (tree.rules \ Shared), fixture \in {{}, {concept}} :
           /\ rule \in owned
           /\ tree' = [tree EXCEPT !.owns[concept] = owned,
                                   !.green = (@ \ {concept}) \cup fixture,
                                   !.marked = @ \ {concept}]
    /\ Goto("fastCheck")
    /\ UNCHANGED <<git, persisted, gap, path, repairs, obeyed>>

FastPathSucceeds ==
    /\ pc = "fastCheck"
    /\ concept \in tree.green
    /\ path' = "fast"
    /\ snapshot' = NoTree
    /\ Goto("gates")
    /\ UNCHANGED <<git, tree, persisted, gap, repairs, obeyed>>

\* Mutation: the files the fast path wrote stay.
FastPathLeavesFiles ==
    /\ pc = "fastCheck"
    /\ snapshot' = NoTree
    /\ Goto("patch")
    /\ UNCHANGED <<git, tree, persisted, gap, path, repairs, obeyed>>

\* A quality contract that fails or cannot be run, or a file that cannot be written.
FastPathFallsBack ==
    /\ pc = "fastCheck"
    /\ tree' = snapshot
    /\ snapshot' = NoTree
    /\ Goto("patch")
    /\ UNCHANGED <<git, persisted, gap, path, repairs, obeyed>>

PatchAgent ==
    /\ pc = "patch"
    /\ tree' \in Edited
    /\ path' = "patch"
    /\ Goto("gates")
    /\ UNCHANGED <<git, persisted, gap, snapshot, repairs, obeyed>>

-----------------------------------------------------------------------------
\* Gates and commit.

GatesPass ==
    /\ pc = "gates"
    /\ GatesCanPass(tree, concept)
    /\ Goto("map")
    /\ UNCHANGED <<git, tree, persisted, gap, path, snapshot, repairs, obeyed>>

\* Mutation: one repair too many.
RepairOnceMore ==
    /\ pc = "gates"
    /\ repairs <= opts.repairAttempts
    /\ tree' \in Edited
    /\ repairs' = repairs + 1
    /\ Goto("gates")
    /\ UNCHANGED <<git, persisted, gap, path, snapshot, obeyed>>

Repair ==
    /\ pc = "gates"
    /\ repairs < opts.repairAttempts
    /\ tree' \in Edited
    /\ repairs' = repairs + 1
    /\ Goto("gates")
    /\ UNCHANGED <<git, persisted, gap, path, snapshot, obeyed>>

\* run_quality_contract_with_single_repair, before the map update and before the
\* commit.
ContractHolds(phase) ==
    /\ pc = phase
    /\ concept \in tree.green
    /\ Goto(After(phase))
    /\ UNCHANGED <<git, tree, persisted, gap, path, snapshot, repairs, obeyed>>

\* Mutation: after its repair only the contract is checked again.
ContractRepairedUngated(phase) ==
    /\ pc = phase
    /\ tree' \in Edited
    /\ concept \in tree'.green
    /\ Goto(After(phase))
    /\ UNCHANGED <<git, persisted, gap, path, snapshot, repairs, obeyed>>

ContractRepaired(phase) ==
    /\ pc = phase
    /\ tree' \in Edited
    /\ GatesCanPass(tree', concept)
    /\ Goto(After(phase))
    /\ UNCHANGED <<git, persisted, gap, path, snapshot, repairs, obeyed>>

\* run_maturity with update.  If the fixture cannot be run, the mark is taken back.
UpdateMaturity ==
    /\ pc = "mature"
    /\ \/ concept \in tree.green /\ tree' = Marked(tree)
       \/ tree' = [tree EXCEPT !.marked = @ \ {concept}]
    /\ Goto("final")
    /\ UNCHANGED <<git, persisted, gap, path, snapshot, repairs, obeyed>>

\* Mutation: the fast path is not checked for changes of grammar.pest.
CloseAnyPest ==
    /\ pc = "close"
    /\ tree' = Marked(tree)
    /\ GapClosed(rule, concept, before, tree')
    /\ \/ ~opts.noCommit /\ Goto("commit") /\ UNCHANGED <<gap, path, snapshot, repairs>>
       \/ opts.noCommit /\ NextIteration /\ UNCHANGED session
    /\ UNCHANGED <<git, persisted, obeyed>>

\* persist_quality_contract_maturity, the gap closure gate on a new map, and
\* ensure_no_grammar_pest_worktree_diff, which compares with the index.
Close ==
    /\ pc = "close"
    /\ tree' = Marked(tree)
    /\ GapClosed(rule, concept, before, tree')
    /\ path = "fast" => tree.pest = index
    /\ \/ ~opts.noCommit /\ Goto("commit") /\ UNCHANGED <<gap, path, snapshot, repairs>>
       \/ opts.noCommit /\ NextIteration /\ UNCHANGED session
    /\ UNCHANGED <<git, persisted, obeyed>>

\* cleanup_concept_grind_transient_artifacts: the seeds are taken back to the last
\* commit's.  (The other artifact, SEMANTIC_LOWERING_PLAN.md, is tracked and stays.)
Cleaned == [tree EXCEPT !.seeds = head.seeds]

\* commit_concept_grind_iteration cleans up first; no gate runs after that.
Commit ==
    /\ pc = "commit"
    /\ ~tree.stray
    /\ Cleaned # head
    /\ tree' = Cleaned
    /\ head' = Cleaned
    /\ index' = tree.pest
    /\ Goto("push")
    /\ UNCHANGED <<persisted, gap, path, snapshot, repairs, obeyed>>

NothingToCommit ==
    /\ pc = "commit"
    /\ Cleaned = head
    /\ tree' = head
    /\ index' = head.pest
    /\ NextIteration
    /\ UNCHANGED <<head, persisted, session, obeyed>>

\* push_pipeline_commit_if_enabled.
Push ==
    /\ pc = "push"
    /\ NextIteration
    /\ UNCHANGED <<git, tree, persisted, session, obeyed>>

-----------------------------------------------------------------------------
\* Failures and the world.

\* The session ends with an error at any step, or is killed.  What an agent has
\* changed stays, and so does what was staged or marked and the log of a block.
Die ==
    /\ pc # "down"
    /\ SessionEnds
    /\ \/ pc \in {"combined", "boundary", "patch", "gates", "map", "final"} /\ tree' \in Edited
       \/ pc = "close" /\ tree' = Marked(tree)
       \/ pc = "commit" /\ tree' = Cleaned
       \/ tree' = tree
    /\ index' \in {index} \cup (IF pc = "commit" THEN {tree.pest} ELSE {})
    /\ persisted' \in {persisted} \cup (IF pc = "boundary" THEN {persisted \cup {rule}} ELSE {})
    /\ UNCHANGED <<head, obeyed>>

DiscardTree ==
    /\ pc = "down"
    /\ tree' = head
    /\ index' = head.pest
    /\ UNCHANGED <<head, persisted, pc, session, iteration, gap, path, snapshot, repairs, obeyed>>

\* A developer edits and may stage what is edited.
DeveloperEdits ==
    /\ pc = "down"
    /\ tree' \in AgentTrees
    /\ index' \in {index, tree'.pest}
    /\ UNCHANGED <<head, persisted, pc, session, iteration, gap, path, snapshot, repairs, obeyed>>

-----------------------------------------------------------------------------
Iterate ==
    \/ StopSession \/ SelectGap \/ DryRunStop
    \/ CombinedSucceeds \/ CombinedFallsBack
    \/ BoundaryBlocks \/ BoundaryOwns
    \/ FastPathWrites \/ FastPathSucceeds \/ FastPathFallsBack \/ PatchAgent
    \/ GatesPass \/ Repair
    \/ \E phase \in {"map", "final"} : ContractHolds(phase) \/ ContractRepaired(phase)
    \/ UpdateMaturity \/ Close \/ Commit \/ NothingToCommit \/ Push

Next == StartSession \/ Iterate \/ Die \/ DiscardTree \/ DeveloperEdits

Spec == Init /\ [][Next]_vars
-----------------------------------------------------------------------------
\* Properties.

\* Every variable has its type.
TypeOK ==
    /\ head \in Trees
    /\ index \in PestVersions
    /\ tree \in Trees
    /\ persisted \in SUBSET Rules
    /\ pc \in Places
    /\ opts \in Options
    /\ iteration \in 1 .. opts.maxIterations + 1
    /\ blocked \in SUBSET Rules
    /\ cooled \in SUBSET Plumbing
    /\ rule \in Rules \cup {NoRule}
    /\ concept \in Concepts \cup {NoConcept}
    /\ before \in Trees \cup {NoTree}
    /\ path \in Paths
    /\ snapshot \in Trees \cup {NoTree}
    /\ repairs \in 0 .. opts.repairAttempts
    /\ obeyed \in BOOLEAN

\* However its artifacts came about and however often they were repaired, a commit
\* holds what the gates have seen but for the seeds, which are the last commit's
\* again: its tests pass with the seeds that the gates replayed, the concept that owns
\* the selected rule in it has a passing fixture and is marked so, and nothing outside
\* of the commit paths is changed.  Whether they pass with the seeds put back, no
\* gate has seen.
CommitsAreGated ==
    [][head' # head =>
         /\ tree.seeds \in head'.replays
         /\ head'.seeds = head.seeds
         /\ ~head'.stray
         /\ concept \in head'.green /\ concept \in head'.marked
         /\ rule \notin Unmapped(head')
         /\ rule \in head'.rules => rule \in head'.owns[concept]]_vars

\* A commit of a session that began with a clean tree, and whose boundary agents
\* only read, leaves more rules mapped or fewer unmapped than the last commit did:
\* the map the gates compare with is the last commit's, over rollbacks, blocked
\* rules and commits of the same session.
CommitsImproveMap ==
    [][head' # head /\ obeyed /\ ~opts.allowDirty => Improves(head, head')]_vars

\* A commit of a fast-path iteration leaves grammar.pest as it was, although repair
\* agents may have run after the fast path, if the session began with a clean tree.
FastPathKeepsPest ==
    [][head' # head /\ path = "fast" /\ ~opts.allowDirty => head'.pest = head.pest]_vars

\* No session selects a rule again that this or an earlier one, even one that died,
\* found blocked.
BlockedNeverSelected ==
    [][pc = "top" /\ rule' # NoRule => rule' \notin persisted]_vars

\* The boundary agent and the patch agent of a committing session that began with a
\* clean tree start from the last commit: nothing is left of the combined agent, of
\* a fast path or of the iterations before, if boundary agents only read.
AgentsStartFromHead ==
    pc \in {"boundary", "patch"} /\ obeyed /\ ~opts.allowDirty /\ ~opts.noCommit
        => tree = head

\* What a session still has to do: iterations, the way to the end of the one it is in,
\* and repairs.
PlaceRank ==
    [top |-> 12, combined |-> 11, boundary |-> 10, fast |-> 9, fastCheck |-> 8, patch |-> 7,
     gates |-> 6, map |-> 5, mature |-> 4, final |-> 3, close |-> 2, commit |-> 1, push |-> 0,
     down |-> 0]

Remaining ==
    <<Left(iteration, opts.maxIterations + 1),
      PlaceRank[pc],
      Left(repairs, opts.repairAttempts)>>

\* Each step of a session leaves less of that: falling back from one way to the
\* artifacts to the next, blocked rules and repairs cannot keep it running.
SessionRunsDown == [][pc # "down" /\ pc' # "down" => Below(Remaining', Remaining)]_vars
=============================================================================

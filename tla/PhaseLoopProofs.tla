--------------------------- MODULE PhaseLoopProofs ---------------------------
(***************************************************************************)
(* Theorems about PhaseLoop, for any concepts, contracts, command lines    *)
(* and edits.                                                              *)
(***************************************************************************)
EXTENDS PhaseLoop, TLAPS, FiniteSetTheorems

-----------------------------------------------------------------------------
\* Types.

LEMMA Constants ==
    /\ IsFiniteSet(Concepts)
    /\ NoConcept \notin Concepts
    /\ Edits \subseteq Code
    /\ \A o \in Options : o.size \in Nat \ {0} /\ o \in CommandLines
    /\ \A o \in Options : o.loop => ~o.noCommit
  BY PhaseAssumption DEF NoConcept, CommandLines

\* At most all concepts are AST-green, and how many are is a number.
LEMMA GreenIsBounded ==
    ASSUME NEW f \in Code
    PROVE  AstGreen(f) \in Nat /\ AstGreen(f) <= Cardinality(Concepts)
<1>1. With(f, "pass") \subseteq Concepts
  BY DEF With, Code
<1> QED
  BY <1>1, Constants, FS_Subset, FS_CardinalityType DEF AstGreen

\* A snapshot that is written is one of the examples' ASTs.
LEMMA UpdateTyped ==
    ASSUME tree \in Code, NEW c \in Concepts, UpdateSnapshot(c)
    PROVE  tree' \in Code
<1>1. \A s \in Asts \cup {NoSnapshot} : [tree EXCEPT !.snap[c] = s] \in Code
  BY DEF Code
<1>2. Allowed[c] \subseteq Asts /\ tree.snap[c] \in Asts \cup {NoSnapshot}
  BY PhaseAssumption DEF Code
<1> QED
  BY <1>1, <1>2 DEF UpdateSnapshot, Updated

\* TypeOK with what selects the concept of an iteration.
TypeInv ==
    /\ TypeOK
    /\ pc \in {"agent", "gates", "commit"} => concept \in Concepts
    /\ pc \in {"agent", "gates", "commit"} => iteration <= opts.size
    /\ pc = "down" => iteration = 1

LEMMA EndsTyped ==
    ASSUME TypeOK, Ends
    PROVE  /\ pc' = "down" /\ iteration' = 1 /\ concept' = NoConcept
           /\ iteration' \in 1 .. opts'.size + 1
           /\ spent' \in [batches : Nat, commits : Nat, phase1 : Nat]
           /\ counts' \in [Concepts -> Nat] /\ batch' \in Nat
           /\ before' \in [green : Nat, variants : SUBSET Variants]
           /\ opts' \in Options /\ watcher' \in Watchers /\ rounds' = 0
  BY Constants DEF TypeOK, Ends, NothingSpent, NoCommits, NoMap

LEMMA TypeInit == Init => TypeInv
<1> SUFFICES ASSUME Init PROVE TypeInv
  OBVIOUS
<1>1. opts \in Options /\ 1 \in 1 .. opts.size + 1
  BY Constants DEF Init
<1>2. TypeOK
  BY <1>1, Constants DEF Init, TypeOK, Places, Watchers, NothingSpent, NoCommits, NoMap
<1> QED
  BY <1>2 DEF Init, TypeInv

\* The steps that end a session or the loop, or begin one.
LEMMA TypeEnds ==
    ASSUME TypeInv, Ends, head' \in Code, tree' \in Code, tampered' \in BOOLEAN
    PROVE  TypeInv'
  BY EndsTyped DEF TypeInv, TypeOK, Places

LEMMA TypeSession ==
    ASSUME TypeInv, Session
    PROVE  TypeInv'
<1> USE DEF TypeInv
<1>types. /\ head \in Code /\ tree \in Code /\ tampered \in BOOLEAN /\ opts \in Options
          /\ opts.size \in Nat \ {0} /\ iteration \in 1 .. opts.size + 1
          /\ tree.green \subseteq Concepts
  BY Constants DEF TypeOK, Code
<1>counting. pc = "commit" => iteration + 1 \in 1 .. opts.size + 1
  BY <1>types
<1>candidates. \A statuses : CandidateWith(statuses) \subseteq Concepts
  BY <1>types DEF CandidateWith, Candidate, First, With
<1>1. CASE AllPass \/ MaxIterationsReached \/ DryRun
  <2>1. SessionEnds /\ UNCHANGED code
    BY <1>1 DEF AllPass, MaxIterationsReached, DryRun
  <2>2. CASE opts.loop
    BY <2>1, <2>2, <1>types DEF SessionEnds, Goto, code, TypeOK, Places
  <2>3. CASE ~opts.loop
    BY <2>1, <2>3, <1>types, TypeEnds DEF SessionEnds, code
  <2> QED
    BY <2>2, <2>3
<1>2. CASE WriteSnapshot
  <2>1. PICK c \in CandidateWith({"missingSnapshot"}) : UpdateSnapshot(c) /\ concept' = c
    BY <1>2 DEF WriteSnapshot
  <2>2. tree' \in Code
    BY <2>1, <1>candidates, <1>types, UpdateTyped
  <2> QED
    BY <1>2, <2>1, <2>2, <1>candidates DEF WriteSnapshot, Goto, TypeOK, Places
<1>3. CASE AskAgent
  BY <1>3, <1>candidates, <1>types DEF AskAgent, Goto, code, TypeOK, Places
<1>4. CASE AgentAnswers
  BY <1>4, <1>types, Constants DEF AgentAnswers, AgentEdits, Goto, TypeOK, Places
<1>5. CASE GatesPass
  <2>1. tree' \in Code
    BY <1>5, <1>types, UpdateTyped DEF GatesPass
  <2> QED
    BY <1>5, <2>1, <1>types DEF GatesPass, Goto, TypeOK, Places
<1>6. CASE SkipCommit
  BY <1>6, <1>types, <1>counting DEF SkipCommit, NextIteration, code, TypeOK, Places
<1>7. CASE NothingToCommit
  BY <1>7, <1>types, <1>counting DEF NothingToCommit, CanCommit, NextIteration, TypeOK, Places
<1>8. CASE CommitConcept
  <2>1. batch' \in Nat /\ counts' \in [Concepts -> Nat]
    BY <1>8 DEF CommitConcept, CanCommit, TypeOK
  <2> QED
    BY <1>8, <2>1, <1>types, <1>counting DEF CommitConcept, CanCommit, NextIteration, TypeOK, Places
<1>9. CASE PushFails
  BY <1>9, <1>types, TypeEnds DEF PushFails
<1> QED
  BY <1>1, <1>2, <1>3, <1>4, <1>5, <1>6, <1>7, <1>8, <1>9 DEF Session

LEMMA TypeLoop ==
    ASSUME TypeInv, Loop
    PROVE  TypeInv'
<1> USE DEF TypeInv
<1>types. /\ head \in Code /\ tree \in Code /\ opts \in Options /\ opts.size \in Nat \ {0}
          /\ tampered \in BOOLEAN
          /\ spent \in [batches : Nat, commits : Nat, phase1 : Nat] /\ batch \in Nat
          /\ \A f \in Code : f.variants \in SUBSET Variants
  BY Constants DEF TypeOK, Code
<1>1. CASE MaxBatchesReached
  BY <1>1, <1>types, TypeEnds DEF MaxBatchesReached, code
<1>2. CASE StartBatch
  <2>1. before' \in [green : Nat, variants : SUBSET Variants]
    BY <1>2, <1>types, GreenIsBounded DEF StartBatch
  <2> QED
    BY <1>2, <2>1, <1>types DEF StartBatch, code, TypeOK, Places
<1>3. CASE Review
  <2>1. \A key \in {"batches", "commits", "phase1"}, n, fuse \in Nat : Spend(fuse, key, n) \in Nat
    BY <1>types DEF Spend
  <2>2. opts.maxBatches \in Nat /\ opts.maxCommits \in Nat /\ opts.maxPhase1 \in Nat
    BY <1>types, Constants DEF CommandLines
  <2>3. head' \in Code /\ tree' \in Code /\ tampered' \in BOOLEAN
    BY <1>3, <1>types DEF Review, code
  <2>4. CASE Ends
    BY <2>4, <2>3, TypeEnds
  <2>5. CASE pc' = "phase1" /\ ~Ends
    <3>1. spent' \in [batches : Nat, commits : Nat, phase1 : Nat]
      BY <1>3, <2>1, <2>2, <2>5, <1>types DEF Review
    <3> QED
      BY <1>3, <2>5, <2>3, <3>1, <1>types DEF Review, TypeOK, Places, NoMap, NoCommits
  <2>6. CASE pc' = "batch" /\ ~Ends
    <3>1. spent' \in [batches : Nat, commits : Nat, phase1 : Nat]
      BY <1>3, <2>1, <2>2, <2>6, <1>types DEF Review
    <3> QED
      BY <1>3, <2>6, <2>3, <3>1, <1>types DEF Review, TypeOK, Places, NoMap
  <2> QED
    BY <1>3, <2>4, <2>5, <2>6 DEF Review
<1>4. CASE Phase1Batch
  BY <1>4, <1>types, Constants DEF Phase1Batch, Phase1Changes, Goto, TypeOK, Places
<1>5. CASE Phase1WithoutCommits
  BY <1>5, <1>types, Constants, TypeEnds DEF Phase1WithoutCommits
<1> QED
  BY <1>1, <1>2, <1>3, <1>4, <1>5 DEF Loop

LEMMA TypeStep ==
    ASSUME TypeInv, [Next]_vars
    PROVE  TypeInv'
<1> USE DEF TypeInv
<1>types. /\ head \in Code /\ tree \in Code /\ tampered \in BOOLEAN
          /\ \A o \in Options : 1 \in 1 .. o.size + 1
  BY Constants DEF TypeOK
<1>stutter. CASE UNCHANGED vars
  BY <1>stutter DEF vars, TypeOK
<1>down. pc = "down" => iteration = 1
  BY DEF TypeInv
<1>1. CASE StartSession
  BY <1>1, <1>types, <1>down DEF StartSession, code, TypeOK, Places
<1>2. CASE StartLoop
  BY <1>2, <1>types, <1>down DEF StartLoop, code, TypeOK, Places, Watchers
<1>3. CASE Fail
  <2>1. head' \in Code /\ tree' \in Code /\ tampered' \in BOOLEAN
    BY <1>3, <1>types, Constants DEF Fail, AgentEdits, Phase1Changes, code
  <2> QED
    BY <1>3, <2>1, TypeEnds DEF Fail
<1>4. CASE Poll \/ PollFails
  BY <1>4 DEF Poll, PollFails, code, TypeOK, Watchers
<1>5. CASE Develop
  BY <1>5, <1>types, Constants DEF Develop, TypeOK, Places
<1> QED
  BY <1>stutter, <1>1, <1>2, <1>3, <1>4, <1>5, TypeSession, TypeLoop DEF Next

\* Every variable keeps its type.
THEOREM LoopTypes == Spec => []TypeOK
<1>1. TypeInv => TypeOK
  BY DEF TypeInv
<1> QED
  BY <1>1, TypeInit, TypeStep, PTL DEF Spec

-----------------------------------------------------------------------------
\* Commits.

\* Between the gates and the commit the gates still hold.
GateInv ==
    pc = "commit" /\ ~tampered => tree.builds /\ Status(tree, concept) = "pass"

\* A concept whose snapshot was just written passes.
LEMMA UpdatePasses ==
    ASSUME NEW f \in Code, NEW c \in Concepts, f.ast[c] \in Allowed[c]
    PROVE  LET g == [f EXCEPT !.snap[c] = f.ast[c]]
           IN  g.builds = f.builds /\ Status(g, c) = "pass"
<1> DEFINE g == [f EXCEPT !.snap[c] = f.ast[c]]
<1>1. g.ast = f.ast /\ g.builds = f.builds /\ g.snap[c] = f.ast[c]
  BY DEF Code
<1>2. f.ast[c] \in Asts /\ f.ast[c] \notin {NoFixture, Unparsed, NoSnapshot}
  BY PhaseAssumption
<1> HIDE DEF g
<1>3. Status(g, c) = "pass"
  BY <1>1, <1>2 DEF Status
<1> QED
  BY <1>1, <1>3 DEF g

LEMMA GateStep ==
    ASSUME TypeInv, GateInv, [Next]_vars
    PROVE  GateInv'
<1>1. CASE GatesPass /\ ~tampered
  <2>1. /\ tree \in Code /\ concept \in Concepts /\ tree.builds
        /\ tree.ast[concept] \in Allowed[concept] /\ tree' = Updated(concept)
        /\ concept' = concept
    BY <1>1 DEF GatesPass, UpdateSnapshot, TypeInv, TypeOK
  <2>2. tree'.builds = tree.builds /\ Status(tree', concept) = "pass"
    BY <2>1, UpdatePasses DEF Updated
  <2> QED
    BY <2>1, <2>2 DEF GateInv, Status
<1>2. CASE GatesPass /\ tampered
  BY <1>2 DEF GatesPass, GateInv
<1>3. CASE UNCHANGED vars
  BY <1>3 DEF vars, GateInv, Status
<1>4. CASE Poll \/ PollFails
  BY <1>4 DEF Poll, PollFails, code, GateInv, Status
<1>5. CASE Session /\ ~GatesPass
  <2>1. pc' # "commit"
    BY <1>5 DEF Session, AllPass, MaxIterationsReached, DryRun, SessionEnds, Ends, WriteSnapshot,
                AskAgent, AgentAnswers, Goto, SkipCommit, NothingToCommit, CommitConcept, PushFails,
                NextIteration
  <2> QED
    BY <2>1 DEF GateInv
<1>6. CASE Loop \/ StartSession \/ StartLoop \/ Fail \/ Develop
  <2>1. pc' # "commit"
    BY <1>6 DEF Loop, MaxBatchesReached, StartBatch, Review, Phase1Batch, Phase1WithoutCommits,
                StartSession, StartLoop, Fail, Develop, Ends, Goto
  <2> QED
    BY <2>1 DEF GateInv
<1> QED
  BY <1>1, <1>2, <1>3, <1>4, <1>5, <1>6 DEF Next

\* What a session commits has passed its gates, unless the agent changed concept.rs.
THEOREM GatesGuardCommits == Spec => CommitsAreGreen
<1>1. Init => GateInv
  BY DEF Init, GateInv
<1>2. ASSUME GateInv, [Next]_vars
      PROVE  [pc = "commit" /\ head' # head /\ ~tampered
              => head'.builds /\ Status(head', concept) = "pass"]_vars
  <2> SUFFICES ASSUME pc = "commit", head' # head, ~tampered
               PROVE  head'.builds /\ Status(head', concept) = "pass"
    OBVIOUS
  <2>1. CommitConcept \/ PushFails
    BY <1>2 DEF Next, Session, Loop, vars, code, StartSession, StartLoop, Fail, Poll, PollFails,
                Develop, AllPass, MaxIterationsReached, DryRun, WriteSnapshot, AskAgent,
                AgentAnswers, GatesPass, SkipCommit, NothingToCommit, MaxBatchesReached,
                StartBatch, Review, Phase1Batch, Phase1WithoutCommits
  <2>2. head' = tree
    BY <2>1 DEF CommitConcept, PushFails
  <2> QED
    BY <1>2, <2>2 DEF GateInv, Status
<1> QED
  BY <1>1, <1>2, TypeInit, TypeStep, GateStep, PTL DEF Spec, CommitsAreGreen

-----------------------------------------------------------------------------
\* Rounds of a cycle.

InBatch == pc \in {"next", "agent", "gates", "commit", "review"}

\* In a loop the tree is the last commit whenever a session looks at it or ends, and
\* each round of a cycle has raised the number of green concepts.
LoopInv ==
    /\ pc \in {"batch", "review", "phase1"} => opts.loop
    /\ opts.loop /\ pc = "next" => Clean
    /\ ReviewsSeeHead
    /\ pc = "phase1" \/ ~opts.loop \/ pc = "down" => rounds = 0
    /\ opts.loop /\ InBatch => rounds <= before.green /\ before.green <= Cardinality(Concepts)
    /\ CyclesAreShort

LEMMA LoopInit == Init => LoopInv
<1>1. Cardinality(Concepts) \in Nat
  BY Constants, FS_CardinalityType
<1> QED
  BY <1>1 DEF Init, LoopInv, InBatch, ReviewsSeeHead, CyclesAreShort

\* A loop or session that ends counts from nothing.
LEMMA LoopEnds ==
    ASSUME Ends
    PROVE  LoopInv'
<1>1. Cardinality(Concepts) \in Nat
  BY Constants, FS_CardinalityType
<1>2. pc' = "down" /\ rounds' = 0
  BY DEF Ends
<1> QED
  BY <1>1, <1>2 DEF LoopInv, InBatch, ReviewsSeeHead, CyclesAreShort

LEMMA LoopSession ==
    ASSUME TypeInv, LoopInv, Session
    PROVE  LoopInv'
<1> USE DEF LoopInv, InBatch, ReviewsSeeHead, CyclesAreShort
<1>1. CASE AllPass \/ MaxIterationsReached \/ DryRun
  <2>1. SessionEnds /\ UNCHANGED code /\ pc = "next"
    BY <1>1 DEF AllPass, MaxIterationsReached, DryRun
  <2>2. CASE opts.loop
    BY <2>1, <2>2 DEF SessionEnds, Goto, code, Clean
  <2>3. CASE ~opts.loop
    BY <2>1, <2>3, LoopEnds DEF SessionEnds
  <2> QED
    BY <2>2, <2>3
<1>2. CASE WriteSnapshot \/ AskAgent \/ AgentAnswers \/ GatesPass
  <2>1. /\ InBatch /\ pc' \in {"agent", "gates", "commit"} /\ opts' = opts /\ rounds' = rounds
        /\ before' = before
    BY <1>2 DEF WriteSnapshot, AskAgent, AgentAnswers, GatesPass, Goto
  <2> QED
    BY <2>1
<1>3. CASE SkipCommit \/ NothingToCommit \/ CommitConcept
  <2>1. /\ InBatch /\ pc' = "next" /\ opts' = opts /\ rounds' = rounds /\ before' = before
    BY <1>3 DEF SkipCommit, NothingToCommit, CommitConcept, CanCommit, NextIteration
  <2>2. opts.loop => (tree' = head' /\ ~tampered')
    BY <1>3, Constants DEF SkipCommit, NothingToCommit, CommitConcept, TypeInv, TypeOK
  <2> QED
    BY <2>1, <2>2 DEF Clean
<1>4. CASE PushFails
  BY <1>4, LoopEnds DEF PushFails
<1> QED
  BY <1>1, <1>2, <1>3, <1>4 DEF Session

LEMMA LoopLoop ==
    ASSUME TypeInv, LoopInv, Loop
    PROVE  LoopInv'
<1> USE DEF LoopInv, InBatch, ReviewsSeeHead, CyclesAreShort
<1>types. /\ head \in Code /\ tree \in Code /\ rounds \in Nat /\ before.green \in Nat
          /\ AstGreen(head) \in Nat /\ AstGreen(tree) \in Nat /\ Cardinality(Concepts) \in Nat
          /\ AstGreen(tree) <= Cardinality(Concepts)
  BY GreenIsBounded, Constants, FS_CardinalityType DEF TypeInv, TypeOK
<1>1. CASE MaxBatchesReached \/ Phase1WithoutCommits
  BY <1>1, LoopEnds DEF MaxBatchesReached, Phase1WithoutCommits
<1>2. CASE StartBatch
  <2>1. /\ tree = head /\ ~tampered /\ pc = "batch" /\ pc' = "next" /\ before'.green = AstGreen(tree)
        /\ opts' = opts /\ rounds' = rounds /\ UNCHANGED code
    BY <1>2 DEF StartBatch, Clean
  <2>2. AstGreen(tree) = AstGreen(head)
    BY <2>1 DEF AstGreen, With, Status
  <2> QED
    BY <1>types, <2>1, <2>2 DEF code, Clean
<1>3. CASE Review
  <2>1. pc = "review" /\ opts.loop /\ tree = head /\ ~tampered /\ UNCHANGED code
    BY <1>3 DEF Review, Clean
  <2>2. CASE Ends
    BY <2>2, LoopEnds
  <2>3. CASE pc' = "phase1" /\ ~Ends
    <3>1. rounds' = 0 /\ opts' = opts
      BY <1>3, <2>3 DEF Review
    <3> QED
      BY <3>1, <2>3, <2>1, <1>types
  <2>4. CASE pc' = "batch" /\ ~Ends
    <3>1. rounds' = rounds + 1 /\ opts' = opts /\ ~StopReason
      BY <1>3, <2>4 DEF Review
    <3>2. ~(AstGreen(tree) <= before.green)
      BY <3>1 DEF StopReason
    <3>3. AstGreen(head)' = AstGreen(tree)
      BY <2>1 DEF AstGreen, With, Status, code
    <3>4. rounds + 1 <= AstGreen(tree)
      BY <3>2, <2>1, <1>types
    <3> QED
      BY <3>1, <3>3, <3>4, <2>1, <2>4, <1>types DEF Clean, code
  <2> QED
    BY <1>3, <2>2, <2>3, <2>4 DEF Review
<1>4. CASE Phase1Batch
  <2>1. pc = "phase1" /\ pc' = "batch" /\ opts' = opts /\ rounds' = rounds
    BY <1>4 DEF Phase1Batch, Goto
  <2>2. head' \in Code
    BY <1>4, Constants DEF Phase1Batch, Phase1Changes
  <2>3. AstGreen(head') \in Nat
    BY <2>2, GreenIsBounded
  <2>4. AstGreen(head') = AstGreen(head)'
    BY DEF AstGreen, With, Status
  <2> QED
    BY <2>1, <2>3, <2>4, <1>types
<1> QED
  BY <1>1, <1>2, <1>3, <1>4 DEF Loop

LEMMA LoopStep ==
    ASSUME TypeInv, LoopInv, [Next]_vars
    PROVE  LoopInv'
<1> USE DEF LoopInv, InBatch, ReviewsSeeHead, CyclesAreShort
<1>types. /\ head \in Code /\ AstGreen(head) \in Nat /\ Cardinality(Concepts) \in Nat
  BY GreenIsBounded, Constants, FS_CardinalityType DEF TypeInv, TypeOK
<1>green. UNCHANGED head => AstGreen(head)' = AstGreen(head)
  BY DEF AstGreen, With, Status
<1>1. CASE UNCHANGED vars \/ Poll \/ PollFails
  <2>1. UNCHANGED <<pc, opts, rounds, before, head, tree, tampered>>
    BY <1>1 DEF vars, Poll, PollFails, code
  <2> QED
    BY <2>1, <1>green DEF Clean
<1>2. CASE StartSession
  BY <1>2, <1>types DEF StartSession
<1>3. CASE StartLoop
  <2>1. /\ rounds' = 0 /\ pc' = "batch" /\ opts'.loop /\ UNCHANGED head
    BY <1>3 DEF StartLoop, code
  <2> QED
    BY <2>1, <1>green, <1>types
<1>4. CASE Fail
  BY <1>4, LoopEnds DEF Fail
<1>5. CASE Develop
  BY <1>5, <1>types DEF Develop
<1> QED
  BY <1>1, <1>2, <1>3, <1>4, <1>5, LoopSession, LoopLoop DEF Next

\* Reviews and later batches of a cycle see what was committed.
THEOREM LoopWeighsCommits == Spec => []ReviewsSeeHead
<1>1. LoopInv => ReviewsSeeHead
  BY DEF LoopInv
<1> QED
  BY <1>1, TypeInit, TypeStep, LoopInit, LoopStep, PTL DEF Spec

\* Without any fuse, Phase 2 of a cycle ends after at most as many rounds as there
\* are concepts.
THEOREM CyclesEnd == Spec => []CyclesAreShort
<1>1. LoopInv => CyclesAreShort
  BY DEF LoopInv
<1> QED
  BY <1>1, TypeInit, TypeStep, LoopInit, LoopStep, PTL DEF Spec
-----------------------------------------------------------------------------
\* The end of a session and of a fused loop.

\* A batch is only begun while the fuse for batches has room.
FuseInv == opts.loop /\ InBatch /\ opts.maxBatches # 0 => spent.batches < opts.maxBatches

Fused == opts.maxBatches # 0 \/ opts.maxPhase1 # 0

RankNumbers ==
    /\ PlaceRank["phase1"] = 5 /\ PlaceRank["batch"] = 4 /\ PlaceRank["next"] = 3
    /\ PlaceRank["agent"] = 2 /\ PlaceRank["gates"] = 1 /\ PlaceRank["commit"] = 0
    /\ PlaceRank["review"] = 0 /\ PlaceRank["down"] = 0

LEMMA RanksOf == RankNumbers
  BY DEF PlaceRank, RankNumbers

LEMMA RanksAreNumbers == \A p \in Places : PlaceRank[p] \in Nat
  BY RanksOf DEF Places, RankNumbers

\* The kinds of steps, by what they use up.
SameCycle == UNCHANGED <<opts, spent, watcher, rounds>>

AtWork(place) == place \notin {"down", "phase1", "batch", "review"}

GoesDown ==
    /\ SameCycle /\ iteration' = iteration
    /\ AtWork(pc) /\ AtWork(pc') /\ PlaceRank[pc'] < PlaceRank[pc]

Iterates ==
    /\ SameCycle /\ iteration' = iteration + 1 /\ iteration <= opts.size
    /\ AtWork(pc) /\ AtWork(pc')

NextStage ==
    /\ SameCycle
    /\ \/ pc = "phase1" /\ pc' = "batch"
       \/ pc = "batch" /\ pc' = "next"
       \/ pc = "next" /\ pc' = "review"

EndsBatch ==
    /\ pc = "review" /\ pc' \in {"phase1", "batch"}
    /\ UNCHANGED <<opts, watcher>>
    /\ opts.maxBatches # 0 => spent'.batches = spent.batches + 1
    /\ \/ /\ pc' = "phase1"
          /\ opts.maxPhase1 # 0 => /\ spent.phase1 < opts.maxPhase1
                                   /\ spent'.phase1 = spent.phase1 + 1
       \/ /\ pc' = "batch"
          /\ spent'.phase1 = spent.phase1
          /\ rounds' = rounds + 1

IsPolled == UNCHANGED <<pc, opts, iteration, spent, rounds>> /\ (watcher' # watcher \/ UNCHANGED vars)

LEMMA RunSteps ==
    ASSUME TypeInv, Next, pc # "down", pc' # "down"
    PROVE  GoesDown \/ Iterates \/ NextStage \/ EndsBatch \/ IsPolled
<1>1. ~Ends
  BY DEF Ends
<1>2. CASE AllPass \/ MaxIterationsReached \/ DryRun
  BY <1>1, <1>2 DEF AllPass, MaxIterationsReached, DryRun, SessionEnds, Goto, NextStage, SameCycle
<1>3. CASE WriteSnapshot \/ AskAgent \/ AgentAnswers \/ GatesPass
  BY <1>3, RanksOf DEF RankNumbers, WriteSnapshot, AskAgent, AgentAnswers, GatesPass, Goto,
                       GoesDown, SameCycle, AtWork
<1>4. CASE SkipCommit \/ NothingToCommit \/ CommitConcept
  <2>1. pc = "commit" /\ NextIteration
    BY <1>4 DEF SkipCommit, NothingToCommit, CommitConcept, CanCommit
  <2> QED
    BY <2>1 DEF NextIteration, Iterates, SameCycle, AtWork, TypeInv
<1>5. CASE StartBatch \/ Phase1Batch
  BY <1>5 DEF StartBatch, Phase1Batch, Goto, NextStage, SameCycle
<1>6. CASE Review
  <2>1. CASE pc' = "phase1"
    BY <1>1, <1>6, <2>1 DEF Review, Spend, EndsBatch
  <2>2. CASE pc' = "batch"
    BY <1>1, <1>6, <2>2 DEF Review, Spend, EndsBatch
  <2> QED
    BY <1>1, <1>6, <2>1, <2>2 DEF Review
<1>7. CASE Poll
  BY <1>7 DEF Poll, IsPolled, vars, code
<1>8. CASE PollFails
  BY <1>8 DEF PollFails, IsPolled
<1>9. ~\/ StartSession \/ StartLoop \/ Fail \/ Develop
       \/ PushFails \/ MaxBatchesReached \/ Phase1WithoutCommits
  BY <1>1 DEF StartSession, StartLoop, Fail, Develop, PushFails, MaxBatchesReached,
              Phase1WithoutCommits
<1> QED
  BY <1>2, <1>3, <1>4, <1>5, <1>6, <1>7, <1>8, <1>9 DEF Next, Session, Loop

LEMMA FuseStep == TypeInv /\ FuseInv /\ [Next]_vars => FuseInv'
<1> SUFFICES ASSUME TypeInv, FuseInv, [Next]_vars PROVE FuseInv'
  OBVIOUS
<1> USE DEF FuseInv, InBatch
<1>1. CASE UNCHANGED vars
  BY <1>1 DEF vars
<1>2. CASE Next /\ pc = "down"
  <2>1. pc' \in {"down", "batch"} \/ ~opts'.loop
    BY <1>2 DEF Next, Session, Loop, StartSession, StartLoop, Fail, Poll, PollFails, Develop,
                AllPass, MaxIterationsReached, DryRun, WriteSnapshot, AskAgent, AgentAnswers,
                GatesPass, SkipCommit, NothingToCommit, CommitConcept, PushFails, CanCommit,
                MaxBatchesReached, StartBatch, Review, Phase1Batch, Phase1WithoutCommits
  <2> QED
    BY <2>1
<1>3. CASE StartBatch
  BY <1>3 DEF StartBatch
<1>4. CASE GoesDown \/ Iterates \/ (NextStage /\ pc # "batch")
  BY <1>4 DEF GoesDown, Iterates, NextStage, SameCycle, AtWork, TypeInv, TypeOK, Places
<1>5. CASE NextStage /\ pc = "batch" /\ Next
  <2>1. StartBatch
    BY <1>5 DEF NextStage, Next, Session, Loop, StartSession, StartLoop, Fail, Poll, PollFails,
                Develop, AllPass, MaxIterationsReached, DryRun, WriteSnapshot, AskAgent,
                AgentAnswers, GatesPass, SkipCommit, NothingToCommit, CommitConcept, PushFails,
                CanCommit, MaxBatchesReached, Review, Phase1Batch, Phase1WithoutCommits, Ends
  <2> QED
    BY <1>3, <2>1
<1>6. CASE EndsBatch
  BY <1>6 DEF EndsBatch
<1>7. CASE IsPolled
  BY <1>7 DEF IsPolled
<1>8. CASE pc' = "down"
  BY <1>8
<1> QED
  BY <1>1, <1>2, <1>4, <1>5, <1>6, <1>7, <1>8, RunSteps

LEMMA BelowInFive ==
    ASSUME NEW a, NEW b,
           DOMAIN b = 1 .. 5,
           \/ a[1] < b[1]
           \/ a[1] = b[1] /\ a[2] < b[2]
           \/ a[1] = b[1] /\ a[2] = b[2] /\ a[3] < b[3]
           \/ a[1] = b[1] /\ a[2] = b[2] /\ a[3] = b[3] /\ a[4] < b[4]
           \/ a[1] = b[1] /\ a[2] = b[2] /\ a[3] = b[3] /\ a[4] = b[4] /\ a[5] < b[5]
    PROVE  Below(a, b)
<1>1. CASE a[1] < b[1]
  BY <1>1 DEF Below
<1>2. CASE a[1] = b[1] /\ a[2] < b[2]
  BY <1>2 DEF Below
<1>3. CASE a[1] = b[1] /\ a[2] = b[2] /\ a[3] < b[3]
  BY <1>3 DEF Below
<1>4. CASE a[1] = b[1] /\ a[2] = b[2] /\ a[3] = b[3] /\ a[4] < b[4]
  BY <1>4 DEF Below
<1>5. CASE a[1] = b[1] /\ a[2] = b[2] /\ a[3] = b[3] /\ a[4] = b[4] /\ a[5] < b[5]
  BY <1>5 DEF Below
<1> QED
  BY <1>1, <1>2, <1>3, <1>4, <1>5

LEMMA PhaseDescends ==
    ASSUME TypeInv, TypeInv', LoopInv, LoopInv', FuseInv, [Next]_vars,
           pc # "down", pc' # "down", opts.loop => Fused, ~UNCHANGED vars
    PROVE  IF watcher' = watcher THEN Below(Remaining', Remaining) ELSE Remaining' = Remaining
<1> DEFINE a == Remaining'
           b == Remaining
           N == Cardinality(Concepts)
<1>0. N \in Nat
  BY Constants, FS_CardinalityType
<1>1. /\ opts.size \in Nat /\ opts.maxBatches \in Nat /\ opts.maxPhase1 \in Nat
      /\ spent.batches \in Nat /\ spent.phase1 \in Nat
      /\ iteration \in Nat /\ rounds \in Nat /\ N \in Nat
      /\ pc \in Places /\ pc' \in Places
  <2>1. opts \in CommandLines
    BY Constants DEF TypeInv, TypeOK
  <2> QED
    BY <1>0, <2>1 DEF TypeInv, TypeOK, CommandLines
<1>2. DOMAIN b = 1 .. 5
  BY DEF Remaining
<1>3. /\ a[1] = IF opts'.maxBatches # 0 THEN Left(spent'.batches, opts'.maxBatches)
                ELSE Left(spent'.phase1, opts'.maxPhase1)
      /\ a[2] = IF opts'.maxBatches # 0 THEN 0 ELSE Left(rounds', N)
      /\ a[3] = IF pc' = "phase1" THEN 3 ELSE IF pc' = "batch" THEN 2
                ELSE IF pc' = "review" THEN 0 ELSE 1
      /\ a[4] = Left(iteration', opts'.size + 2)
      /\ a[5] = PlaceRank[pc']
  BY DEF Remaining, PlaceRank
<1>4. /\ b[1] = IF opts.maxBatches # 0 THEN Left(spent.batches, opts.maxBatches)
                ELSE Left(spent.phase1, opts.maxPhase1)
      /\ b[2] = IF opts.maxBatches # 0 THEN 0 ELSE Left(rounds, N)
      /\ b[3] = IF pc = "phase1" THEN 3 ELSE IF pc = "batch" THEN 2
                ELSE IF pc = "review" THEN 0 ELSE 1
      /\ b[4] = Left(iteration, opts.size + 2)
      /\ b[5] = PlaceRank[pc]
  BY DEF Remaining
<1>5. CASE IsPolled
  BY <1>5 DEF IsPolled, Remaining
<1> HIDE DEF a, b, N
<1>6. ASSUME SameCycle PROVE a[1] = b[1] /\ a[2] = b[2] /\ watcher' = watcher
  BY <1>3, <1>4, <1>6 DEF SameCycle
<1>7. CASE GoesDown
  <2>1. a[3] = b[3] /\ a[4] = b[4] /\ a[5] < b[5]
    BY <1>3, <1>4, <1>7 DEF GoesDown, SameCycle, AtWork
  <2>2. SameCycle
    BY <1>7 DEF GoesDown
  <2> QED
    BY <1>2, <1>6, <2>1, <2>2, BelowInFive DEF a, b
<1>8. CASE Iterates
  <2>1. a[3] = b[3]
    BY <1>3, <1>4, <1>8 DEF Iterates, AtWork
  <2>2. a[4] < b[4]
    BY <1>1, <1>3, <1>4, <1>8 DEF Iterates, SameCycle, Left
  <2>3. SameCycle
    BY <1>8 DEF Iterates
  <2> QED
    BY <1>2, <1>6, <2>1, <2>2, <2>3, BelowInFive DEF a, b
<1>9. CASE NextStage
  <2>1. a[3] < b[3]
    BY <1>3, <1>4, <1>9 DEF NextStage
  <2>2. SameCycle
    BY <1>9 DEF NextStage
  <2> QED
    BY <1>2, <1>6, <2>1, <2>2, BelowInFive DEF a, b
<1>10. CASE EndsBatch
  <2>1. opts.loop /\ opts' = opts /\ watcher' = watcher
    BY <1>10 DEF EndsBatch, LoopInv
  <2>2. CASE opts.maxBatches # 0
    <3>1. spent.batches < opts.maxBatches /\ spent'.batches = spent.batches + 1
      BY <1>10, <2>1, <2>2 DEF EndsBatch, FuseInv, InBatch
    <3>2. a[1] < b[1]
      BY <1>1, <1>3, <1>4, <2>1, <2>2, <3>1 DEF Left
    <3> QED
      BY <1>2, <2>1, <3>2, BelowInFive DEF a, b
  <2>3. CASE opts.maxBatches = 0 /\ pc' = "phase1"
    <3>1. spent.phase1 < opts.maxPhase1 /\ spent'.phase1 = spent.phase1 + 1
      BY <1>10, <2>1, <2>3 DEF EndsBatch, Fused
    <3>2. a[1] < b[1]
      BY <1>1, <1>3, <1>4, <2>1, <2>3, <3>1 DEF Left
    <3> QED
      BY <1>2, <2>1, <3>2, BelowInFive DEF a, b
  <2>4. CASE opts.maxBatches = 0 /\ pc' = "batch"
    <3>1. spent'.phase1 = spent.phase1 /\ rounds' = rounds + 1
      BY <1>10, <2>4 DEF EndsBatch
    <3>2. rounds' <= N
      BY DEF LoopInv, CyclesAreShort, N
    <3>3. a[1] = b[1] /\ a[2] < b[2]
      BY <1>1, <1>3, <1>4, <2>1, <2>4, <3>1, <3>2 DEF Left
    <3> QED
      BY <1>2, <2>1, <3>3, BelowInFive DEF a, b
  <2> QED
    BY <1>10, <2>2, <2>3, <2>4 DEF EndsBatch
<1> QED
  BY <1>5, <1>7, <1>8, <1>9, <1>10, RunSteps

LEMMA RemainingTyped == TypeInv => Remaining \in Tuples(5)
<1> SUFFICES ASSUME TypeInv PROVE Remaining \in Tuples(5)
  OBVIOUS
<1>1. /\ opts.size \in Nat /\ opts.maxBatches \in Nat /\ opts.maxPhase1 \in Nat
      /\ spent.batches \in Nat /\ spent.phase1 \in Nat
      /\ iteration \in Nat /\ rounds \in Nat /\ Cardinality(Concepts) \in Nat
      /\ pc \in Places
  <2>1. opts \in CommandLines /\ Cardinality(Concepts) \in Nat
    BY Constants, FS_CardinalityType DEF TypeInv, TypeOK
  <2> QED
    BY <2>1 DEF TypeInv, TypeOK, CommandLines
<1>2. PlaceRank[pc] \in Nat
  BY <1>1, RanksAreNumbers
<1>3. /\ Left(spent.batches, opts.maxBatches) \in Nat /\ Left(spent.phase1, opts.maxPhase1) \in Nat
      /\ Left(rounds, Cardinality(Concepts)) \in Nat /\ Left(iteration, opts.size + 2) \in Nat
  BY <1>1 DEF Left
<1> QED
  BY <1>2, <1>3 DEF Remaining, Tuples

\* Each step of a session, and of a loop with a limit on the batches of one phase, uses
\* up something of which there is finitely much.  With a limit on Phase 1 alone that
\* takes the progress rule: the rounds of a cycle are bounded by the concepts.
THEOREM PhaseLoopRunsDown == Spec => PhaseRunsDown /\ [](Remaining \in Tuples(5))
<1>1. Init => FuseInv
  BY DEF Init, FuseInv, InBatch
<1>2. TypeInv /\ TypeInv' /\ LoopInv /\ LoopInv' /\ FuseInv /\ [Next]_vars
        => [/\ pc # "down" /\ pc' # "down"
            /\ opts.loop => opts.maxBatches # 0 \/ opts.maxPhase1 # 0
            => IF watcher' = watcher THEN Below(Remaining', Remaining)
               ELSE Remaining' = Remaining]_vars
  BY PhaseDescends DEF Fused
<1> QED
  BY <1>1, <1>2, FuseStep, RemainingTyped, TypeInit, TypeStep, LoopInit, LoopStep, PTL
     DEF Spec, PhaseRunsDown
=============================================================================

SPECIFICATION Spec
CONSTANTS
  r1 = r1
  r2 = r2
  old = old
  common = common
  c1 = c1
  c2 = c2
  NoRule = NoRule
  NoConcept = NoConcept
  NoTree = NoTree
  Rules <- MCRules
  Shared <- MCShared
  Concepts <- MCConcepts
  Plumbing <- MCPlumbing
  RequiredRules <- MCRequired
  Options <- MCOptions
  AgentTrees <- MCTrees
  InitTree <- MCInitTree
INVARIANTS
  TypeOK
  AgentsStartFromHead
PROPERTIES
  CommitsAreGated
  CommitsImproveMap
  FastPathKeepsPest
  BlockedNeverSelected

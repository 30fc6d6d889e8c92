SPECIFICATION FairSpec
CONSTANTS
  x = x
  y = y
  v = v
  NoFixture = NoFixture
  Unparsed = Unparsed
  NoSnapshot = NoSnapshot
  Concepts <- MCConcepts
  Asts <- MCAsts
  Allowed <- MCAllowed
  Variants <- MCVariants
  Edits <- MCEdits
  Options <- MCOptions
  RepeatStop = 2
INVARIANTS
  TypeOK
  ReviewsSeeHead
  CyclesAreShort
PROPERTIES
  CommitsAreGreen
  FusedLoopEnds

SPECIFICATION Spec
CONSTANTS
  x = x
  y = y
  v = v
  NoFixture = NoFixture
  Unparsed = Unparsed
  NoSnapshot = NoSnapshot
  Concepts <- MCConcepts
  Asts <- MCAsts
  Allowed <- MCAllowed
  Variants <- MCVariants
  Edits <- MCEdits
  Options <- WatchedLoop
  RepeatStop = 2
INVARIANT LoopIsWatched

SPECIFICATION FairSpec
CONSTANTS
  MaxBatchOptions <- UncappedOrTwo
  MaxExperiments = 3
  NoExperiment = NoExperiment
  NoLoop = NoLoop
INVARIANTS
  TypeOK
  WrapperIsCurrent
  ExperimentsAccountedFor
  TrialIsInEffect
PROPERTIES
  CappedLoopEnds

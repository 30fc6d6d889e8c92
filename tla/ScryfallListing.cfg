SPECIFICATION Spec
CONSTANTS
  p1 = p1
  p2 = p2
  Procs <- TwoProcesses
  Cards <- ThreeCards
  PageSize = 1
  MaxRetries = 2
  RefreshWindowDays = 0
  ReleaseDay = 1
  MaxDay = 1
  MaxVersion = 2
  NoDate = NoDate
  NoCache = NoCache
INVARIANTS
  TypeOK
  FetchMissesNothing
  ServedNeverBehind
CONSTRAINT
  NothingDropped
SYMMETRY ProcessSymmetry

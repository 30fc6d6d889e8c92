SPECIFICATION FairSpec
CONSTANTS
  a1 = a1
  b1 = b1
  A = A
  B = B
  NoSet = NoSet
  NoCard = NoCard
  Cards <- MCCards
  Sets <- MCSets
  SetOf <- OneSetEach
  Normal <- MCCards
  Vanilla = {}
  ReleaseOrder <- MCReleaseOrder
  Listing <- MCListing
  InitTracked <- TrackBA
  Options <- AutoAdvance
  Withdrawals = FALSE
  CountCommits = FALSE
PROPERTIES
  LoopTerminates

SPECIFICATION Spec
CONSTANTS
  a1 = a1
  b1 = b1
  A = A
  B = B
  NoSet = NoSet
  NoCard = NoCard
  Cards <- MCCards
  Sets <- MCSets
  SetOf <- BothInA
  Normal <- MCCards
  Vanilla = {}
  ReleaseOrder <- MCReleaseOrder
  Listing <- MCListing
  InitTracked <- TrackBA
  Options <- SupervisedOrNot
  Withdrawals = TRUE
  CountCommits = TRUE
INVARIANTS
  StopIsBounded
  CapWithoutSupervisor
PROPERTIES
  SuccessIsCommitted
  TestedNeverRegresses

SPECIFICATION FairSpec
CONSTANTS
  a1 = a1
  b1 = b1
  A = A
  B = B
  NoSet = NoSet
  NoCard = NoCard
  Cards <- MCCards
  Sets <- MCSets
  SetOf <- OneSetEach
  Normal <- MCCards
  Vanilla = {}
  ReleaseOrder <- MCReleaseOrder
  Listing <- MCListing
  InitTracked <- TrackA
  Options <- UsualOptions
  Withdrawals = FALSE
  CountCommits = FALSE
INVARIANTS
  TypeOK
  HeadHonest
  HeadGated
PROPERTIES
  StrictProgress
  CommitSupportsCard
  ImplementsMainline
  DryRunKeepsCommits
  SessionEventuallyEnds

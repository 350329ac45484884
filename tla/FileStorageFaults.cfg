SPECIFICATION Spec
CONSTANTS
  Ids <- MCTwoIds
  Submissions = {s1, s2, s3}
  Links = {l1}
  None = None
  Workers = {w1,w2}
  Updates = {"fixed"}
  IndexFaults = {"lost", "older"}
  MaxLife = 2
  MaxCrashes = 1
  MaxFaults = 1
  MaxCopied = 2
SYMMETRY MCSymmetry
INVARIANTS
  TypeOK
  OneSubmissionPerId
  OnePlace
  AckedKept
  NoLostUpdate
  ListingRight
  NoIdReuse
  ScreenshotFound
PROPERTIES
  ImplementsContract

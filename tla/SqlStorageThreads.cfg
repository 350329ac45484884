SPECIFICATION Spec
CONSTANTS
  Ids <- MCTwoIds
  Submissions = {s1, s2}
  Links = {l1}
  None = None
  Workers = {w1, w2}
  IdSources = {"row", "sequence"}
  Updates = {"fixed"}
  Failures = TRUE
  MaxLog = 2
  MaxCrashes = 1
CHECK_DEADLOCK FALSE
SYMMETRY MCSymmetry
CONSTRAINT MCBound
INVARIANTS
  TypeOK
  KeptWithSequence
  NoIdReuse
  FilesSound
PROPERTIES
  ImplementsContract

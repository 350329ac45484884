SPECIFICATION Spec
CONSTANTS
  Ids <- MCTwoIds
  Submissions = {s1, s2}
  Links = {}
  None = None
  Workers = {w1, w2}
  IdSources = {"row"}
  Updates = {"fixed"}
  Failures = TRUE
  MaxLog = 2
  MaxCrashes = 0
CHECK_DEADLOCK FALSE
SYMMETRY MCSymmetry
INVARIANTS
  AckedKept

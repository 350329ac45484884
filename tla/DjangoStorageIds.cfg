SPECIFICATION Spec
CONSTANTS
  Ids <- MCTwoIds
  Submissions = {s1, s2}
  Links = {l1}
  None = None
  Workers = {w1, w2}
  Updates = {"fixed"}
  MaxClock = 5
CHECK_DEADLOCK FALSE
SYMMETRY MCSymmetry
INVARIANT AckedKept

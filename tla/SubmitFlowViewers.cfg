SPECIFICATION Spec
CONSTANTS
  Ids = {i1, i2}
  Submissions = {s1, s2}
  Links = {l1, l2}
  None = None
  Viewers = {v1, v2}
  Updates = {"open", "fixed"}
  MaxLife = 3
  MaxFailures = 2
  MaxCrashes = 1
SYMMETRY MCSymmetry
CHECK_DEADLOCK FALSE
INVARIANTS
  TypeOK
  LinkRight
  ToldTruly
  IssueFollowsInTurn

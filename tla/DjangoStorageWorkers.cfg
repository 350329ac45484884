SPECIFICATION Spec
CONSTANTS
  Ids <- MCThreeIds
  Submissions = {s1, s2, s3}
  Links = {l1}
  None = None
  Workers = {w1, w2}
  Updates = {"fixed", "open"}
  MaxClock = 5
CHECK_DEADLOCK FALSE
SYMMETRY MCSymmetry
INVARIANTS
  TypeOK
  ScreenshotIsOwn
  AuditTrail
PROPERTY
  ContractInTurn

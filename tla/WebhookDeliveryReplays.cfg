SPECIFICATION Spec
CONSTANTS
  Senders = {s1, s2}
  Replayers = {r1, r2}
  None = None
  MaxAttempts = 2
  MaxBad = 4
  MaxCrashes = 1
CHECK_DEADLOCK FALSE
INVARIANTS
  TypeOK
  DeliveredOrKept
  OneEnvelope
  NoNeedlessDuplicate
PROPERTIES
  EveryReportArrives

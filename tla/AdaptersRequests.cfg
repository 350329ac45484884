\* The same requests to the three adapters.
SPECIFICATION Spec
CONSTANTS
  Absent = Absent
  Garbled = Garbled
  Configs <- MCConfigs
  Forms <- MCForms
  Queries <- MCQueries
  RateMax = 1
  DefaultSize = 2
  LargestSize = 2
  MaxReports = 2
  MaxRequests = 5
  MaxListed = 2
  MaxMoved = 2
INVARIANTS
  TypeOK
  AdaptersAgree
  KeptVetted
  StatsSkewBounded
CHECK_DEADLOCK FALSE

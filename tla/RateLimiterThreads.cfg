SPECIFICATION Spec
CONSTANTS
  Callers = {c1, c2}
  Ips = {a, b}
  Max = 2
  Window = 2
  None = None
  MaxTime = 4
SYMMETRY MCSymmetry
CONSTRAINT MCBound
INVARIANTS
  TypeOK
  LimitExact

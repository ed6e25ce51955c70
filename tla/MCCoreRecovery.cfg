CONSTANTS
  c1 = c1
  c2 = c2
  u0 = u0
  u1 = u1
  x = x
  Configs = {c1, c2}
  Units = {u0, u1}
  Manager = u1
  Foreign = {x}
  Absent = Absent
  None = None
  MaxTx = 2
  MaxCrashes = 1
  MaxFaults = 0
  MaxBounces = 0
  MaxEdits = 1
SPECIFICATION Spec
SYMMETRY Interchangeable
INVARIANTS
  OnlyEditsAreRefused
CHECK_DEADLOCK FALSE

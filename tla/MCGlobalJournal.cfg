CONSTANTS
  u1 = u1
  u2 = u2
  v1 = v1
  v2 = v2
  Admin = {u1, u2}
  Proxies = {v1, v2}
  Absent = Absent
  None = None
  MaxGen = 9
  MaxTx = 2
  MaxCrashes = 1
  MaxFaults = 1
  MaxEdits = 2
SPECIFICATION Spec
INVARIANTS
  OriginalsSurvive
  LoadIsLatest
  SettledIsWhole
PROPERTIES
  UndoIsExact
SYMMETRY Symmetry
CHECK_DEADLOCK FALSE

CONSTANTS
  old = old
  new = new
  other = other
  Contents = {old, new, other}
  Absent = Absent
  Calls <- MCCalls
  MaxAttempts = 3
  MaxCalls = 3
  MaxKills = 2
  MaxFailures = 1
  MaxChanges = 3
SPECIFICATION CASSpec
INVARIANTS
  SuccessIsReal
  AsSpecified
PROPERTIES
  ForeignKept
  NothingStranded
CHECK_DEADLOCK FALSE

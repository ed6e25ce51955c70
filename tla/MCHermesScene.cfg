CONSTANTS
  NT = 2
  Contents = {c1, c2}
  None = None
  Foreign = Foreign
  MaxCommands = 2
  MaxKills = 2
  MaxFaults = 1
  MaxEdits = 1
SPECIFICATION Spec
INVARIANTS ActiveIsServed RestIsClean
PROPERTIES ForeignKept JobsAreLeftAlone
CHECK_DEADLOCK FALSE

CONSTANTS
  Users = {u1, u2}
  NG = 1
  NN = 1
  Proxies = {p1, p2}
  user0 = u1
  proxy0 = p1
  Starts <- MCStarts
  own = own
  added = added
  None = None
  MaxCommands = 2
  MaxKills = 1
  MaxFaults = 1
  MaxEdits = 1
SPECIFICATION Spec
CHECK_DEADLOCK FALSE
INVARIANTS
  AddedValuesKept

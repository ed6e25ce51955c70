CONSTANTS
  NT = 2
  Observable = {1}
  Proxies = {c1, c2}
  Unset = Unset
  Own = Own
  None = None
  MaxCommands = 2
  MaxKills = 1
  MaxFaults = 1
  MaxEdits = 1
SPECIFICATION Spec
INVARIANTS CommittedIsServed RestIsClean UserEditsKept
CHECK_DEADLOCK FALSE

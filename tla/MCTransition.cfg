CONSTANTS
  fresh = fresh
  n1 = n1
  Scenes = {"global", "telegram"}
  Setups <- MCSetups
  Port <- MCPort
  Configs <- MCConfigs
  Home <- MCHome
  Settings = {fresh, n1}
  Fresh = fresh
  Restarting = {"telegram"}
  Absent = Absent
  Corrupt = Corrupt
  None = None
  Broken = Broken
  EditContents <- NoEdits
  MaxGen = 4
  MaxTx = 2
  MaxCrashes = 2
  MaxFaults = 1
  MaxEdits = 0
SPECIFICATION Spec
INVARIANTS
  AttachedIsServed
  NoRecordIsConsistent
  GenerationsAreUnique
  CompensationIsPossible
PROPERTIES
  CommitIsFinal
  NothingMovesUnderAJob
  AbstractSpec

CONSTANTS
  fresh = fresh
  n1 = n1
  Scenes = {"telegram"}
  Setups <- MCSetups
  Port <- MCPort
  Configs <- OneConfig
  Home <- MCHome
  Settings = {fresh, n1}
  Fresh = fresh
  Restarting = {"telegram"}
  Absent = Absent
  Corrupt = Corrupt
  None = None
  Broken = Broken
  EditContents <- MCEdits
  MaxGen = 4
  MaxTx = 1
  MaxCrashes = 2
  MaxFaults = 1
  MaxEdits = 1
SPECIFICATION FairSpec
PROPERTIES
  ForeignStoreKept
  RecordIsResolved

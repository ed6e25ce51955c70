CONSTANTS
  r1 = r1
  r2 = r2
  p1 = p1
  p2 = p2
  Receivers = {r1, r2}
  Procs = {p1, p2}
  NTags = 2
  MaxStages = 2
  MaxRel = 2
  Upstream = 1
  Commands = 3
  Faults = 1
  Kills = 1
SPECIFICATION Spec
SYMMETRY Symmetry
CONSTRAINT FewEvents
INVARIANTS
  PublishedIsServed
  LocksGuardWork
  InstalledIsWhole
  HostIsOwned
  UpdateGoesForward
CHECK_DEADLOCK FALSE

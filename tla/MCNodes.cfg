CONSTANTS
  c1 = c1
  c2 = c2
  w1 = w1
  w2 = w2
  s1 = s1
  s2 = s2
  p1 = p1
  p2 = p2
  global = global
  Urls <- MCUrls
  Subs = {s1, s2}
  Scenes = {global}
  Procs = {p1, p2}
  MaxNodes = 3
  MaxList = 2
  Commands = 3
  Editions = 1
  None = None
SPECIFICATION Spec
SYMMETRY Symmetry
INVARIANTS
  StoreIsValid
  ResultsAreTheirs
PROPERTIES
  SelectionIsStable
  UpdatesAreExact
CHECK_DEADLOCK FALSE

CONSTANTS
  f1 = f1  f2 = f2  f3 = f3
  Nodes <- MCNodes
  Kinds = {"call", "ref", "import"}
  WalkKinds = {"call", "ref"}
  Graphs <- MCGraphs
  FileOf <- MCFileOf
  Tests = {2, 3, 4}
  Asks <- MCAsks
  Chars = {1, 2, 3}
  Sep = 1
  Corpora <- MCCorpora
  Searches <- MCSearches
  MaxEdit = 2
  ScanFactor = 1
  ScanFloor = 2
  a = a  b = b  p1 = p1  p2 = p2
  Editors = {p1, p2}
  Names = {a, b}
  NoName = none
  Updates <- MCUpdates
  FirstText <- MCFirst
  Foreign <- MCForeign
  MaxWrites = 3
  s1 = s1  s2 = s2  q1 = q1  q2 = q2  o1 = o1  o2 = o2  o3 = o3
  Stores = {s1, s2}
  Savers = {q1, q2}
  MaxTrained = 2
  MaxStored = 1
  MaxCut = 1
  Openers = {o1, o2, o3}
  Releases <- MCReleases
  MaxFaults = 2
SPECIFICATION Spec
SYMMETRY EditSymmetry
INVARIANTS PathsAreExact CyclesAreComponents ImpactIsExact SearchFindsClosest CleanEdit SignaturesDecode UpgradeIsSafe
CHECK_DEADLOCK FALSE

CONSTANTS
  p1 = p1  p2 = p2  note = note  file = file  b1 = b1  b2 = b2  w = w  proj = proj
  Procs = {p1, p2}
  Sources = {note, file}
  Bodies = {b1, b2}
  Wings = {w, proj}
  Files = {file}
  Miners = {p1}
  Proj = proj  NoFile = none
  Notes <- MCNotes
  Builds <- MCBuilds
  Legacy <- MCLegacy
  MaxWrites = 3
  MaxOpens = 2
  MaxClock = 1
  MaxEdits = 1
  FirstTree <- MCTree
SPECIFICATION Spec
INVARIANTS LexicalComplete StaleMirrorIsNoticed MineReportTrue
PROPERTIES ImplementsStore
CHECK_DEADLOCK FALSE

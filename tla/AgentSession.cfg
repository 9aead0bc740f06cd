CONSTANTS
  f = f  v1 = v1  v2 = v2  bin = bin  b1 = b1  b2 = b2  b3 = b3
  Files = {f}
  Contents = {v1, v2, bin}
  Binary = {bin}
  Bodies = {b1, b2, b3}
  Prefix <- MCPrefix
  FirstTree <- MCTree
  Calls = {c1, c2}
  Commands = {cmd}
  Sessions = {s1, s2}
  Messages = {m1}
  NoBody = none  NoSession = nosession  NoCall = nocall
  Threshold = 2
  MaxCalls = 3
  MaxEdits = 2
  MaxClock = 1
SPECIFICATION Spec
INVARIANTS ReadsBuildOnSent LoopsAreFound DeliveredOnce
SYMMETRY AgentSymmetry
CHECK_DEADLOCK FALSE

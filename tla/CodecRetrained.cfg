CONSTANTS
  Stores = {s1}
  Savers = {q1}
  MaxTrained = 2
  MaxStored = 0
  MaxCut = 0
INIT CodecInit
NEXT CodecNext
INVARIANTS RebuiltDecodes
CHECK_DEADLOCK FALSE

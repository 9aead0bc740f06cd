CONSTANTS
  top = top  sub = sub
  Dirs = {top, sub}
  Ancestors <- MCAncestors
  Servers = {m1, m2}
  Tokens = {ta, tb}
  Texts = {txt}
  Keys = {nokey, k1}
  NoKey = nokey
  RateMax = 2
  Window = 2
  CacheTtl = 2
  IdemTtl = 1
  GitRootTtl = 2
  MaxRequests = 3
  MaxEvents = 2
  MaxClock = 3
SPECIFICATION Spec
SYMMETRY McpSymmetry
INVARIANTS AnsweredWithinLimit RetryPostsOnce KeptIsCurrent
CHECK_DEADLOCK FALSE

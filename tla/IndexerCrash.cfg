CONSTANTS
  f1 = f1
  f2 = f2
  a = a
  b = b
  c1 = c1
  c2 = c2
  c3 = c3
  bad = bad
  Anchor = Anchor
  NoContent = NoContent
  Paths <- MCPaths
  Names <- MCNames
  Contents <- MCContents
  Unindexable <- MCUnindexable
  Defs <- MCDefs
  Calls <- MCCalls
  Indexers = {i1}
  Commands = {"index", "refresh", "lookup"}
  CoarseClock = FALSE
  MaxNow = 3
  MaxFailures = 1
SPECIFICATION Spec
SYMMETRY PathSymmetry
INVARIANTS TypeOK OneVersionPerFile FullIndexExact

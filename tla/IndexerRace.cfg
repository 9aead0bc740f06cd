CONSTANTS
  f1 = f1
  f2 = f2
  a = a
  b = b
  c1 = c1
  c2 = c2
  c3 = c3
  bad = bad
  Anchor = Anchor
  NoContent = NoContent
  Paths <- MCOnePath
  Names <- MCNames
  Contents <- MCContents
  Unindexable <- MCUnindexable
  Defs <- MCDefs
  Calls <- MCCalls
  Indexers = {i1, i2}
  Commands = {"mcp_refresh", "mcp_index"}
  CoarseClock = FALSE
  MaxNow = 3
  MaxFailures = 0
SPECIFICATION Spec
SYMMETRY IndexerSymmetry
INVARIANTS RefIntegrity SentinelsAnchored
PROPERTY OnlyGoneFilesDeleted

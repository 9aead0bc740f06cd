CONSTANTS
  f1 = f1
  f2 = f2
  a = a
  b = b
  c1 = c1
  c2 = c2
  bad = bad
  Anchor = Anchor
  NoContent = NoContent
  Paths <- MCPaths
  Names <- MCNames
  Contents <- MCContents
  Unindexable <- MCUnindexable
  Defs <- MCDefs
  Calls <- MCCalls
  TextCalls <- MCTextCalls
  Patterned <- MCOnePatterned
  Identifiers <- MCOneIdentifier
  Indexers = {i1}
  Commands = {"mcp_refresh"}
  CoarseClock = FALSE
  MaxNow = 2
  MaxFailures = 1
SPECIFICATION SpecTool
CHECK_DEADLOCK FALSE
INVARIANTS AnswerNamesCallers WrittenFileIsIndexed

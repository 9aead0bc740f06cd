CONSTANTS
  s = s
  r = r
  a = a
  b = b
  x = x
  y = y
  h1 = h1
  h2 = h2
  w1 = w1
  w2 = w2
  p = p
  q = q
  Direct = Direct
  Urls <- MCUrls
  Hosts <- MCHosts
  Links <- MCLinks
  Final <- MCFinal
  Host <- MCHost
  Options <- MCOptions
  Seed = s
  MaxDepth = 2
  SameHost = TRUE
  Unsafe = {x}
  Workers = {w1, w2}
  PerHost = 1
  Proxies = {p, q}
  Buildable = {p}
  MaxFailures = 2
  MaxPages = 4
  Flaky = {a, x}
  MaxFaults = 1
  MaxOpens = 2
SPECIFICATION FairSpec
CHECK_DEADLOCK FALSE
INVARIANTS ClaimedOnce NothingLost ArchiveWithinBudget RotationIsHealthy CrawlIsClosed BreadthFirst
PROPERTIES CrawlEnds ImplementsVisits

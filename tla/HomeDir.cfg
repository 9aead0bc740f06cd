CONSTANTS
  Families = {"agents", "commands", "backups", "onboarding"}
  r1 = r1
  r2 = r2
  c1 = c1
  c2 = c2
  p1 = p1
  p2 = p2
  s1 = s1
  s2 = s2
  i1 = i1
  i2 = i2
  Runs <- MCRuns
  Pids <- MCPids
  NoPid = NoPid
  MaxMishaps = 1
  Cmds <- MCCmds
  CmdPids <- MCPids
  KeepFor = 1
  MaxClock = 4
  MaxGuests = 1
  Snappers <- MCSnappers
  Keep = 1
  MaxCommits = 2
  MaxTime = 2
  MaxBroken = 1
  Agents <- MCInits
  StaleSecs = 1
  MaxSecs = 2
  MaxInits = 3
  MaxFaults = 1
SPECIFICATION Spec
CHECK_DEADLOCK FALSE
INVARIANTS RowsTellTruth HandlesHold SnapshotsServe OnboardedOnce
PROPERTIES RowsAreReaped

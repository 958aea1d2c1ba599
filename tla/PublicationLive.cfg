CONSTANTS
  p1 = p1
  p2 = p2
  pattern1 = pattern1
  pattern2 = pattern2
  none = none
  Products = {p1}
  Addrs = {"x"}
  CustomRoutes = {}
  Configs = {pattern1, pattern2}
  Routes <- MCRoutes
  Paths <- MCPaths
  NoRoute = none
  NoProduct = none
  Resolve <- MCResolve
  Suffixes <- MCSuffixes
  Html = ""
  PathOf <- MCPathOf
  InitAddr <- MCInitAddr
  InitConfig = pattern1
  Faults = {"source", "crash"}
  MaxRev = 3
  MaxIntents = 4
  MaxEpoch = 2
  MaxFacts = 1
  MaxGen = 3
SPECIFICATION FairSpec
INVARIANT NothingForgotten
PROPERTY EventuallyOnline
PROPERTY NeverBackwards
CHECK_DEADLOCK FALSE

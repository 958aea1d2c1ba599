CONSTANTS
  p1 = p1
  p2 = p2
  pattern1 = pattern1
  pattern2 = pattern2
  none = none
  Products = {p1, p2}
  Addrs = {"x", "y"}
  CustomRoutes = {}
  Configs = {pattern1, pattern2}
  Routes <- MCRoutes
  Paths <- MCPaths
  NoRoute = none
  NoProduct = none
  Resolve <- MCResolve
  Suffixes <- MCSuffixes
  Html = ""
  PathOf <- MCPathOf
  InitAddr <- MCInitAddr
  InitConfig = pattern1
  Faults = {}
  MaxRev = 3
  MaxIntents = 3
  MaxEpoch = 2
  MaxFacts = 0
  MaxGen = 2
SPECIFICATION Spec
INVARIANT OneEpoch
INVARIANT VisitorsSeeAuthority
PROPERTY ActivatesCurrent
PROPERTY LinksSurviveMoves
PROPERTY KeepsAdmission
PROPERTY OnlineUntilReplaced
CHECK_DEADLOCK FALSE

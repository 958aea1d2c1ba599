CONSTANTS
  p1 = p1
  p2 = p2
  pattern1 = pattern1
  pattern2 = pattern2
  none = none
  Products = {p1, p2}
  Addrs = {"x"}
  CustomRoutes = {"/x.json"}
  Configs = {pattern1}
  Routes <- SuffixRoutes
  Paths <- SuffixPaths
  NoRoute = none
  NoProduct = none
  Resolve <- SuffixResolve
  Suffixes <- MCSuffixes
  Html = ""
  PathOf <- SuffixPathOf
  InitAddr <- MCInitAddr
  InitConfig = pattern1
  Faults = {"source", "record", "activate", "install", "damage", "crash"}
  MaxRev = 3
  MaxIntents = 3
  MaxEpoch = 1
  MaxFacts = 0
  MaxGen = 2
SPECIFICATION Spec
INVARIANT IndexFollowsStore
INVARIANT OneAnswerPerPath
CHECK_DEADLOCK FALSE

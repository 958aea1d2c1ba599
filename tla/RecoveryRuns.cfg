CONSTANTS
  database = database
  assets = assets
  hostconfig = hostconfig
  Missing = missing
  Damaged = damaged
  Lagging = lagging
  NoLog = nolog
  OwnLog = ownlog
  Roots = {database, assets, hostconfig}
  Rank <- MCRank
  Database = database
  Assets = assets
  HostConfig = hostconfig
  First = 1
  Latest = 3
  InitBackups <- MCInitBackups
  ConfigNamed = FALSE
  LogsSurvive = FALSE
  MaxEdits = 1
  MaxCrashes = 3
  MaxFaults = 2
  MaxRestores = 1
SPECIFICATION FairSpec
INVARIANT ServesWhole
INVARIANT CanRollForward
INVARIANT OldKept
INVARIANT NeverReinstalled
PROPERTY RestoreSettles
PROPERTY SiteReturns
CHECK_DEADLOCK FALSE

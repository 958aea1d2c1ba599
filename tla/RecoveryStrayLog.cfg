CONSTANTS
  database = database
  assets = assets
  hostconfig = hostconfig
  Missing = missing
  Damaged = damaged
  Lagging = lagging
  NoLog = nolog
  OwnLog = ownlog
  Roots = {database, assets, hostconfig}
  Rank <- MCRank
  Database = database
  Assets = assets
  HostConfig = hostconfig
  First = 1
  Latest = 3
  InitBackups <- MCInitBackups
  ConfigNamed = FALSE
  LogsSurvive = TRUE
  MaxEdits = 1
  MaxCrashes = 1
  MaxFaults = 0
  MaxRestores = 1
SPECIFICATION Spec
INVARIANT RestoredIsBackup
CHECK_DEADLOCK FALSE

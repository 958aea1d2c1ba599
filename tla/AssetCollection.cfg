CONSTANTS
  a1 = a1
  a2 = a2
  p1 = p1
  b1 = b1
  b2 = b2
  none = none
  Assets = {a1, a2}
  WebsiteAssets = {a1}
  Products = {p1}
  Backups = {b1, b2}
  Grace = 1
  Batch = 1
  None = none
SPECIFICATION FairSpec
CHECK_DEADLOCK FALSE
INVARIANT UsedAssetsKept
INVARIANT BackupFindsFiles
INVARIANT IndexServesPublished
PROPERTY GraceKept
PROPERTY EventuallyReclaimed
PROPERTY RunsSettle
CONSTRAINT Small

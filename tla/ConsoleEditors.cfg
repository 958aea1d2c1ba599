CONSTANTS
  t1 = t1
  t2 = t2
  s1 = s1
  s2 = s2
  q1 = q1
  q2 = q2
  none = none
  Tabs = {t1, t2}
  Sessions = {s1, s2}
  Slots = {q1, q2}
  CopyKeys = {"text"}
  None = none
  Events = {"revoke", "close", "switch", "check", "logout", "css", "restore", "fail", "lose"}
  MaxRev = 3
SPECIFICATION Spec
SYMMETRY Symmetry
INVARIANT WrittenAsShown
PROPERTY CarriesAlong
PROPERTY ListingAndCopySeen
CONSTRAINT EitherPart
ACTION_CONSTRAINT LeavesOnlyASave
CHECK_DEADLOCK FALSE

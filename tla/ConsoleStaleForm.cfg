CONSTANTS
  t1 = t1
  t2 = t2
  s1 = s1
  s2 = s2
  q1 = q1
  q2 = q2
  none = none
  Tabs = {t1, t2}
  Sessions = {s1}
  Slots = {q1, q2}
  CopyKeys = {"text"}
  None = none
  Events = {"css"}
  MaxRev = 3
SPECIFICATION Spec
SYMMETRY Symmetry
PROPERTY SeenBeforeReplaced
CHECK_DEADLOCK FALSE

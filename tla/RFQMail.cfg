CONSTANTS
  f1 = f1
  f2 = f2
  c1 = c1
  c2 = c2
  p1 = p1
  p2 = p2
  m1 = m1
  m2 = m2
  k1 = k1
  k2 = k2
  none = none
  RFQs = {1, 2}
  Forms = {f1}
  Contents = {c1, c2}
  Posts = {p1, p2}
  Mailboxes = {m1, m2}
  Keys = {k1}
  None = none
  Faults = {"crash", "claim", "complete"}
  MaxRev = 2
  MaxDefaults = 1
SPECIFICATION FairSpec
INVARIANT OneRFQPerForm
INVARIANT ReceiptsTruthful
INVARIANT AtMostOnce
INVARIANT RecordTruthful
INVARIANT NothingRetained
PROPERTY NoMailOncePrivate
PROPERTY EventuallyServed
CHECK_DEADLOCK FALSE

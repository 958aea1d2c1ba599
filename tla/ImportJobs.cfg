CONSTANTS
  p1 = p1
  p2 = p2
  p3 = p3
  j1 = j1
  j2 = j2
  c1 = c1
  c2 = c2
  blank = blank
  Products = {p1, p2, p3}
  Jobs = {j1}
  Calls = {c1, c2}
  Parts = {"x"}
  Makers = {"m", "n"}
  Texts = {"t", "u"}
  Blank = blank
  Files <- MCFiles
  InitProduct <- MCInitProduct
  Faults = {"crash", "error"}
  MaxRev = 3
SPECIFICATION FairSpec
INVARIANT IdentityUnique
INVARIANT AppliedIffCommitted
PROPERTY NoLostEdit
PROPERTY RowsArrive
PROPERTY EventuallySettled
CHECK_DEADLOCK FALSE
CONSTRAINT FewEdits
ACTION_CONSTRAINT EditsBefore

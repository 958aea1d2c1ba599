CONSTANTS
  p1 = p1
  p2 = p2
  r1 = r1
  r2 = r2
  e1 = e1
  e2 = e2
  Products = {p1}
  Runs = {r1}
  Executors = {e1, e2}
  Tags = {"t1", "t2"}
  Actions = {"publish", "hide", "archive", "tag"}
  Faults = {"abort", "error", "install"}
  MaxRev = 4
SPECIFICATION Spec
INVARIANT AppliesOnce
INVARIANT SuccessIsReal
CHECK_DEADLOCK FALSE

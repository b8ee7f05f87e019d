CONSTANTS
  Procs = {p1, p2}
  Alive = {p1}
  MaxVmas = 1
  NoProc = none
SPECIFICATION Spec
INVARIANTS AssertHolds

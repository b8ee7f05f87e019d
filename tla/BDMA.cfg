SPECIFICATION FairSpec
CONSTANTS
  Threads = {"t1", "t2"}
  WaitTime = 2
INVARIANTS OneChannel OkIsQuiet VerifiedCopy
PROPERTIES CallReturns ServesCopies

SPECIFICATION FairSpec
CONSTANTS
  Threads = {"t1", "t2"}
  PollMax = 1
  Devices = 2
INVARIANTS ResultTrue DevicesTrue
PROPERTY SendReturns

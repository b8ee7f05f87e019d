CONSTANTS
  Threads = {t1, t2}
  WaitThreads = {t1, t2}
  MaxMUnit = 3
  MaxMails = 3
  NoThread = none
SPECIFICATION Spec
INVARIANTS OneWaiter

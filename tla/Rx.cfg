CONSTANTS
  Threads = {t1, t2}
  WaitThreads = {t1}
  MaxMUnit = 3
  MaxMails = 4
  NoThread = none
SPECIFICATION FairSpec
INVARIANTS NoLostWakeup MailAccounted RingInOrder DismissedOnlyInDisable
PROPERTIES DismissalIsFinal MailsAreFifo MailDelivered WaiterReturns

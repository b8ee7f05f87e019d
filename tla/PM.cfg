CONSTANTS
  RingSize = 3
  MaxMails = 7
SPECIFICATION FairSpec
INVARIANTS RingInOrder MailAccounted CopyIntact
PROPERTIES RefusalIsFinal RingIsFifo MailDelivered
CHECK_DEADLOCK FALSE

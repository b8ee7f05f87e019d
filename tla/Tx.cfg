CONSTANTS
  IoctlThreads = {t1, t2}
  PMClients = {}
  NWords = 3
  MaxFires = 3
  Raw <- MCRaw
  NoThread = none
SPECIFICATION FairSpec
INVARIANTS NoClobber TakenIntact AcceptedAccounted OverflowBehindFire
PROPERTIES AcceptedTaken GroupsAreSlots
CHECK_DEADLOCK FALSE

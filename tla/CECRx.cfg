SPECIFICATION FairSpec
CONSTANTS
  FifoCnt = 4
  MaxRx = 5
INVARIANTS InOrder
PROPERTY MessagesTaken

CONSTANTS
  Procs = {p1, p2, p3}
  Alive = {p1, p2}
  MaxVmas = 2
  NoProc = none
SPECIFICATION FairSpec
INVARIANTS OpenReleaseAlone FlagsMatchLines AssertNeedsRace
PROPERTIES ReleaseCompletes

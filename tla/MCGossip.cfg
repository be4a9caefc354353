SPECIFICATION FairSpec
CONSTANTS
  Memories = {1, 2}
  Seeds <- Chain
  Unstable = {1, 2}
  MaxStops = 2
  Restarts = TRUE
INVARIANTS
  TypeOK
  OnlyMemoriesThatRanAreShared
PROPERTIES
  EveryRoundEnds
  EveryMemoryIsFound

CONSTANTS
  MaxTime = 3
  MaxRetries = 3
SPECIFICATION FairSpec
INVARIANTS GapIsExplained
PROPERTIES SyncEnds

SPECIFICATION FairSpec
CONSTANTS
  Services <- MCOneService
  Rules = {"a", "b"}
  Contents <- MCContents
  MaxUrls = 1
  MaxTasks = 2
  MaxRunners = 1
  MaxEntries = 1
  MaxSources = 1
  MaxSnaps = 3
  MaxFaults = 1
INVARIANTS TypeOK PoolConsistent
PROPERTIES EndedIsOver TaskEnds
CHECK_DEADLOCK FALSE

SPECIFICATION FairSpec
CONSTANTS
  NoJob = NoJob
  e1 = e1
  j1 = j1
  j2 = j2
  Events = {e1}
  Jobs = {j1, j2}
  JobsOf <- FanOut
  MaxAttempts = 2
  Limit = 1
  MaxLimited = 1
  MaxFaults = 1
  MaxCrashes = 1
  MaxStops = 1
INVARIANT TypeOK
INVARIANT CopiesAccounted
INVARIANT TriesAccounted
PROPERTY KeepsPromise
PROPERTY JobsResolved
PROPERTY StopTerminates

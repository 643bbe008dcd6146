SPECIFICATION FairSpec
CONSTANTS
  Posts = {p1}
  NoPost = NoPost
  Clients = {c1}
  MaxAttempts = 2
  MaxFires = 1
  RestStatuses <- NoRest
  LossyNetwork = TRUE
  EnforceFK = TRUE
  Transactions = FALSE
  MaxRequests = 2
  MaxFaults = 1
  MaxCrashes = 1
  MaxStops = 1
INVARIANT CopiesAccounted
INVARIANT AttemptsAccounted
PROPERTY ScheduledResolved
PROPERTY StopTerminates

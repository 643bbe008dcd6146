SPECIFICATION Spec
CONSTANTS
  Posts = {p1}
  NoPost = NoPost
  Clients = {c1}
  MaxAttempts = 2
  MaxFires = 1
  RestStatuses <- NoRest
  LossyNetwork = FALSE
  EnforceFK = TRUE
  Transactions = TRUE
  MaxRequests = 1
  MaxFaults = 0
  MaxCrashes = 0
  MaxStops = 1
INVARIANT StopCostsNoCopy

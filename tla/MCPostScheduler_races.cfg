SPECIFICATION Spec
CONSTANTS
  Posts = {p1}
  NoPost = NoPost
  Clients = {c1, c2}
  MaxAttempts = 2
  MaxFires = 1
  RestStatuses <- AnyRest
  LossyNetwork = TRUE
  EnforceFK = FALSE
  Transactions = TRUE
  MaxRequests = 4
  MaxFaults = 0
  MaxCrashes = 0
  MaxStops = 0
SYMMETRY Symmetry
INVARIANT TypeOK
INVARIANT CopiesAccounted
INVARIANT PublishedWasAccepted

SPECIFICATION Spec
CONSTANTS
  Ids = {i1, i2}
  NoId = NoId
  Posts = {1, 2}
  c1 = c1
  Credentials = {c1}
  CredentialOf <- OneQueue
  Period = 2
  SlotLists <- FewLists
  MaxSlots = 2
  Clients = {u1}
  MaxAttempts = 2
  MaxRequests = 3
  MaxFaults = 0
  MaxCrashes = 0
  MaxStops = 0
INVARIANT TypeOK
INVARIANT FiresUsedOnce

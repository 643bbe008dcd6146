SPECIFICATION FairSpec
CONSTANTS
  Ids = {i1}
  NoId = NoId
  Posts = {1, 2}
  c1 = c1
  Credentials = {c1}
  CredentialOf <- OneQueue
  Period = 2
  SlotLists <- OneList
  MaxSlots = 2
  Clients = {u1}
  MaxAttempts = 2
  MaxRequests = 1
  MaxFaults = 1
  MaxCrashes = 1
  MaxStops = 1
INVARIANT FiresUsedOnce
PROPERTY QueueDrains
PROPERTY StopTerminates

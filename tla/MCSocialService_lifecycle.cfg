SPECIFICATION Spec
CONSTANTS
  a1 = a1
  a2 = a2
  k1 = k1
  k2 = k2
  s1 = s1
  r1 = r1
  r2 = r2
  b1 = b1
  Apps <- TwoApps
  None = None
  Secrets <- TwoSecrets
  States <- OneState
  Configurers <- TwoConfigurers
  Callbacks <- OneCallback
  MaxRouters = 2
  MaxChanges = 3
  MaxStarts = 2
  MaxFaults = 1
CHECK_DEADLOCK FALSE
INVARIANT TypeOK
INVARIANT ReportedIsUsed
INVARIANT CallbackServed
INVARIANT TokenOfItsServer
INVARIANT NothingRunsAfterStop
PROPERTY StopReturns

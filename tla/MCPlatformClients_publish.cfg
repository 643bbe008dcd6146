SPECIFICATION Spec
CONSTANTS
  c1 = c1
  m1 = m1
  m2 = m2
  Callers <- OneCaller
  Servers <- TwoServers
  None = None
INVARIANT TypeOK
INVARIANT ImageAttached
INVARIANT ReportsExpected
PROPERTY KeepsPromise
PROPERTY CallsReturn

SPECIFICATION Spec
CONSTANTS
  Ids = {k1}
  NoId = NoId
  Posts = {p1}
  States = {s1}
  NoState = NoState
  Callbacks = {b1, b2}
  Publishers = {u1}
  EnforceFK = TRUE
  MaxTokens = 3
  MaxFaults = 0
SYMMETRY Symmetry
CHECK_DEADLOCK FALSE
INVARIANT StateIsSingleUse

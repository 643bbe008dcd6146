SPECIFICATION Spec
CONSTANTS
  Ids = {k1, k2}
  NoId = NoId
  Posts = {p1}
  States = {s1, s2}
  NoState = NoState
  Callbacks = {b1}
  Publishers = {u1, u2}
  EnforceFK = FALSE
  MaxTokens = 3
  MaxFaults = 1
SYMMETRY Symmetry
CHECK_DEADLOCK FALSE
INVARIANT TypeOK
INVARIANT StoredTokenUsable

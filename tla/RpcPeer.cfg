SPECIFICATION MCSpec
CONSTANTS
  i1 = i1
  i2 = i2
  i3 = i3
  p = p
  q = q
  s = s
  Ids <- SomeIds
  NoId = none
  Sessions = {s}
  Params = {p, q}
  NoParams = nothing
  Bound = 2
  LedgerBound = 2
  MaxAsks = 2
INVARIANTS TypeOK AnsweredOnce
PROPERTIES RunsOnce GrantsMatch StdinResumes
\* The process exits.
CHECK_DEADLOCK FALSE

SPECIFICATION Spec
CONSTANTS
  r = r
  w = w
  f = f
  u = u
  NoTool = none
  Tools <- SomeTools
  Batches <- SomeBatches
  Gated = {w}
  Forced = {f}
  Judged = {w}
  Unknown = {u}
  Roles = {"lead", "background"}
  MaxCalls = 2
  MaxSteers = 1
  MaxIterations = 2
  GuardLimit = 2
  GuardFatal = 3
  MaxRepairs = 1
  MaxEmpty = 2
  MaxCorrections = 1
INVARIANTS TypeOK Paired RepeatsBounded OverrunBounded DialogsMatchCalls NotPoisoned
PROPERTIES NoLateStart ImplementsSteer CancelTakesEffect
CHECK_DEADLOCK FALSE

SPECIFICATION MCSpec
CONSTANTS
  p1 = p1
  p2 = p2
  p3 = p3
  o1 = o1
  o2 = o2
  f = f
  g = g
  x = x
  y = y
  Null = Null
  MaxEdits = 1
  MaxLosses = 1
  Procs <- Three
  Ops <- TwoOps
  Retries = {o2}
  Files <- TwoFiles
  Contents <- TwoContents
SYMMETRY Symmetry
CHECK_DEADLOCK FALSE
INVARIANTS
  OneHolder

SPECIFICATION Spec
CONSTANTS
  sa = sa
  sb = sb
  a1 = a1
  a2 = a2
  b1 = b1
  t1 = t1
  Cli = Cli
  None = None
  MaxClients = 1
  Sessions <- ManySessions
  Prompts <- ManyPrompts
  SessionOf <- ManySessionOf
  TuiTurns <- OneTuiTurn
CHECK_DEADLOCK FALSE
INVARIANTS
  OneTurnAtATime

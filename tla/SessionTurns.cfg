SPECIFICATION MCSpec
CONSTANTS
  sa = sa
  sb = sb
  a1 = a1
  a2 = a2
  b1 = b1
  t1 = t1
  Cli = Cli
  None = None
  MaxClients = 1
  Sessions <- ManySessions
  Prompts <- AllPrompts
  SessionOf <- AllSessionOf
  TuiTurns <- OneTuiTurn
CHECK_DEADLOCK FALSE
INVARIANTS
  TypeOK
  GrantFollowsTurn
  AskHasTurn
  OneStop
  ClosedOwnsNothing
  OneDrive
PROPERTIES
  InterruptedNeverStarts
  InterruptEnds

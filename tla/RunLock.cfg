SPECIFICATION Spec
CONSTANTS
  t1 = t1
  t2 = t2
  a1 = a1
  b1 = b1
  cli = cli
  sa = sa
  sb = sb
  NoCall = NoCall
  Calls <- MCCalls
  Holders <- MCHolders
  HolderOf <- MCHolderOf
  Priority <- MCPriority
CHECK_DEADLOCK FALSE
INVARIANTS
  TypeOK
  NeverWedged
PROPERTIES
  GrantedInTurn
  ImplementsMutex
  NoStarvation

SPECIFICATION Spec
CONSTANTS
  Names = {n1,n2,n3}
  NoName = NoName
  Addr = {a1, a2, a3}
  NULL = NULL
  MaxActions = 2
  StopDelay = 2
  Window = 2
  Epoch = 3
  PassBudget = 2
  MaxLag = 1
  Horizon = 9
INVARIANT NoOrphanScript
CHECK_DEADLOCK FALSE

SPECIFICATION Spec
CONSTANTS
  Names = {n1, n2}
  NoName = NoName
  Addr = {a1, a2, a3}
  NULL = NULL
  MaxActions = 3
  StopDelay = 2
  Window = 2
  Epoch = 3
  PassBudget = 2
  MaxLag = 1
  Horizon = 9
INVARIANT TableConsistent
INVARIANT KeptNotStopped
INVARIANT SweepComplete
PROPERTY DirFresh
PROPERTY ImplementsLifecycle

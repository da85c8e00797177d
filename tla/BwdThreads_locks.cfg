SPECIFICATION FairSpec
CONSTANTS
  Plain = {"plain"}
  Parent = "parent"
  Children = {"child"}
  Other = "other"
  UpdatesInStep = 0
  MaxPackets = 1
  MaxReloads = 1
CHECK_DEADLOCK FALSE
INVARIANT TypeOK
INVARIANT LockOrder
INVARIANT NoFreedNode
PROPERTY Terminates
PROPERTY PacketsHandled

SPECIFICATION FairSpec
CONSTANTS
  NumFlows = 2
  NumProfiles = 2
  Match <- MCMatch
  Old = {old}
  QueueNum = 2
  Backtrack = 1
  MaxWindow = 4
  Missing = missing
INVARIANT NoWriteToClosed
INVARIANT QueueHoldsWindows
INVARIANT NeverNewer
INVARIANT EvidenceCaptured
INVARIANT EvidenceRecent
PROPERTY EveryFlowSettled
PROPERTY EveryWindowEvaluated

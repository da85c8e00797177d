SPECIFICATION Spec
CONSTANTS
  Static = {s1, s2}
  Dynamic = {d1}
  WindowSize = 2
  Limit = 1
  RemoveDelay = 1
  NumIds = 2
  IdOffset = 10
  UpdatesInStep = 1
  Sizes = {3}
  Epoch = 2
  Horizon = 5
  MaxPackets = 6
INVARIANT RulesJustified
INVARIANT IdsMatchRules
INVARIANT ActiveCounted
PROPERTY RulesStay

SPECIFICATION Spec
CONSTANTS
  WindowSizes = {0}
  MaxLag = 0
  ClockSteps = {1}
  Levels = {0, 1}
  MaxFd = 7
INVARIANT TypeOK
INVARIANT OutputStaysOut
INVARIANT DebugLevelFromCommandLine
INVARIANT PidFileNamesDaemon

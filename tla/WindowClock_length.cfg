SPECIFICATION ClockSpec
CONSTANTS
  WindowSizes = {0, 1, 4}
  MaxLag = 2
  ClockSteps = {1, 5}
INVARIANT DivisorSound

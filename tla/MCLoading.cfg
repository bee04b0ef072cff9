CONSTANTS
  Spans = {4, 700, 400000}
  MaxSteps = 3
  Uptime = 100000
SPECIFICATION Spec
INVARIANT LoadOnScale
PROPERTY SleepDecays
CHECK_DEADLOCK FALSE

CONSTANTS
  u = u
  v = v
  r = r
  None = None
  NotRead = NotRead
  Cpus <- TwoCpus
  Capacity <- LittleBig
  Tasks <- AllTasks
  UxTasks <- UxOnes
  RtTasks <- RtOnes
  SfTasks <- RtOnes
  Pipeline <- PinnedOnes
  Mortal <- OneMoves
  Rebound <- OneMoves
  Pausable <- BigCpu
  Kicked <- FirstCpu
SPECIFICATION Spec
INVARIANTS StopWorkOnce
PROPERTIES MovesWhereAllowed MovesUphill IdleMeansEmpty
CONSTRAINTS OneChange TwoBalance

CONSTANTS
  u = u
  v = v
  r = r
  None = None
  NotRead = NotRead
  Cpus <- ThreeCpus
  Capacity <- TwoBig
  Tasks <- AllTasks
  UxTasks <- UxOnes
  RtTasks <- RtOnes
  SfTasks <- RtOnes
  Pipeline <- NoSet
  Mortal <- NoSet
  Rebound <- NoSet
  Pausable <- NoSet
  Kicked <- NoSet
SPECIFICATION Spec
INVARIANTS ActiveHasWork
SYMMETRY UxAlike

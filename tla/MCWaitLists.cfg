CONSTANTS
  u = u
  v = v
  z = z
  r = r
  k1 = k1
  None = None
  Tasks <- WaitTasks
  RtTasks <- WaitRt
  SfTasks <- WaitRt
  RtPrio <- WaitPrio
  Keys <- WaitKeys
  OtherKinds <- WaitKinds
SPECIFICATION Spec
INVARIANTS PlistConsistent
PROPERTIES NobodyPlainAhead HandoffIsKept
SYMMETRY FairSymmetry
CONSTRAINT OneLock

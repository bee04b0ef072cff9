CONSTANTS
  t1 = t1
  t2 = t2
  t3 = t3
  c1 = c1
  c2 = c2
  Nobody = Nobody
  Tasks <- ThreeTasks
  Cpus <- TwoCpus
  Mains <- OnlyT3
  Changing <- OnlyT1
  Tagged <- OnlyT1
  Mortal <- OnlyT1
  MaxLockTasks = 0
  Used <- TwoTypes
  MayAbandon <- TwoTypes
  MaxHeld = 2
  MaxDepth = 3
SPECIFICATION LocksSpec
INVARIANTS StartWhileCounted TotalAtMostSum CountedIsHeld MarkIsWait
  QueueBalanced ListedAtHome ClosedOnlyWhileBusy OverByOne
PROPERTIES PromiseSpec
SYMMETRY CpuSymmetry

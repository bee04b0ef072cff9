CONSTANTS
  t1 = t1
  t2 = t2
  t3 = t3
  c1 = c1
  c2 = c2
  Nobody = Nobody
  Tasks <- ThreeTasks
  Cpus <- TwoCpus
  Mains <- NoSet
  Changing <- NoSet
  Tagged <- NoSet
  Mortal <- NoSet
  MaxLockTasks = 1
  Used <- OneType
  MayAbandon <- OneType
  MaxHeld = 1
  MaxDepth = 2
SPECIFICATION LocksSpec
INVARIANTS QueueBounded
SYMMETRY CpuSymmetry

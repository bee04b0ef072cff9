CONSTANTS
  t1 = t1
  t2 = t2
  c1 = c1
  h1 = h1
  h2 = h2
  Idle = Idle
  Tasks <- TwoTasks
  Cpus <- OneCpu
  Ctx <- TwoCtx
  Requests <- LowRequests
  Shifts <- NoSet
  FeatureSets <- FixedFeatures
  SceneSets <- NoScene
  Mains <- NoSet
  RtTasks <- NoSet
  Mortal <- NoSet
  Marked <- NoSet
  Kinds <- MutexOnly
  LockSlices <- ZeroSlice
  DefaultTags <- LowTags
  FutexTags <- OwnerTags
  LaunchSlice = 0
  Targets <- NoSet
  SfSenders <- NoSet
  Leaders <- NoSet
  Loopers <- NobodyLoops
  AppSlice = 0
  Waiters <- TwoTasks
  MaxCharge = 0
  MaxRun = 2
  LaunchBonus = 0
  DprioBase = 1
  DprioMax = 1
  SliceLen <- MCSliceLen
  ShareLimit <- MCShareLimit
  HoldLimit = 1
SPECIFICATION ShareSpec
INVARIANTS RefBalance ShareBounded ShareMatchesTags
PROPERTIES StaticKept
SYMMETRY Alike

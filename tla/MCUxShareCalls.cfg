CONSTANTS
  t1 = t1
  t2 = t2
  c1 = c1
  h1 = h1
  h2 = h2
  Idle = Idle
  Tasks <- TwoTasks
  Cpus <- OneCpu
  Ctx <- OneCtx
  Requests <- LowRequests
  Shifts <- NoSet
  FeatureSets <- FixedFeatures
  SceneSets <- NoScene
  Mains <- NoSet
  RtTasks <- OneTask
  Mortal <- NoSet
  Marked <- OneTask
  Kinds <- AllButMutex
  LockSlices <- ZeroSlice
  DefaultTags <- LowTags
  FutexTags <- OwnerTags
  LaunchSlice = 0
  Targets <- OneTask
  SfSenders <- OneTask
  Leaders <- OtherTask
  Loopers <- OwnLooper
  AppSlice = 0
  Waiters <- OneTask
  MaxCharge = 0
  MaxRun = 2
  LaunchBonus = 0
  DprioBase = 1
  DprioMax = 1
  SliceLen <- MCSliceLen
  ShareLimit <- MCShareLimit
  HoldLimit = 1
SPECIFICATION ShareSpec
INVARIANTS ShareTypeOK ShareMatchesTags MagicMatchesTags
PROPERTIES StaticKept

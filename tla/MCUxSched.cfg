CONSTANTS
  t1 = t1
  t2 = t2
  c1 = c1
  c2 = c2
  Idle = Idle
  Tasks <- TwoTasks
  Cpus <- TwoCpus
  Requests <- DefaultRequests
  Shifts <- NoSet
  FeatureSets <- FixedFeatures
  SceneSets <- AnimationOnOff
  Mains <- NoSet
  RtTasks <- NoSet
  Mortal <- OneTask
  Marked <- NoSet
  MaxCharge = 1
  MaxRun = 5
  LaunchBonus = 1
  DprioBase = 1
  DprioMax = 1
  SliceLen <- MCSliceLen
  ShareLimit <- MCShareLimit
  HoldLimit = 3
SPECIFICATION FairSpec
INVARIANTS NoDuplicates ListedAtHome RefBalance
PROPERTIES PreferenceEnds TakesTurns

CONSTANTS
  t1 = t1
  t2 = t2
  c1 = c1
  c2 = c2
  Idle = Idle
  Tasks <- OneTask
  Cpus <- OneCpu
  Requests <- StackRequests
  Shifts <- AllShifts
  FeatureSets <- KworkerFeatures
  SceneSets <- AllScenes
  Mains <- OneTask
  RtTasks <- NoSet
  Mortal <- NoSet
  Marked <- OneTask
  MaxCharge = 1
  MaxRun = 5
  LaunchBonus = 1
  DprioBase = 1
  DprioMax = 2
  SliceLen <- MCSliceLen
  ShareLimit <- MCShareLimit
  HoldLimit = 3
SPECIFICATION Spec
INVARIANTS TwoCancelsClear PendingIsWeaker
PROPERTIES EligibleStaysListed

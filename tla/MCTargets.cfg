CONSTANTS
  app = app  h1 = h1  h2 = h2  s1 = s1  s2 = s2  s3 = s3
  NoTask = NoTask
  Group <- MCGroup
  SystemTasks <- MCSystem
  PidOf <- MCPidOf
  Unborn <- MCUnborn
  Sf <- MCSf
  Requests = {"exact", "default"}
  Exact = {"exact"}
  Prio <- MCPrio
  MaxNames = 2
  MaxExits = 1
  MaxEvents = 4
SPECIFICATION FairSpec
INVARIANTS TagsWhereNamed HelpersFollow
PROPERTY TargetIsTagged
CHECK_DEADLOCK FALSE

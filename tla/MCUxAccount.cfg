CONSTANTS
  t1 = t1
  c1 = c1
  c2 = c2
  id = id
  Tasks <- OneTask
  Leaders <- OneTask
  Callers <- TwoCallers
  Names <- OneId
  Ids <- OneId
  Requests <- Divided
  HpMax = 1
  RefLimit = 2
  BookMax = 2
  MaxPid = 2
SPECIFICATION FairSpec
INVARIANTS RecordsSurviveAudit
PROPERTIES AuditHitsItsDebtor DebtorsCleared
\* The model stops when every pid of the bound is used up.
CHECK_DEADLOCK FALSE

CONSTANTS
  s1 = s1
  s2 = s2
  s3 = s3
  Stages <- MCStages
  Plans <- MCPlans
  MaxVersions = 2
SPECIFICATION Spec
INVARIANTS
  TypeOK
  DocumentMatchesRoute
  ApprovedIsSettled
  AuditBacksApproval
  SomebodyIsAsked
PROPERTIES
  HistoryIsKept
  KeepsLifecycle
CHECK_DEADLOCK FALSE

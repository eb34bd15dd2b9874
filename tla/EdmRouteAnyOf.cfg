CONSTANTS
  s1 = s1
  s2 = s2
  s3 = s3
  Stages <- MCStages
  Plans <- MCPlans
  MaxVersions = 1
SPECIFICATION Spec
PROPERTIES
  OneApprovalIsEnough
CHECK_DEADLOCK FALSE

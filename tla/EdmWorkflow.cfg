CONSTANTS
  own = own
  rev = rev
  app = app
  r1 = r1
  r2 = r2
  Users <- MCUsers
  Owner = own
  Reviewers <- MCReviewers
  Approvers <- MCApprovers
  Requests <- MCRequests
  MaxRequests = 5
  s1 = s1
  s2 = s2
  Savers <- MCSavers
  MaxSaves = 4
SPECIFICATION MCSpec
SYMMETRY MCSymmetry
INVARIANTS
  SecondEdmTypeOK
  TrailExplainsSteps
  SignedWasApproved
  CalmWalk
  StepIsStaffed
  CurrentIsNewest
CHECK_DEADLOCK FALSE

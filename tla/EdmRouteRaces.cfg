CONSTANTS
  s1 = s1
  s2 = s2
  r1 = r1
  r2 = r2
  Stages <- MCStages
  Plans <- MCPlans
  Requests <- MCRequests
  MaxVersions = 2
  MaxRequests = 5
SPECIFICATION RacesSpec
SYMMETRY MCSymmetry
INVARIANTS
  VerdictsAreRecorded
PROPERTIES
  UndisturbedIsAtomic
CHECK_DEADLOCK FALSE

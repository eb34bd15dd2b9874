CONSTANTS
  d1 = d1
  d2 = d2
  r1 = r1
  r2 = r2
  Documents <- MCDocuments
  Requests <- MCRequests
  Types = {"incoming", "internal"}
  JournalTypes = {"incoming"}
  MaxValue = 2
  Absent = Absent
  NoNumber = NoNumber
SYMMETRY MCSymmetry
SPECIFICATION Spec
INVARIANTS
  NumbersBelong
PROPERTIES
  OnlyStaleCopiesRenumber
  IssuesInOrder
CHECK_DEADLOCK FALSE

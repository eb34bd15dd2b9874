CONSTANTS
  Requests = {a, b}
  refreshMaxAttempts = 2
  MaxBad = 2
  MaxExpiries = 1
  MaxWindows = 1
  e1 = e1
  e2 = e2
  d1 = d1
  Emails = {e1, e2}
  Keys = {k1}
  Runs = {r1, r2}
  Places = {d1}
  Files <- MCFiles
  UsersAtFirst <- MCUsersAtFirst
  UsersEdited <- MCUsersEdited
  MaxDryRuns = 2
  MaxCalls = 2
  MaxTroubles = 1
  Absent = Absent
  NoPlace = NoPlace
  NoResult = NoResult
  Stages = {"s1"}
  People = {"ann"}
  Scans = {p1, p2}
  DueAt <- MCDueAt
  Assigned <- MCAssigned
  Superiors <- MCSuperiors
  ReminderWindow = 1
  EscalationThreshold = 1
  MaxNow = 3
  MaxAsked = 1
  MaxReads = 1
  MaxLost = 1
  Editors = {u1, u2}
  MaxUpdates = 3
  o1 = o1
  o2 = o2
  o3 = o3
  NoUnit = NoUnit
  Units = {o1, o2, o3}
  Slugs = {"a", "b"}
  Slots = {w1, w2}
  FirstUnits <- MCFirstUnits
  MaxTurns = 3
  MaxPath = 3
  StorageKeys = {f1}
  ObjectSizes = {1, 2}
  Filers = {w1, w2, w3}
  Tabs = {t1}
  Rooms = {"global", "dm"}
  OpenRooms = {"global"}
  HistoryLimit = 2
  MaxSaved = 3
  MaxChanges = 2
SPECIFICATION MCSpec
INVARIANTS
  ServicesTypeOK
  UndisturbedStaysSignedIn
  AppliedOnce
  ImportTakesEffect
  AlertsAreSingle
  PlanIsOneEdit
  FilesAreStored
  TabShowsRoom
PROPERTIES
  RequestsSettle
  TreeIsKept
  AlertComes
CHECK_DEADLOCK FALSE

CONSTANTS
  Procs = {p1, p2}
  Ids = {i1, i2}
  Commits = {c1, c2}
  Files = {f1}
  None = None
  Earlier = Earlier
  Fsynced = Fsynced
  Absent = Absent
  Partial = Partial
  MaxFaults = 2
SPECIFICATION FairSpec
INVARIANTS
  ReportedIntact
  OneBindingPerId
  FailureLeavesNothing
  ReportedDurable
PROPERTIES
  RecordWins
  SomeoneReports
  ImplementsRegistry
CHECK_DEADLOCK FALSE

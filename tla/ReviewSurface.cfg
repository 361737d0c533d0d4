SPECIFICATION FairSpec
CONSTANTS
  NumIssues = 2
  Edited    = {1}
  MaxPushes = 2
  MaxEdits  = 2
  MaxFaults = 1
  None      = None
INVARIANTS
  HistoryKept
  CleanRunSettles
PROPERTIES
  EditsSurvive
  Converges

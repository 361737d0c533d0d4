CONSTANTS
  Clones = {k1}
  Refs = {main, side}
  Main = main
  MaxCommits = 5
SPECIFICATION Spec
INVARIANTS
  TypeOK
  HistoryCheckExact
PROPERTIES
  LinearNeverRebinds
  LiveTipRefused
CHECK_DEADLOCK FALSE

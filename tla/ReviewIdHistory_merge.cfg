CONSTANTS
  Clones = {k1}
  Refs = {main, side}
  Main = main
  MaxCommits = 4
SPECIFICATION Spec
PROPERTIES
  NeverRebinds
CHECK_DEADLOCK FALSE

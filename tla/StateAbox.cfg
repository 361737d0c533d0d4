SPECIFICATION Spec
CONSTANTS
  NumStates = 2
  n1 = n1  n2 = n2
  Names = {n1, n2}
  MaxDate = 1
  None = None
  Torn = Torn
  MaxEdits = 2
  MaxCrashes = 1
SYMMETRY NameSymmetry
INVARIANTS TypeOK NoSyntheticUnderV2 NoConflictUnprovoked Idempotent
PROPERTIES CuratedKept HandEditNotOverwritten

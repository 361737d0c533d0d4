SPECIFICATION CurationSpec
CONSTANTS
  Fold <- MCAllFold
  Size <- MCAllSize
  Class <- MCAllClass
  IdKind <- MCIdKind
  IdToken <- MCIdToken
  NotText <- MCNotText
  Referential <- MCReferential
  MinContained = 12
  Checkouts <- MCCheckouts
  Registrable <- MCAllRegistrable
  Successions <- MCSuccessions
  Versions <- MCVersions
  Identities <- MCIdentities
  Deferral <- MCDeferral
  MaxActs = 3
  StopPhrases <- MCStopPhrases
  StateCount = 2
  Beginnings <- MCBeginnings
  DossierVersions <- MCDossierVersions
  Mentioned <- MCMentioned
  Ceiling = 100
INVARIANT NamesResolveUniquely
PROPERTIES ReviewMatchesContent NothingUnaccounted DebtIsMonotone DossierNamesSettled DispositionsFollowRegistry
CHECK_DEADLOCK FALSE

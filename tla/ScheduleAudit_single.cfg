SPECIFICATION Spec
CONSTANTS
  Fold <- MCFold
  Size <- MCSize
  Class <- MCClass
  IdKind <- MCIdKind
  IdToken <- MCIdToken
  NotText <- MCNotText
  Referential <- MCReferential
  MinContained = 12
  Checkouts <- MCCheckouts
  Registrable <- MCRegistrable
  Successions <- MCSuccessions
  Versions <- MCVersions
  Identities <- MCIdentities
  Deferral <- MCDeferral
  MaxActs = 2
PROPERTY SingleNamesAccounted

CHECK_DEADLOCK FALSE

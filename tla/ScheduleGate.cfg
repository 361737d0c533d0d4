SPECIFICATION Spec
CONSTANTS
  States = {"AAA", "BBB", "CCC"}
  Target = "ECL-0.3"
  Absent = Absent
  SFreezes <- MCSFreezes
  Overlays <- MCOverlays
  Checkouts <- MCCheckouts
  Menu <- MCMenu
  LicenseBytes = {"l1", "l2"}
  Yaml <- MCYaml
  Launches <- MCLaunches
  MaxEdits = 2
  MaxReviews = 1
INVARIANTS ReviewedContentOnly EveryActiveEntryOnce RefusalHasCause CheckRejectsOnlyChanges

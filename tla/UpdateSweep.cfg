SPECIFICATION FairSpec
CONSTANTS
  Sweeps = {s1}
  Unscheduled = Unscheduled
  Malformed = Malformed
  s1 = s1
  s2 = s2
  NumEntities = 2
  MaxDay = 1
  Lookaheads = {0, 1}
  MaxFaults = 2
  MaxEdits = 2
INVARIANTS OneIssuePerDueDate CleanExitMeansRaised
PROPERTY DueReviewIsRaised

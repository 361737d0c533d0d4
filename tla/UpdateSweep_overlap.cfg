SPECIFICATION Spec
CONSTANTS
  Sweeps = {s1, s2}
  Unscheduled = Unscheduled
  Malformed = Malformed
  s1 = s1
  s2 = s2
  NumEntities = 2
  MaxDay = 1
  Lookaheads = {0, 1}
  MaxFaults = 0
  MaxEdits = 0
INVARIANT OneIssuePerDueDate

SPECIFICATION Spec
CONSTANTS
  None = None  Torn = Torn
  b1 = b1  b2 = b2  b3 = b3  fb = fb  un = un
  l1 = l1  l2 = l2  lr = lr  s1 = s1  sr = sr  lx = lx
  r1 = r1  r2 = r2  v1 = v1  v2 = v2
  Fallback = fb
  Unregistered = un
  Refs <- Versions
  Paths <- Versions
  Hashes <- Contents
  Content <- First
  Major <- Majors
  ReservedLicense <- ReservedL
  ReservedSchedule <- ReservedS
  Candidates = {l1, l2, lr}
  Rewrites <- AllRewrites
  Names = {b1, b2, b3, fb, un}
  Reviews = {r1}
  Specs = {v1, v2}
  Shapes <- AllShapes
  Policies <- AllPolicies
  MaxPublished = 2
  MaxEdits = 2
INVARIANTS OperativeLockReviewed FallbackIndivisible PinnedNeverMoves MajorHonoured NoDraftUnasked
PROPERTY HistoricalValidity
CONSTRAINT Bounded

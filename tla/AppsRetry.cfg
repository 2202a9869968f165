\* One vacancy, attempts replaced by retries, one client whose screen may be stale.
CONSTANTS
  a1 = a1
  a2 = a2
  a3 = a3
  l1 = l1
  l2 = l2
  p1 = p1
  i1 = i1
  i2 = i2
  c1 = c1
  c2 = c2
  empty = empty
  full = full
  Attempts = {a1, a2}
  Listings = {l1}
  Answers = {empty, full}
  NoAnswers = empty
  Intents = {i1, i2}
  Clients = {c1}
  Policies = {}
  PolicySettings <- OneSetting
  Stored = {}
  None = None
  WorkPaused = FALSE
  MaxRevision = 5
  MaxDay = 0
  MaxCrashes = 1
SYMMETRY RetrySymmetry
SPECIFICATION Spec
INVARIANTS
  NoSecondDelivery
  IntentMatchesAttempt
  ApprovedIsSubmitted
  RevisionIdentifiesRow
PROPERTIES
  TransitionsPermitted
  DeliversOnce

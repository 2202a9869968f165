\* Automatic authority on two vacancies under a policy whose cap, zone and mode change.
CONSTANTS
  a1 = a1
  a2 = a2
  a3 = a3
  l1 = l1
  l2 = l2
  p1 = p1
  i1 = i1
  i2 = i2
  c1 = c1
  c2 = c2
  empty = empty
  full = full
  Attempts = {a1, a2, a3}
  Listings = {l1, l2}
  Answers = {empty}
  NoAnswers = empty
  Intents = {i1, i2}
  Clients = {c1}
  Policies = {p1}
  PolicySettings <- ThreeSettings
  Stored = {a1, a2}
  None = None
  WorkPaused = FALSE
  MaxRevision = 0
  MaxDay = 1
  MaxCrashes = 1
SYMMETRY QuotaSymmetry
SPECIFICATION Spec
INVARIANT
  ReservationMatchesIntent
PROPERTY
  ImplementsQuota

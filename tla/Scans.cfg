\* One run of one search, three requests, a stop and a crash at any point, and their progress.
CONSTANTS
  q1 = q1
  s1 = s1
  s2 = s2
  c1 = c1
  c2 = c2
  c3 = c3
  Searches = {q1}
  Scans = {s1}
  Controls = {c1, c2, c3}
  None = None
  MaxSources = 2
  MaxCrashes = 1
  MaxStops = 1
CHECK_DEADLOCK FALSE
SPECIFICATION FairSpec
INVARIANTS
  RunningIsDriven
  CancelWins
  ResultIsExported
PROPERTIES
  RunMovesAsAsked
  CancelSettles

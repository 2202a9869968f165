\* A schedule, a request and a paused run of one search.
CONSTANTS
  q1 = q1
  s1 = s1
  s2 = s2
  c1 = c1
  c2 = c2
  c3 = c3
  Searches = {q1}
  Scans = {s1, s2}
  Controls = {c1}
  None = None
  MaxSources = 2
  MaxCrashes = 1
  MaxStops = 1
CHECK_DEADLOCK FALSE
SPECIFICATION Spec
INVARIANT
  OneActiveRun

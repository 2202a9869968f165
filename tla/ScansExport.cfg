\* One run of one source and a crash.
CONSTANTS
  q1 = q1
  s1 = s1
  s2 = s2
  c1 = c1
  c2 = c2
  c3 = c3
  Searches = {q1}
  Scans = {s1}
  Controls = {}
  None = None
  MaxSources = 1
  MaxCrashes = 1
  MaxStops = 0
CHECK_DEADLOCK FALSE
SPECIFICATION FairSpec
PROPERTY
  ExportRecovered

\* A restore that dies between putting the database in place and pausing it.
CONSTANTS
  v1 = v1
  v2 = v2
  Runs = {run}
  Payloads = {v1, v2}
  Destinations = {d}
  Pids = {p1, p2}
  None = None
  MaxCrashes = 1
SYMMETRY Symmetry
SPECIFICATION Spec
INVARIANTS
  RestoredBeginsPaused

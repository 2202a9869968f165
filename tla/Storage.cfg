\* One run that may end in two ways, one destination used again, two pids and two deaths.
CONSTANTS
  v1 = v1
  v2 = v2
  Runs = {run}
  Payloads = {v1, v2}
  Destinations = {d}
  Pids = {p1, p2}
  None = None
  MaxCrashes = 2
SYMMETRY Symmetry
SPECIFICATION Spec
INVARIANTS
  NoForeignLog
  BackupHoldsExports
  LiveHoldsExports
PROPERTIES
  PublishedNeverChanges
  RestoredWaits

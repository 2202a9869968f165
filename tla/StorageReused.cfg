\* One destination used for two backups, and no death at all.
CONSTANTS
  v1 = v1
  v2 = v2
  Runs = {run}
  Payloads = {v1, v2}
  Destinations = {d}
  Pids = {p1}
  None = None
  MaxCrashes = 0
SYMMETRY Symmetry
SPECIFICATION Spec
INVARIANTS
  AcceptedBackupIsWhole

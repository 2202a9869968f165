\* Two uploads of different bodies under one key.
CONSTANTS
  c1 = c1
  c2 = c2
  k1 = k1
  b1 = b1
  bad = bad
  Clients = {c1, c2}
  Keys = {k1}
  Bodies = {b1, bad}
  Unreadable = {bad}
  Commands <- TwoUploads
  None = None
  MaxCrashes = 0
SPECIFICATION Spec
INVARIANT
  UploadsAreIndexed

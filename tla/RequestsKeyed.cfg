\* One client that starts a run and sends the request again after a death.
CONSTANTS
  c1 = c1
  c2 = c2
  k1 = k1
  b1 = b1
  bad = bad
  Clients = {c1}
  Keys = {k1}
  Bodies = {b1, bad}
  Unreadable = {bad}
  Commands <- RunCommands
  None = None
  MaxCrashes = 1
SPECIFICATION Spec
INVARIANT
  KeyedOnce

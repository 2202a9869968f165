\* Two requests, an administrator and the idle loop over three threads.
CONSTANTS
  r1 = r1
  r2 = r2
  t1 = t1
  t2 = t2
  t3 = t3
  Requests = {r1, r2}
  Threads = {t1, t2, t3}
  None = None
SPECIFICATION FairSpec
INVARIANTS
  InUseIsLoaded
  LoadsOnce
  LoadedIsStamped
PROPERTIES
  RequestsEnd
  IdleReleasedOtherwise

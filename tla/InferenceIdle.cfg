\* The idle loop against a request that begins while its unload is under way.
CONSTANTS
  r1 = r1
  r2 = r2
  t1 = t1
  t2 = t2
  t3 = t3
  Requests = {r1, r2}
  Threads = {t1, t2, t3}
  None = None
SPECIFICATION FairSpec
PROPERTIES
  IdleReleased

\* One task, one dashboard principal, one screen that may be stale, three tickets and one browser restart.
CONSTANTS
  t1 = t1
  t2 = t2
  t3 = t3
  c1 = c1
  c2 = c2
  Tasks = {task}
  Sessions = {principal}
  Tokens = {t1, t2, t3}
  Clients = {c1}
  Resolutions = {completed, dismissed}
  None = None
  TTL = 2
  MaxTime = 3
  MaxGeneration = 1
SYMMETRY Symmetry
SPECIFICATION Spec
INVARIANTS
  ControlAfterSuspension
PROPERTIES
  ResolverSawResolving
  ViewsTheOpenBrowser
  ImplementsLedger

\* Users, the agent, idle timers, browser deaths and a shutdown on one source, three browsers.
CONSTANTS
  src1 = src1
  s1 = s1
  s2 = s2
  s3 = s3
  Sources = {src1}
  Sessions = {s1, s2, s3}
  None = None
CHECK_DEADLOCK FALSE
SPECIFICATION FairSpec
INVARIANTS
  PageUsedByOne
  IdleTimerArmed
PROPERTIES
  ClosesOnce
  AgentLeaves
  ShutdownEndsOtherwise

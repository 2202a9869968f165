\* One browser, its launch and a shutdown.
CONSTANTS
  src1 = src1
  s1 = s1
  s2 = s2
  s3 = s3
  Sources = {src1}
  Sessions = {s1}
  None = None
CHECK_DEADLOCK FALSE
SPECIFICATION FairSpec
PROPERTY
  ShutdownEnds

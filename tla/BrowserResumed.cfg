\* Two browsers, a shutdown and the start-up probe.
CONSTANTS
  src1 = src1
  s1 = s1
  s2 = s2
  s3 = s3
  Sources = {src1}
  Sessions = {s1, s2}
  None = None
CHECK_DEADLOCK FALSE
SPECIFICATION FairSpec
PROPERTY
  NoBrowserAfterStop

\* The map entry of a newer session deleted by the continuation of an older one.
CONSTANTS
  src1 = src1
  s1 = s1
  s2 = s2
  s3 = s3
  Sources = {src1}
  Sessions = {s1, s2, s3}
  None = None
CHECK_DEADLOCK FALSE
SYMMETRY SessionSymmetry
SPECIFICATION Spec
INVARIANT
  ExclusiveProfile

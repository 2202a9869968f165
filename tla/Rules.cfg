\* A schedule through edits, failed statements and a crash, polled at any time.
CONSTANTS
  q1 = q1
  Searches = {q1}
  Intervals = {2, 3}
  Never = Never
  Nobody = Nobody
  MaxTime = 6
  MaxCrashes = 1
SPECIFICATION FairSpec
INVARIANTS
  OneScanPerInterval
  EachIntervalScanned
PROPERTIES
  DueIsObserved

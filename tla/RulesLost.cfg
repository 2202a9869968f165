\* A poll that ends between the cursor and the scan.
CONSTANTS
  q1 = q1
  Searches = {q1}
  Intervals = {2, 3}
  Never = Never
  Nobody = Nobody
  MaxTime = 5
  MaxCrashes = 1
SPECIFICATION Spec
INVARIANTS
  EveryIntervalScanned

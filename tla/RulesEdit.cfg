\* An edit that ends between the definition and the cursor.
CONSTANTS
  q1 = q1
  Searches = {q1}
  Intervals = {2, 3}
  Never = Never
  Nobody = Nobody
  MaxTime = 5
  MaxCrashes = 1
SPECIFICATION Spec
INVARIANTS
  EditStartsFreshInterval

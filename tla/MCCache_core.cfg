SPECIFICATION Spec
CONSTANTS
  Nil = Nil
  k1 = k1
  k2 = k2
  v1 = v1
  v2 = v2
  Janitor = Janitor
  Threads = {a, b}
  Keys = {k1, k2}
  Calls <- CoreCalls
  MaxItems = 1
  MaxTime = 3
INVARIANTS TypeOK CapacityKept ReadsAreStable
 
CHECK_DEADLOCK FALSE

SPECIFICATION TSpec
CONSTANTS
  Root = {r1}
  TreeHeight = 3
  Customer = r1
  MaxState = 4
  MaxSync = 2
  MaxBad = 2
INVARIANTS Recoverable HonestAccepted 
CHECK_DEADLOCK FALSE

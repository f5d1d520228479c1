\* Lists of up to four nodes, addresses re-used, two data: duplicates occur.
SPECIFICATION Spec
CONSTANTS
  n1 = n1
  n2 = n2
  n3 = n3
  n4 = n4
  Nodes <- FourNodes
  Data = {1, 2}
  NULL = NULL
INVARIANTS TypeOK WellFormed
PROPERTIES LostOnlyWhenRefused CallsReturn ImplementsListSpec
CHECK_DEADLOCK FALSE

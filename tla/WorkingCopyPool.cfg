\* Three requests, three directories, a pool of two, two evictions that may overlap.
SPECIFICATION Spec
CONSTANTS
  Borrowers = {b1, b2, b3}
  Copies = {w1, w2, w3}
  Evictions = {e1, e2}
  NoCopy = NoCopy
  MaxPoolSize = 2
  Timeout = 0
  MaxClock = 1
SYMMETRY Symmetry
INVARIANTS
  Exclusive
  PoolBounded
PROPERTIES
  NeverRemovedInUse
CHECK_DEADLOCK FALSE

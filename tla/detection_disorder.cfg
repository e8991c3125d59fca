SPECIFICATION Spec
CONSTANTS
  Hops = 1
  MaxBatches = 2
  Sizes = {0, 1, 2}
INVARIANTS
  InOrderCountsNone

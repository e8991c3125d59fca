SPECIFICATION FairSpec
CONSTANTS
  Rows = 3
  Cols = 2
  Costs = {0, 1, 3, 10}
  Pad = 20
  Infinity = Infinity
  Unassigned = 10
CHECK_DEADLOCK FALSE
INVARIANTS
  OptimalByDuals
  HungarianPairsBest
  NearestIsMaximal
PROPERTIES
  Terminates

SPECIFICATION FairSpec
CONSTANTS
  Hops = 2
  MaxBatches = 4
  Sizes = {1}
INVARIANTS
  OnlySwapsOnTheWay
  SuccessIsDelivery
PROPERTIES
  AllFinish

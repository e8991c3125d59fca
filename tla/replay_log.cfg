SPECIFICATION LogSpec
CONSTANTS
  Tracks = {1, 2}
  Interceptors = {1, 2}
  NoTrack = 0
  MaxTicks = 2
  FeedLimit = 3
  EoirPasses = {2}
INVARIANTS FrameShowsTracks FrameShowsFlights
PROPERTIES PastIsFixed
CHECK_DEADLOCK FALSE

SPECIFICATION FairSpec
CONSTANTS
  Interceptors = {i1, i2}
  Tracks = {t1, t2}
  NoTrack = NoTrack
  TimeoutTicks = 1
  StableTicks = 2
  CooldownTicks = 2
  HealthReports = {TRUE}
PROPERTIES
  NoIdleWithOpenTrack
  FitTrackIsEngaged

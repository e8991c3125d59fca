SPECIFICATION DenialSpec
CONSTANTS
  Interceptors = {i1}
  Tracks = {t1, t2}
  NoTrack = NoTrack
  TimeoutTicks = 1
  StableTicks = 1
  CooldownTicks = 3
  HealthReports = {TRUE}
PROPERTIES
  DenialsSpacedOut

SPECIFICATION Spec
CONSTANTS
  Interceptors = {i1, i2}
  Tracks = {t1, t2, t3}
  NoTrack = NoTrack
  TimeoutTicks = 2
  StableTicks = 2
  CooldownTicks = 3
  HealthReports = {TRUE, FALSE}
SYMMETRY Symmetry
INVARIANTS
  TypeOK
  NoSharedTarget
  MemoryIsOneToOne
  EngagementRecordsAgree
  TargetsAreConfirmed
  RetaskOnlyWhenAllBusy
  DeadBranchesStayDead
PROPERTIES
  OnlyTimeoutEndsFlight
  ImplementsFlights

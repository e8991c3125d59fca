SPECIFICATION Spec
CONSTANTS
  Sensors = {s1, s2}
  Streams = {h1, h2}
  Beat = 1
  Timeout = 3
  Period = 1
  Lag = 1
INVARIANTS
  SilenceIsReported
  RunningIsNotStale

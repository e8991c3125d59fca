SPECIFICATION DemoSpec
CONSTANTS
  Streams = {s1, s2}
  Seqs = {1}
  Times = {1, 2}
  Load = 2
  MaxQueue = 2
  DropOldest = TRUE
  Faults = {TRUE, FALSE}
  Ticks = 2
CHECK_DEADLOCK FALSE
INVARIANTS
  AllAccountedFor
  SleepsOnlyWhenEmpty
  TrackerIsFed
PROPERTIES
  ImplementsFifo
  QueueDrains

SPECIFICATION FairSpec
CONSTANTS
  Streams = {s1}
  Seqs = {1}
  Times = {1}
  Load = 1
  MaxQueue = 1
  DropOldest = TRUE
  Faults = {FALSE}
CHECK_DEADLOCK FALSE
PROPERTIES
  ShutdownCompletes

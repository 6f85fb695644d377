CONSTANTS
  h1 = h1
  h2 = h2
  Hour = 2
  Day = 2
  Handlers = {h1, h2}
  Requests <- RaceRequests
  Stored <- RaceStored
  Lag = 1
  TestMode = FALSE
  Faults = {"bus", "clock", "crash"}
SPECIFICATION RaceSpec
INVARIANTS
  TypeOK
  FlagPublished
  NoLostWakeup
  StoredUnlessCrossed
SYMMETRY Threads

CONSTANTS
  h1 = h1
  Hour = 2
  Day = 4
  Handlers = {h1}
  Requests <- LiveRequests
  Stored <- LiveStored
  Lag = 1
  TestMode = FALSE
  Faults = {"bus"}
SPECIFICATION FairSpec
PROPERTIES
  ScheduleTakenUp
  StopsEventually

CONSTANTS
  h1 = h1
  Hour = 2
  Day = 4
  Handlers = {h1}
  Requests <- NoPeriodRequests
  Stored <- PlainStored
  Lag = 2
  TestMode = FALSE
  Faults = {}
SPECIFICATION FairSpec
PROPERTY NoPeriodStops

CONSTANTS
  h1 = h1
  Hour = 1
  Day = 1
  Handlers = {h1}
  Requests <- FaultRequests
  Stored <- FaultStored
  Lag = 1
  TestMode = FALSE
  Faults = {"db", "bus", "crash"}
SPECIFICATION Spec
INVARIANT AcknowledgedIsStored
PROPERTY KeepsSettings

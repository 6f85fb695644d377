CONSTANTS
  h1 = h1
  Hour = 2
  Day = 4
  Handlers = {h1}
  Requests <- PowerRequests
  Stored <- PlainStored
  Lag = 2
  TestMode = FALSE
  Faults = {}
SPECIFICATION Spec
INVARIANT OnUsesPower

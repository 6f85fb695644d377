CONSTANTS
  h1 = h1
  Hour = 6
  Day = 18
  Handlers = {h1}
  Requests = {}
  Stored <- DutyStored
  Lag = 2
  TestMode = FALSE
  Faults = {}
SPECIFICATION DutySpec
INVARIANTS
  DutyNoOverrun
  DutyNoUnderrun
PROPERTY SwitchesAsDue

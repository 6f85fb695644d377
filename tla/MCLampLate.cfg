CONSTANTS
  t1 = t1
  t2 = t2
  Threads = {t1, t2}
  Requests <- Settings
  Faults = {"write", "late", "interrupt", "loss"}
  Answers = {"OK", "noise"}
  LampQueue = 1
  None = None
  Earlier = Earlier
SPECIFICATION FairSpec
INVARIANT MisledOnlyByOwed
PROPERTY RequestsServed

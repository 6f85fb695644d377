CONSTANTS
  t1 = t1
  t2 = t2
  Threads = {t1, t2}
  Requests <- PowerUnparsed
  Faults = {}
  Answers = {"OK"}
  LampQueue = 1
  None = None
  Earlier = Earlier
SPECIFICATION FairSpec
CHECK_DEADLOCK FALSE
PROPERTY RequestsServed

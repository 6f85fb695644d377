CONSTANTS
  t1 = t1
  t2 = t2
  Threads = {t1, t2}
  Requests <- ParsedFirst
  Faults = {"write", "loss"}
  Answers = {"OK", "refused", "incomplete", "noise"}
  LampQueue = 1
  None = None
  Earlier = Earlier
SYMMETRY Symmetry
SPECIFICATION Spec
INVARIANTS
  TypeOK
  OkIsExecuted

CONSTANTS
  h1 = h1
  h2 = h2
  Handlers = {h1, h2}
  Minutes <- SomeMinutes
  Batch = 1
  FilePeriod = 0
  FileLimit = 2
  MinPeriod = 180
  Word = 65536
  Tables <- SomeTables
  Stored = {0, 600}
  Faults = {"vacuum", "insert", "update", "period", "file", "crash"}
SPECIFICATION FairSpec
INVARIANTS
  TypeOK
  FileWithinBound
  NoLostWakeup
PROPERTIES
  NewestKept
  PeriodTakenUp
  KeepsPeriod

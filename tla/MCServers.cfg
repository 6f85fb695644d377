CONSTANTS
  t1 = t1
  t2 = t2
  Threads = {t1, t2}
  NoThread = NoThread
  Requests = {"lan", "reboot", "query", "other"}
  Faults = {"open", "file", "nmcli", "network", "reboot", "socket"}
  V2Faults = {"spurious", "socket"}
SPECIFICATION Servers
CHECK_DEADLOCK FALSE
INVARIANTS
  ServersTypeOK
  MutexOfAccepting
  LanNotForgotten
PROPERTIES
  TerminationEnds
  RebootFollows
  SignalStops

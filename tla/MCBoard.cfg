CONSTANTS
  h1 = h1
  h2 = h2
  Hosts = {h1, h2}
  NoHost = NoHost
  Requests <- BoardRequests
  Faults = {"truncated", "erase", "program", "reset"}
SPECIFICATION FairSpec
INVARIANTS
  TypeOK
  NoRequestLost
  OkIsTrue
  FlashKept
PROPERTIES
  BoardListens
  ServesPowers

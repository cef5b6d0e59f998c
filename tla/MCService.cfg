SPECIFICATION FairSpec
CONSTANTS
  SIGTERM = SIGTERM  SIGINT = SIGINT
  Signal = {SIGTERM, SIGINT}
  Connections = 3
  Consumers = 2
  MaxCleanups = 2
INVARIANTS WorksConnected
PROPERTY ShutdownEnds
CHECK_DEADLOCK FALSE

SPECIFICATION FairSpec
CONSTANTS
  Conns = {c1, c2}
  Allowed = {c1, c2}
  MaxConnections = 1
  Periodic = TRUE
  MaxStarts = 2
  MaxWorkers = 2
  c1 = c1
  c2 = c2
INVARIANTS ServerSound
PROPERTIES StatusOutlivesSessions ShutdownCompletes

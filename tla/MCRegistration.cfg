SPECIFICATION RegistrationSpec
CONSTANTS
  Callers = {c1, c2}
  Domains = {d1, d2}
  NoCaller = NoCaller
  Slots = 1
  MaxEntries = 1
  FailureRetry = 2
  DeadlineRetry = 1
  MissingExpiry = 2
  Grace = 0
  MaxClock = 2
  Clients = {t1, t2, t3}
  Bases = 2
  Refresh = 1
  BootstrapFailureRetry = 2
  BootstrapDeadlineRetry = 1
  MaxTime = 2
  MaxLoads = 2
  t1 = t1
  t2 = t2
  t3 = t3
INVARIANTS Safe LookupsJustified
PROPERTIES BootstrapSound LookupsReturn

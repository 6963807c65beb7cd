SPECIFICATION ListsSpec
CONSTANTS
  Locals = {l1}
  Remotes = {c1}
  DomainOf <- OneDomain
  Everyone = Everyone
  Callers = {s1, s2}
  Operations <- Everything
  Features <- AllFeatures
  Scope = "all"
  MinMessages = 2
  StaleAfter = 1
  Expiry = 1
  MaxRows = 1
  MaxBlocks = 1
  CallTimeout = 1
  MaxListTime = 2
  MaxEvidence = 2
  c1 = c1
  l1 = l1
  s1 = s1
  s2 = s2
SYMMETRY CallerSymmetry
INVARIANTS TrustConsistent
PROPERTIES PromisesKept

SPECIFICATION ServicesSpec
CONSTANTS
  Workers = {w1, w2}
  MaxConcurrent = 1
  Timeout = 2
  Retries = 2
  MaxRetryAfter = 1
  Backoff = 0
  MaxExtraction = 1
  MaxTokens = 3
  Reported = {2}
  MaxTime = 9
  Processes = {p1, p2}
  BusyRetries = 2
  Rows = {r1, r2}
  Versions = {0, 3, 4, 5, 6, 7}
  None = none
  w1 = w1
  w2 = w2
  Senders = {s1, s2}
  Messages <- MCMessages
  TextOf <- MCTextOf
  Saved <- MCSaved
  Expiring = {"get2"}
  Configs <- MCConfigs
  MaxCommands = 2
  ReplySlots = 1
  ExtractionSlots = 1
INVARIANTS StoreSound ReplySound
PROPERTIES AnalysisAccounted ServicesEnd

SPECIFICATION AfterRejectionSpec
CONSTANTS
  IPs = {a, b}
  Allowlist = {}
  Sessions = {s1, s2}
  Updates <- EveryUpdate
  Configs <- ForgivingConfigs
  MaxBlockEntries = 1
  RefreshInterval = 1
  MaxMinutes = 2
  MaxRejections <- RejectionsOfOne
  Savers = {t1}
  Readers = {r1}
  DayTicks = 2
  MonthDays = 2
  Retention = 1
  MaxEntries = 1
  MaxTotalBytes = 1
  MaxMessages = 2
  MaxTime = 3
  a = a
  b = b
  s1 = s1
  s2 = s2
  t1 = t1
  r1 = r1
SYMMETRY Symmetry
PROPERTIES BlocksEarned EvictionOrdered ArchiveFollowsRecords

SPECIFICATION Spec
CONSTANTS
  Apps = {a1, a2}
  MayFail = TRUE
  Names = {x, y}
  Intervals = {0, 2}
  TaskMax = 2
  Capacity = 2
  Minute = 2
  CronMinutes = {1, 2}
  Wrap = 100
  ClockMax = 4
  Duplicates = FALSE
  Tier1 = {https, scan}
  Tier2 = {files}
  Https = https
  Origins = {o1, o2}
  OriginMax = 1
  Keys = {k1, k2, k3}
  Values = {v1, v2}
  ReadMax = 2
  SendMax = 3
  TickMax = 1
INVARIANTS TypeOK FileIsTheSchedule OnlyAllowedCaps 
PROPERTIES OnlyFailedSavesForget GrantsAreTheUsers NoOldStagingReturns MailArrivesOnce
SYMMETRY Symmetry

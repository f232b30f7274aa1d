SPECIFICATION BgSpec
CONSTANTS
  Apps = {a1}
  MayFail = TRUE
  Names = {x}
  Intervals = {2}
  TaskMax = 1
  Capacity = 2
  Minute = 2
  CronMinutes = {1, 2}
  Wrap = 100
  ClockMax = 4
  Duplicates = FALSE
PROPERTIES NoEarlyRefire

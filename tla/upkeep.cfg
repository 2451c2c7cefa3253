SPECIFICATION ExportSpec
CONSTANTS
  Day = 4
  Week = 2
  Month = 3
  Schedules <- SomeSchedules
  Timers = {1, 2, 3}
  MaxPack = 1
  Start = 24
  Browsers = {b1, b2}
  None = None
  Budgets <- SomeUse
INVARIANT PackedInTime
INVARIANT EditsKept
 
INVARIANT NothingLeft
PROPERTY PacksApart
CHECK_DEADLOCK FALSE

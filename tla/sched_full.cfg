SPECIFICATION Spec
CONSTANTS
  t1 = t1
  t2 = t2
  t3 = t3
  idle = idle
  Tasks = {t1, t2}
  Idle = idle
  NoTask = NoTask
  NumPrio = 3
  BasePrio <- TwoPrio
  InitTick <- OneSlice
  TickMod = 3
  Calls = {"sleep", "yield", "wait", "post", "lock", "isr"}
  SleepTicks = {2}
  Timeouts = {1, 2}
  MaxLock = 1
INVARIANTS
  IInv
  LinkedWhereStatusSays
  NoMissedWake
PROPERTIES
  WakesOnTime
CHECK_DEADLOCK FALSE

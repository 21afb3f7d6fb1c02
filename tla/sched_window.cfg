SPECIFICATION Spec
CONSTANTS
  t1 = t1
  t2 = t2
  t3 = t3
  idle = idle
  Tasks = {t1, t2}
  Idle = idle
  NoTask = NoTask
  NumPrio = 3
  BasePrio <- TwoPrio
  InitTick <- Slices
  TickMod = 4
  Calls = {"wait", "post"}
  SleepTicks = {}
  Timeouts = {3}
  MaxLock = 0
INVARIANTS
  ChoosesATask
CHECK_DEADLOCK FALSE

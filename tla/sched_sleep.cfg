SPECIFICATION FairSpec
CONSTANTS
  t1 = t1
  t2 = t2
  t3 = t3
  idle = idle
  Tasks = {t1, t2, t3}
  Idle = idle
  NoTask = NoTask
  NumPrio = 3
  BasePrio <- MixedPrio
  InitTick <- Slices
  TickMod = 5
  Calls = {"sleep"}
  SleepTicks = {1, 2, 4}
  Timeouts = {}
  MaxLock = 0
INVARIANTS
  HighestRuns
PROPERTIES
  SleepersWake
  RoundRobin

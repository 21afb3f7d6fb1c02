SPECIFICATION FairSpec
CONSTANTS
  t1 = t1
  t2 = t2
  idle = idle
  r = r
  Tasks = {t1, t2, idle, r}
  NoTask = NoTask
  Junk = Junk
  Nul = Nul
  IdxMod = 8
  BuffSize = 4
  ReadSize = 3
  Usages <- AllUses
INVARIANTS
  LargestPower
  Untorn
PROPERTIES
  IsFifo
  Drains
CHECK_DEADLOCK FALSE

SPECIFICATION FairSpec
CONSTANTS
  hi = hi
  mid = mid
  lo = lo
  Tasks = {hi, mid, lo}
  BasePrio <- SharedPrio
  Cnt = 1
  MaxCnt = 2
  Waits = {"try", "timed", "forever"}
  Posters = {hi, mid, lo}
  IsrPosts = TRUE
  Deleters = {hi}
  MaxPosts = 4
INVARIANTS
  SemInv
  NeverOverdrawn
PROPERTIES
  TimedPendReturns
  ImplementsSem
CHECK_DEADLOCK FALSE

SPECIFICATION Spec
CONSTANTS
  hi = hi
  mid = mid
  lo = lo
  Tasks = {hi, mid, lo}
  BasePrio <- ThreePrio
  Cnt = 0
  MaxCnt = 1
  Waits = {"timed"}
  Posters = {hi}
  IsrPosts = FALSE
  Deleters = {}
  MaxPosts = 1
INVARIANTS
  NoTokenLost
CHECK_DEADLOCK FALSE

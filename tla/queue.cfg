SPECIFICATION FairSpec
CONSTANTS
  hi = hi
  mid = mid
  lo = lo
  Tasks = {hi, mid, lo}
  BasePrio <- ThreePrio
  MsgIds = 5
  CountMod = 4
  Usages <- AllUses
INVARIANTS
  
  CountsAgree
  NoIdleToken
PROPERTIES
  Fifo
  TopServed
CHECK_DEADLOCK FALSE

SPECIFICATION FairSpec
CONSTANTS
  hi = hi
  mid = mid
  lo = lo
  f = f
  g = g
  Tasks = {hi, mid, lo}
  BasePrio <- ThreePrio
  Flags = {f, g}
  Nobody = Nobody
  Usages <- AllUses
INVARIANTS
  
  FlagsExact
  NoEndItem
PROPERTIES
  ScanEnds
CHECK_DEADLOCK FALSE

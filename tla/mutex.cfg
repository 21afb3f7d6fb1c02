SPECIFICATION FairSpec
CONSTANTS
  hi = hi
  mid = mid
  lo = lo
  NoTask = NoTask
  Tasks = {hi, mid, lo}
  Mutexes = {"m1", "m2"}
  CountMod = 3
  Usages <- AllUses
INVARIANTS
  MutualExclusion
  OwnerKnows
  DeletedUnused
  Inherited
  PriorityRestored
PROPERTIES
  TopGetsMutex
CHECK_DEADLOCK FALSE

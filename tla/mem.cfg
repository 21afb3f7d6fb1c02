SPECIFICATION Spec
CONSTANTS
  NodeWords = 2
  HeapWords = 24
  WordMod = 32
  Null = Null
  Usages <- AllUses
  Tasks = {a, b}
  MempWords = 3
  MempNodeWords = 1
  memp_size = 5
  blk_size = 2
INVARIANTS
  NoOverlap
  Tiles
  PoolExact
CHECK_DEADLOCK FALSE

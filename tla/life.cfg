SPECIFICATION FairSpec
CONSTANTS
  Tasks = {a, b, c}
  Main = a
  Idle = Idle
  NoTask = NoTask
  Stacks = {s0, s1, s2, s3}
  NumPrio = 4
  Width = 2
  Usages <- AllUses
INVARIANTS
  HighestFound
  FreedUnlisted
  StacksOwned
PROPERTIES
  ExitedRecycled
CHECK_DEADLOCK FALSE

SPECIFICATION Spec
CONSTANTS
  s = s
  u = u
  app = app
  Timers = {s, u}
  ListHead = ListHead
  TickMod = 5
  CountMod = 3
  Senders = {app}
  Usages <- AllUses
INVARIANTS
  ListsRight
  NeverLate
PROPERTIES
  OnTime
CHECK_DEADLOCK FALSE

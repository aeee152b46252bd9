SPECIFICATION MCSpec
CONSTANTS
  Producers = {p1, p2}
  Consumers = {c1, c2}
  Values = {v1, v2}
  None = none
  Capacity = 2
  MaxPushes = 4
  Size = 3
  MaxCalls = 7
  Timers = {n1, n2, n3}
  Levels = 3
  WheelSlots = 2
  TickNs = 2
  Capacities = {2, 3}
  Starts = {1}
  Delays = {1, 5, 9, 18}
  Strides = {3, 10}
  MaxNow = 17
  MaxInside = 2
  ContextSlots = 2
  MaxBegun = 6
  Limit = 1
  MaxEpoch = 2
  Policies = {"refuse", "degrade"}
SYMMETRY Symmetry
INVARIANTS NoSlotRace PopsItsPush IInv HandedOutOnce MemoryExact ReferencesExact NobodyOverdue
PROPERTIES EmptyIsHonest FullIsHonest

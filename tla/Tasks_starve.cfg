SPECIFICATION MCFairSpec
CONSTANTS
  Ways = {"resources"}
  c1 = c1
  c2 = c2
  c3 = c3
  w1 = w1
  w2 = w2
  Clients = {c1, c2}
  Workers = {w1, w2}
  NodeBodies = {"return", "fail", "await"}
  Slots = 1
  TicketEpochs = 16
  MaxEpoch = 3
  MaxRuns = 1
  Children = {c1, c2, c3}
  Wrap = 8
  Loads <- AllLoads
  Resources = {"x", "y", "z"}
  None = none
  Plans <- OneResource
  Blocker = blocker
  Watchdog = watchdog
  AwaitPlans <- OneCall
  MaxChunks = 3
  JobRoom = 2
  OpRoom = 1
PROPERTIES WaiterRuns
CHECK_DEADLOCK FALSE

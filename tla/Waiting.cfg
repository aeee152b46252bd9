SPECIFICATION MCFairSpec
CONSTANTS
  Waiters = {u1, u2, u3}
  Completers = {s1, s2}
  Units = 2
  Tasks = {"a", "b", "c", "d"}
  Workers = {w1, w2}
  Client = client
  Graphs <- AllGraphs
  Wrap = 16
  Jobs = {j1, j2}
  Submitters = {b1, b2}
  Pump = pump
  Nobody = nobody
  LanePlans <- AllLanes
  j1 = j1
  j2 = j2
  w1 = w1
  w2 = w2
  Ranks = {1, 2, 3}
  Keys = {1, 3}
  Clients = {b1, b2}
  CommandRoom = 2
  b1 = b1
  b2 = b2
INVARIANTS WokenOnceAtZero DependentInOrder LaneInOrder KeysInOrder
PROPERTIES NobodyLeftOnList DependentRuns TurnComes
CHECK_DEADLOCK FALSE

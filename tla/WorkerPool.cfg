SPECIFICATION FairSpec
CONSTANTS
  w1 = w1
  w2 = w2
  p1 = p1
  p2 = p2
  s1 = s1
  r1 = r1
  r2 = r2
  r3 = r3
  Workers = {w1, w2}
  Producers = {p1, p2}
  SendTasks = {s1}
  RecvTasks = {r1, r2, r3}
  MaxQueue = 2
  NoTask = NoTask
INVARIANTS
  TypeOK
  InFlightIsRight
  NoLostWakeup
PROPERTIES
  ReceiveTaskRuns
  ShutdownCompletes
  EnqueueReturns
  PoolSpec

SPECIFICATION FairSpec
CONSTANTS
  w1 = w1
  Workers = {w1}
  Senders = {}
  MaxFd = 1
  MaxDrops = 1
  MaxRefusals = 0
  MaxDelivers = 1
  MaxStops = 1
INVARIANTS
  TypeOK
PROPERTIES
  StopReturns

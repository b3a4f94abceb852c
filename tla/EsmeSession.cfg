SPECIFICATION FairSpec
CONSTANTS
  w1 = w1
  s1 = s1
  Workers = {w1}
  Senders = {s1}
  MaxFd = 3
  MaxDrops = 2
  MaxRefusals = 1
  MaxDelivers = 0
  MaxStops = 0
INVARIANTS
  NoForgottenSocket
PROPERTIES
  ComesBack
  LossIsNoticed

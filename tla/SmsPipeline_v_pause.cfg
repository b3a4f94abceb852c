SPECIFICATION FairSpec
CONSTANTS
  s1 = s1
  s2 = s2
  c1 = c1
  w1 = w1
  Sms = {s1, s2}
  Campaigns = {c1}
  Workers = {w1}
  MaxSeq = 6
  QueueLimit = 1
  MaxDrops = 1
  MaxBare = 1
  NoSms = NoSms
PROPERTIES
  PauseIsTemporary

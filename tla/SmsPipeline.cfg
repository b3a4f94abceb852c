SPECIFICATION Spec
CONSTANTS
  s1 = s1
  s2 = s2
  c1 = c1
  c2 = c2
  w1 = w1
  w2 = w2
  Sms = {s1, s2}
  Campaigns = {c1, c2}
  Workers = {w1, w2}
  MaxSeq = 5
  QueueLimit = 0
  MaxDrops = 1
  MaxBare = 2
  NoSms = NoSms
SYMMETRY Symmetric
INVARIANTS
  TasksMatchItems
  NeverMisattributed
  AtMostOneResend
  AcceptedIsRecorded
  NoSmsForgotten

SPECIFICATION FairSpec
CONSTANTS
  s1 = s1
  s2 = s2
  s3 = s3
  c1 = c1
  c2 = c2
  w1 = w1
  Sms = {s1, s2, s3}
  Campaigns = {c1, c2}
  Workers = {w1}
  MaxSeq = 3
  QueueLimit = 0
  MaxDrops = 0
  MaxBare = 1
  NoSms = NoSms
INVARIANTS
  TypeOK
  SendQueueBounded
PROPERTIES
  EverySmsSubmitted

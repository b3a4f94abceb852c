SPECIFICATION Spec
CONSTANTS
  s1 = s1
  w1 = w1
  w2 = w2
  Sms = {s1}
  Workers = {w1, w2}
  ReceiptStates = {2}
  MaxReceipts = 1
  QueueSize = 2
SYMMETRY Symmetric
INVARIANTS
  NoOneWaitsForAMatch

SPECIFICATION Spec
CONSTANTS
  s1 = s1
  s2 = s2
  w1 = w1
  w2 = w2
  Sms = {s1, s2}
  Workers = {w1, w2}
  ReceiptStates = {0, 2, 5}
  MaxReceipts = 2
  QueueSize = 2
SYMMETRY Symmetric
INVARIANTS
  TypeOK
  NoStatusOutOfThinAir
  HalvesMeet
PROPERTIES
  RowsSpec

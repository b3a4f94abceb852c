SPECIFICATION Spec
CONSTANTS
  Layout <- Layouts
  Lengths = {2, 21}
  TlvLengths = {0, 2}
  TextLengths = {0, 3}
  SmsLengths = {0, 2, 255, 256, 257}
  UcsLengths = {0, 2, 254, 256, 512, 514}
  ListLimit = 2
  MaxCalls = 2
INVARIANTS
  TypeOK
  LengthIsEncoded
  RoundTrip
  CutsAreRefused
  MandatoryInOrder
  TextArrivesOnce

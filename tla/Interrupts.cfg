SPECIFICATION FairSpec
CONSTANTS
  Lines = {0, 1, 6, 14}
  StubBase = 65000
  TssAddress = 107972
INVARIANTS
  TypeOK
  SegmentsAsMeant
  OwnHandler
  NothingLeftInService
PROPERTIES
  RaisedIsServed

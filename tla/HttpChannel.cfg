SPECIFICATION FairSpec
CONSTANTS
  MaxUnits = 4
  MaxRequests = 3
  TmpRoom = 3
  ReqRoom = 4
  EventRoom = 1
  WrapRoom = 1
  MaxNumber = 2
INVARIANTS
  InStep
  SimpleIsServed
PROPERTY SimpleIsAnswered

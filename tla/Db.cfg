SPECIFICATION FairDbSpec
CONSTANTS
  NSession = 2
  NChar = 4
  Value = {v0, v1}
  Room = 4
  TypeOf <- MCTypeOf
  Accessories <- MCAccessories
  Possible <- MCPossible
  Handled <- MCHandled
  MaxElements = 2
INVARIANTS
  SubscriberIsCurrent
  FlagsOfOpenSessions
  PutAnswerIsTrue
  GetAnswerIsTrue
PROPERTIES
  SubscriberCatchesUp
  Spec

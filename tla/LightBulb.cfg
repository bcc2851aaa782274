SPECIFICATION LSpec
CONSTANTS
  NSession = 2
  NChar = 1
  Value = {0, 1, 2}
  Room = 1
  Top = 1
  Turn = 2
  Step = 1
INVARIANTS
  CurrentAfterCleanChange
  LampShowsValue

SPECIFICATION Spec
CONSTANTS
  MaxPairings = 2
  ControllerId = {a, b, c}
  ControllerKey = {k1, k2}
  NoId = NoId
  NoKey = NoKey
  MaxHttpSessions = 2
  MaxAuthAttempts = 1
  MaxRestored = 1
PROPERTY PairingsArePersistent

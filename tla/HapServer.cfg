SPECIFICATION Spec
CONSTANTS
  MaxPairings = 3
  ControllerId = {a, b, c}
  ControllerKey = {k1, k2}
  NoId = NoId
  NoKey = NoKey
  MaxHttpSessions = 2
  MaxAuthAttempts = 1
  MaxRestored = 2
SYMMETRY Symmetry
INVARIANTS
  SetupOnUnpaired
  SetupOwnerOpen
PROPERTIES
  PowerCycleKeepsPairings
  AuthoritySpec
  SessionsSpec

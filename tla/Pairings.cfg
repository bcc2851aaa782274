SPECIFICATION Spec
CONSTANTS
  MaxPairings = 3
  ControllerId = {a, b, c, d}
  ControllerKey = {k1, k2}
  NoId = NoId
  NoKey = NoKey
SYMMETRY Symmetry
INVARIANTS
  FirstIsLive
  NoSlotLost
PROPERTIES
  MapSpec

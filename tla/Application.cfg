SPECIFICATION FairSpec
CONSTANTS
  Controller = {c1, c2}
  MaxBoots = 2
INVARIANTS
  FileIsCurrent
  FlagMatches
  AdvertisedIsCurrent
PROPERTIES
  SignalIsHandled
CHECK_DEADLOCK FALSE

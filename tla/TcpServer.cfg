SPECIFICATION FairSpec
CONSTANTS
  Free = Free
  Conn = {c1, c2, c3}
  MaxHttpSessions = 1
  PollLimit = 1
  Input = {"part", "request"}
  MayStop = TRUE
INVARIANTS
  SessionsAreOwned
  NoSessionLeak
PROPERTIES
  SessionsSpec
  RequestIsServed
  EventsReachQuietClients
  SilentClientIsClosed
  OnlySilentAreClosed

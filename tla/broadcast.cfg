\* Two workers with a socket each, two events, one failure of Redis.
SPECIFICATION FairSpec
CHECK_DEADLOCK FALSE
CONSTANTS
  w1 = w1
  w2 = w2
  s1 = s1
  s2 = s2
  Workers = {w1, w2}
  Sockets = {s1, s2}
  Channels = {floor}
  Messages = {m1, m2}
  WorkerOf <- SocketOnEach
  ChannelOf <- OneChannel
  None = None
  MaxFailures = 1
INVARIANTS
  IInv
  OnceUnlessLost
  SameOrder
  DeafWorkersStayLocal
  EndedSocketsAreForgotten
PROPERTIES
  SubscribersAreServed
  FallbackReturns

SPECIFICATION Spec
CONSTANTS
  Clients = {c1, c2, c3}
  Fds = {f1, f2, f3}
  Jobs = {t1}
  Tokens = {k1, k2}
  MaxConnections = 2
  MaxUnread = 1
  None = None
SYMMETRY Symmetry
INVARIANTS
  TypeOK
  HandlerKeepsItsData
  SenderIsUser
  WatchedIsServed
  FeedbackReachesSender
CHECK_DEADLOCK FALSE

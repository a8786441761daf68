\* A port with two Push calls and a Close over two adapters, the first one
\* observed; a hub with two subscribers, room for one value each, two values.
CONSTANTS
  Pushers = {p1, p2}
  Closers = {c1}
  N = 2
  Observed = 1
  Cap = 1
  Sessions = {s1, s2}
  Buf = 1
  MaxValues = 2
SPECIFICATION MCSpec
INVARIANT NoSendOnClosed
INVARIANT FlushedWhenDone
INVARIANT SubscribersOpen
INVARIANT Accounted
PROPERTY AdapterSeesFifo
PROPERTY CallsReturn
PROPERTY SessionsEnd
CHECK_DEADLOCK FALSE

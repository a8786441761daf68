\* Two connections, one of which hangs, two frames each, a queue of one.
CONSTANTS
  Sessions = {s1, s2}
  Stuck = {s2}
  Frames = 2
  Buffer = 1
SPECIFICATION FairSpec
INVARIANT ClosedOnce
INVARIANT FramesInOrder
INVARIANT EndedAtReturn
PROPERTY SlowClientIsolated
PROPERTY SessionsEnd
CHECK_DEADLOCK FALSE

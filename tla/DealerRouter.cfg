\* Three calls over one socket.
CONSTANTS
  Calls = {c1, c2, c3}
SPECIFICATION FairSpec
PROPERTY CallsReturn
CHECK_DEADLOCK FALSE

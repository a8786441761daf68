\* Two writers that try the lock twice, beside programs that write the file
\* directly; or two calls of the file routes on each of the three backends.
CONSTANTS
  Writers = {w1, w2}
  Stamps = {1, 2}
  MaxTries = 2
  MaxVersions = 3
  Clients = {c1, c2}
  Paths = {a, b}
  Backends = {"disk", "s3", "os"}
  MaxCalls = 2
  Direct = "direct"
SPECIFICATION MCSpec
INVARIANT SidecarInStep
PROPERTY AtomicSwap
PROPERTY CallsReturn
INVARIANT FilesIntact
CHECK_DEADLOCK FALSE

\* Up to four connections, one after the other; every other adapter with up to
\* three items, unbuffered or with buffers of one.
CONSTANTS
  MaxConns = 4
  MaxItems = 3
  Buffers = {0, 1}
  Kinds = {"ingest", "poll", "query", "scan", "watch", "subscribe", "sse", "mqtt", "mqtt5"}
SPECIFICATION MCSpec
INVARIANT ReachesNewest
INVARIANT GapBeforeFrames
PROPERTY AcceptedArrives
INVARIANT SendsInTime
PROPERTY SourcesStop
CHECK_DEADLOCK FALSE

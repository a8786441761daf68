\* Over MQTT 5 two calls, one forward, one retry; over ZeroMQ three calls.
CONSTANTS
  c1 = c1
  c2 = c2
  Calls = {c1, c2}
  Routes <- MCRoutes
  Services <- MCServices
  Service <- MCService
  Scheme <- MCScheme
  Resp <- MCResp
  Answers <- MCAnswers
  Warm <- MCWarm
  Asks <- MCAsks
  Replays <- MCReplays
  ReplyTopic <- MCReplyTopic
  MaxForwards = 1
  Retries <- MCRetries
  Dealers = {d1, d2, d3}
SPECIFICATION MCSpec
INVARIANT ListensWhileOpen
INVARIANT StrayNeedsOverlap
INVARIANT RepliesKept
PROPERTY KeepsPromise
CHECK_DEADLOCK FALSE

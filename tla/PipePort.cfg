\* Two Push calls beside an input port, fanned out to a sink and a stream.
CONSTANTS
  Pushes = {p1, p2}
  Ingests = {i1}
  Sinks = 1
  Streams = 1
  Buffer = 1
  Side = "push"
  Watched = 1
SPECIFICATION PipeFairSpec
PROPERTY ProducerSeesFifo
PROPERTY AcceptedDelivered
CHECK_DEADLOCK FALSE

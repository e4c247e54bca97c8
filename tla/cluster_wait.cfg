SPECIFICATION FairSpec
CONSTANTS
  a1 = a1 a2 = a2 w = w
  ActorName = {a1, a2}
  HubWorker = w
PROPERTIES ListenResolves
CHECK_DEADLOCK FALSE

SPECIFICATION FairSpec
CONSTANTS
  a1 = a1 a2 = a2 w = w
  ActorName = {a1, a2}
  HubWorker = w
INVARIANTS TypeOK HubFirst
PROPERTIES HubAnnounced
CHECK_DEADLOCK FALSE

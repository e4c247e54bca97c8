SPECIFICATION FairSpec
CONSTANTS
  o1 = o1 o2 = o2 u1 = u1 u2 = u2 j1 = j1 j2 = j2
  None = None
  ObserverSocket = {o1, o2}
  Polite = {o1}
  ObserverKey = {u1, u2}
  Job = {j1, j2}
  MaxListener = 2
INVARIANTS TypeOK EntitiesOwned StopReaches HeardOnce ObservingSaved RestingLeavesNothing
PROPERTIES RequestsAnswered
CHECK_DEADLOCK FALSE

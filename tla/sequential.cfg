SPECIFICATION CalmSpec
CONSTANTS
  k1 = k1 k2 = k2 c1 = c1 c2 = c2 c3 = c3 p1 = p1 p2 = p2 as1 = as1 as2 = as2
  cs1 = cs1 cs2 = cs2 n1 = n1 h1 = h1 h2 = h2 j1 = j1 j2 = j2
  None = None
  ActorKey = {k1, k2}
  CallerKey = {c1, c2, c3}
  Pid = {p1}
  ActorSocket = {as1, as2}
  CallerSocket = {cs1, cs2}
  SpecName = {n1}
  Hub = {h1}
  HubOf <- OneHub
  Job = {j1}
  Event = {"HI", "JOIN", "LEAVE", "PERFORM", "RESULT", "ACTOR_DISCONNECT", "CALLER_DISCONNECT"}
  Announces <- EachOwnKey
  Takeover = FALSE
INVARIANTS BroadcastToMembers ListsAgree JoinedIsListed ActorsTidy GoneCallsAnswered
CHECK_DEADLOCK FALSE
SYMMETRY Alike

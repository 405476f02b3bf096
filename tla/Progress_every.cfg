SPECIFICATION Spec
CONSTANTS
  Procs = {p1, p2}
  NoToken = NoToken
  Terminals = {s1, s2}
  MaxThreads = 3
  MaxEras = 3
  Requests = {r1, r2, r3}
  Channels = {d1, d2}
  Nothing = Nothing
CHECK_DEADLOCK FALSE
INVARIANTS TypeOK TokensAgree RecordedIsOwn SpokenInTurn
PROPERTIES TokenSettles GatewayLearns TurnIsRecorded ChannelFrees

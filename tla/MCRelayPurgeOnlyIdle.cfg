SPECIFICATION Spec
CONSTANTS
  w1 = w1
  w2 = w2
  c1 = c1
  c2 = c2
  c3 = c3
  c4 = c4
  Workers = {w1, w2}
  Forwarders = {w1}
  Sweepers = {w2}
  Nobody = Nobody
  MaxSessions = 2
  Conns = {c1, c2, c3, c4}
  NoConn = NoConn
  RC_MAGIC = RC_MAGIC
  ConnPairs <- MCPairs
  BwLimit = 1
  BwInterval = 2
  IdleTimeout = 1
  TimeMod = 64
  IdMod = 16
  MaxTotal = 2
  MaxClock = 2
INVARIANT
  PurgeOnlyIdle

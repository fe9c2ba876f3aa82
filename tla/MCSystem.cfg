\* IoLoop: two watchers, two descriptors.
\* Channel: two attempts, two replies, three records, two rotations.
\* Cubic: 6-bit windows, scaled constants.
\* P2P: two probes per end.
\* RelayService: three slots.  Auth: two instances, three tokens.
\* Signaling: two clients, two rooms.  Billing: two instances, three reports.
SPECIFICATION Spec
CHECK_DEADLOCK FALSE
CONSTANTS
  IoPoolSize = 2
  Fds = {f1, f2}
  SwapRoles = TRUE
  MaxHellos = 2
  MaxReplies = 2
  MaxRecords = 3
  MaxSalts = 2
  W32 = 64
  MSS = 4
  INIT_CWND = 8
  MIN_CWND = 4
  BETA_SCALE = 8
  BETA = 6
  C_SCALE = 8
  C = 1
  FC_SCALE = 8
  FC_BETA = 7
  INIT_RTO = 10
  MIN_RTO = 2
  MAX_RTO = 15
  AckSizes = {1, 11}
  Rtts = {0, 1, 7}
  MaxEvents = 8
  RC_PUNCH_INTERVAL = 1
  RC_PUNCH_MAX_ATTEMPTS = 2
  RC_MAX_CANDIDATES = 8
  RelayRoom = 1
  MaxClock = 2
  MaxExtras = 2
  RelaySlots = 3
  SESSION_TIMEOUT = 2
  CLEANUP_INTERVAL = 1
  ClockWord = 64
  Senders = {"robot", "operator"}
  RelayMaxClock = 5
  RelayMaxIds = 4
  AuthInstances = {a1, a2}
  Devices = {d1}
  Tokens = {t1, t2, t3}
  Bogus = Bogus
  AuthFds = {1}
  SigPool = 2
  Rooms = {r1, r2}
  BillingInstances = {b1, b2}
  Tiers = {"free", "pro", "enterprise"}
  DefaultTier = "free"
  daily_bytes <- TierLimits
  UsageReports = {1, 3}
  MaxReports = 3
  MaxAdmin = 2
INVARIANTS
  IoPoolSound
    
  BoundsKept KIsCubeRoot
  PunchMeets
  SessionTableSound
  RevokedStaysRevoked RoomsSound  AdmittedWereIssued
  AlertOnCrossing
PROPERTIES
  StaleOnlyAfterReuse 

CONSTANTS
  Devices = {d1, d2}
  Accounts = {a1, a2}
  None = None
  MAX_PENDING = 2
  MAX_PER_ACCOUNT = 1
  MAX_PER_CONNECTION = 1
  RATE_WINDOW = 3
  DENY_DEFAULT = 2
  Expiries = {2}
  MaxTime = 3
  SPeers = {x, y}
  SessionTTL = 0
  MAX_QUEUED_FRAMES = 1
  MaxEph = 2
  MaxSessions = 2
  MaxFrames = 2
  MaxSTime = 2
  Parties = {x, y}
  Families = {"v4", "v6"}
  PENDING_TTL = 3
  StartLead = 1
  MaxWait = 2
  MaxRTime = 5
  Buckets = {b1}
  LimitBurst = 2
  LimitN = 2
  LimitSecs = 3
  MaxLTime = 6
  Layouts <- AllLayouts
SPECIFICATION MemorySpec
SYMMETRY Alike
INVARIANTS
  AdmissionLimits SessionsAgree IntroducedTogether LimitsHold CarriedAsAsked ReadAsWritten
CHECK_DEADLOCK FALSE

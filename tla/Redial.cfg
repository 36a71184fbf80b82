CONSTANTS
  s1 = s1  d1 = d1  u1 = u1  w1 = w1  c1 = c1  c2 = c2  request = request  refusal = refusal
  Slots = {s1}
  DeviceOf <- OneStream
  EvAccountOf <- OneAccount
  QUEUE = 1
  MaxPerIdentity = 1
  WakeMinSecs = 2
  WakeTtl = 2
  MaxHints = 3
  MaxEvTime = 3
  Resync = Resync
  Heartbeat = Heartbeat
  NoSlot = NoSlot
  Watchers = {w1}
  RecordKinds = {request, refusal}
  KindsOf <- OneKind
  TailQUEUE = 1
  MaxTails = 1
  MaxRecords = 4
  MaxBeats = 1
  WChannels = {c1, c2}
  Followed = c1
  Pullable <- SomePullable
  LoopKinds = {"configured", "moved"}
  Losable <- LostByRunMoved
  MAX_WAITS_PER_PEER = 1
  MaxTop = 2
  MaxLost = 1
SPECIFICATION LiveSpec
PROPERTY Redialled
CHECK_DEADLOCK FALSE

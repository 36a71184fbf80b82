CONSTANTS
  dm = dm  room = room  peer = peer  alice = alice  bob = bob  phone = phone  None = None
  Channels = {dm}
  DmPair <- DmOnly
  Accounts = {alice, bob}
  Devices = {phone, bob}
  AccountOf <- PairAccountOf
  Blocks = {}
  Instances = {1, 2}
  Peers = {}
  Visibilities = {"private", "public"}
  Roles = {"admin"}
  InviteLists <- DmInvites
  Recipients = {{phone}}
  Retentions = {1}
  Caps = {2}
  Ttls = {0}
  MAX_MEMBERS = 2
  MAX_UNSPOKEN = 9
  MAX_CHANNELS_PER_IDENTITY = 1
  MAX_ENTRIES = 9
  MAX_HELD = 2
  MAX_EPOCH = 1
  MAX_REPLICAS = 1
  ABANDON_SECS = 1
  MaxSeq = 4
  MaxMsg = 1
  MaxTime = 1
  Me = peer
  ActsFor = {}
  MAX_PULL = 1
  HOLE_TRIES = 1
  LateLineage = FALSE
SPECIFICATION OriginAlone
INVARIANTS NoReplayNoFork NumberedOnce CounterCoversUse
PROPERTIES KeepsRecent
CONSTRAINT PublicIsShort

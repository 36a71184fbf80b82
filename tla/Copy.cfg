CONSTANTS
  room = room  dm = dm  alice = alice  bob = bob  phone = phone  peer = peer  None = None
  Channels = {room}
  DmPair <- RoomOnly
  Accounts = {alice, bob}
  Devices = {phone, bob}
  AccountOf <- PairAccountOf
  Blocks = {}
  Instances = {1, 2}
  Peers = {peer}
  Visibilities = {"private"}
  Roles = {"member"}
  InviteLists <- Pair
  Recipients = {{phone}}
  Retentions = {1}
  Caps = {0}
  Ttls = {0}
  MAX_MEMBERS = 2
  MAX_UNSPOKEN = 9
  MAX_CHANNELS_PER_IDENTITY = 1
  MAX_ENTRIES = 9
  MAX_HELD = 9
  MAX_EPOCH = 1
  MAX_REPLICAS = 1
  ABANDON_SECS = 1
  MaxSeq = 3
  MaxMsg = 0
  MaxTime = 0
  Me = peer
  ActsFor = {alice}
  MAX_PULL = 9
  HOLE_TRIES = 2
  LateLineage = TRUE
SPECIFICATION CopyLiveSpec
INVARIANTS ServesMembers HoldsOneLife
PROPERTIES CatchesUp

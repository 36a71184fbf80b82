CONSTANTS
  room = room  hall = hall  alice = alice  bob = bob  carol = carol  phone = phone  peer = peer  None = None
  Channels = {room, hall}
  DmPair <- TwoRooms
  Accounts = {alice, bob, carol}
  Devices = {phone, bob}
  AccountOf <- PairAccountOf
  Blocks <- BobBlocksAlice
  Instances = {1}
  Peers = {peer}
  Visibilities = {"public"}
  Roles = {"member"}
  InviteLists <- CarolInvites
  Recipients = {}
  Retentions = {1}
  Caps = {0}
  Ttls = {0}
  MAX_MEMBERS = 2
  MAX_UNSPOKEN = 1
  MAX_CHANNELS_PER_IDENTITY = 2
  MAX_ENTRIES = 9
  MAX_HELD = 9
  MAX_EPOCH = 0
  MAX_REPLICAS = 1
  ABANDON_SECS = 1
  MaxSeq = 3
  MaxMsg = 1
  MaxTime = 0
  hx = hx  ox = ox  old = old  new = new  p1 = p1  p2 = p2  Nobody = Nobody
  Registries = {hx, ox}
  HomeEx = hx
  Accts = {old, new}
  Holders = {old}
  Devs = {p1, p2}
  MAX_DEVICES = 2
  Lives = {1, 2}
  MaxSigned = 2
  MaxClaims = 1
  MaxOnWire = 1
  MaxAcTime = 3
  chan = chan  past = past
  Sides = {p1, p2}
  Live = {chan}
  Gens = {past}
  Attached <- SecondNames
  EpochOf <- Epochs
  Expired = {}
  PAGE = 1
  QUEUED = 1
  Stocks <- Meetings
  Top = 4
  POOL = 1
  LOW_WATER = 1
  RUNAWAY = 1
  MAX_PUBLISH = 1
  MAX_STORED = 3
  MAX_CLEAR = 1
  MaxMints = 4
  MaxLosses = 1
  NoPrekey = NoPrekey
SPECIFICATION RoomSpec
INVARIANTS RevokedStaysOut SyncHandsOver ServedOnceAndOpened
PROPERTIES StrangersBoundedByQuota

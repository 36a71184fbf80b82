CONSTANTS
  acc = acc  dev = dev  adm = adm  other = other  x1 = x1  x2 = x2  self = self
  None = None
  Keys = {acc, dev, adm, other}
  Devices = {dev}
  AccountOf <- MCAccountOf
  Clients = {dev}
  Exchanges = {x1, x2, self}
  Self = self
  MAX_PEERS = 1
  MAX_AUDIT = 2
  SeedKeys = {acc}
  SeedPeers = {}
  AdminLists <- MCAdminLists
  Nonces = {1, 2}
  Batches <- EveryOp
  SaveMayFail = TRUE
SPECIFICATION Spec
INVARIANTS SingleUse DoorFollowsState
PROPERTY LapsedLeavesDoor

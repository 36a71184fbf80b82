CONSTANTS
  alice = alice  bob = bob  None = None
  Devices = {alice, bob}
  Roster <- Two
  Running = {alice}
  Restarts = TRUE
  MaxEpoch = 3
  MaxMints = 2
  Exchanges = {1, 2, 3}
  Creator = 1
  Watches <- Configured
  REHOME_MIN = 1
  MaxEntries = 5
  MaxClock = 1
  MaxSaid = 1
  MaxMoves = 2
  MaxTakeOvers = 1
SPECIFICATION HomesSpec
INVARIANTS OneKeyPerEpoch HandedOver ForkIsKept
PROPERTIES InForceIsCollected
CHECK_DEADLOCK FALSE

CONSTANTS
  phone = phone  tablet = tablet  A = A  B = B  C = C
  Devs = {phone, tablet}
  NoDev = NoDev
  Addressees = {NoDev, phone}
  Listings <- OneWay
  RingTTL = 0
  CallTTL = 1
  MaxBridges = 2
  MaxDials = 2
  MaxOpens = 1
  Exchanges = {A, B, C}
  RMembers = {1, 2, 3}
  HomeOf <- OneEach
  RoomTTL = 2
  SHARE_SECS = 1
  ROOM_MEMBERS = 1
  Leavers = {1}
  FailingLinks <- LinkAB
SPECIFICATION CallsSpec
INVARIANTS
  AccountCallKeys BridgesAgree RosterIsCurrent

CONSTANTS
  pub = pub  dm = dm  ann = ann  bob = bob  me = me  you = you
  FeedDevices = {p, q}
  MAX_FEED_POSTS = 2
  MAX_FEED_BYTES = 7
  Retentions = {1}
  PageSize = 2
  MaxSerial = 3
  MaxFeedTime = 3
  MaxTorn = 1
  Homes = {A, B}
  FirstHome = A
  Nowhere = Nowhere
  MAX_MESSAGES = 1
  MailTTL = 1
  MaxMoves = 2
  MaxMail = 2
  MaxCopies = 3
  MaxUnnoted = 1
  MaxMailTime = 2
  Blobs = {b1}
  Accounts = {ann}
  AllChannels = {pub, dm}
  DirectMessages = {dm}
  MembersOf <- Members
  AdminsOf <- Admins
  Stranger = eve
  Timers = {1}
  Retention = 2
  UPLOAD_TTL = 1
  FOLDED_SECS = 1
  BlobQuota = 1
  MAX_UPLOADS = 1
  MAX_BLOB_CHANNELS = 2
  MaxBlobTime = 2
  BackupDevices = {d1, d2}
  FormerBlobs = {f1, f2}
  BackupQuota = 3
  MaxSegments = 3
  Scripts <- Conversations
  Me = me
  MaxInst = 2
  MaxSeq = 4
  RdEpochs = 2
  MaxWipes = 1
  MaxTroubles = 1
SPECIFICATION StoresSpec
INVARIANTS
  FeedIsOneChain WithdrawalIsTheAuthors MailFollows HoldersDecide
  BackupIsWhole NothingIsLost ShownIsKept
PROPERTIES WordsAreKept

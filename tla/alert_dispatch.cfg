SPECIFICATION MCSpec
CONSTANTS
  Channels <- BothChannels
  Answering <- OneChannel
  MaxAlerts <- MCMaxAlerts
  BatchLimit <- MCBatchLimit
  MaxResets = 1
  MaxCrashes = 1
  MaxTimeouts = 1
  MaxDeletes = 1
INVARIANTS
  TypeOK
  NoSilentLoss
PROPERTIES
  DuplicatesNeedFault
  EventuallySettled

CONSTANTS
  BYTE_BITS = 4
  CRC_POLY = 7
  CHAT_SYNC_BYTE = 10
  CHAT_ESCAPE_BYTE = 11
  CHAT_MAX_MESSAGE = 5
  CHAT_MAX_FRAME = 12
  NONCE_LEN = 1
  CTR_LEN = 1
  TAG_LEN = 1
  Keystream <- MCKeystream
  Mac <- MCMac
  USER_ID_BOARD = 0
  ClientId = 2
  RECV_MAX = 2
  NotUtf8 <- OnlyBadTag
  NotPrintable <- OnlyForeign
  Chunks <- AllChunks
  MaxChunks = 2
  Lines <- SomeLines
  MaxLines = 1
SPECIFICATION FairSpec
CHECK_DEADLOCK FALSE
INVARIANTS
  OnlyWholeFramesShown
  EveryFrameShown
  SentIsReadable
  LeavesQuietly
PROPERTIES
  ImplementsFrameDecoder
  NothingLateIsSent
  RawOnlyAfterDamage
  DeafClientEnds

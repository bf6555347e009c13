CONSTANTS
  Byte = {0, 1, 2, 3, 4}
  CHAT_SYNC_BYTE = 2
  CHAT_MAX_FRAME = 3
  TIMEOUT_TICKS = 2
  UINT_MAX = 7
SPECIFICATION FairSpec
INVARIANTS
  TypeOK
  NeverOverruns
PROPERTIES
  ImplementsFrameDecoder
  FramerRecovers

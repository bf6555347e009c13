CONSTANTS
  BYTE_BITS = 4
  CRC_POLY = 7
  CHAT_SYNC_BYTE = 10
  CHAT_ESCAPE_BYTE = 11
  CHAT_MAX_MESSAGE = 7
  CHAT_MAX_FRAME = 16
  NONCE_LEN = 1
  CTR_LEN = 1
  TAG_LEN = 1
  Keystream <- MCKeystream
  Mac <- MCMac
  UART_RX_BUFFER_SIZE = 10
  TIMEOUT_TICKS = 1
  UINT_MAX = 7
  USER_ID_BOARD = 0
  ButtonMessage <- MCButtonMessage
  Chunks <- AllChunks
  MaxEvents = 4
  MaxArrivals = 1000
SPECIFICATION FairSpec
INVARIANTS
  OnlyIntactFramesAnswered
  EveryFrameAnswered
  PressRemembered
PROPERTIES
  UsesFramerProperly
  UsesRingProperly
  PressIsSent

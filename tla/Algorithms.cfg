CONSTANTS
  Topics = {"codec", "poly1305", "chacha20", "printing", "displays", "gpio"}
  LIMB_BITS = 4
  BLOCK_BYTE = 6
  BLOCK = 3
  ClampMasks <- MCMasks
  KeysR = {1, 5, 65537, 174763, 262143, 261120}
  KeysS = {0, 262143}
  Values = {0, 1, 58, 63}
  MaxBlocks = 2
  BYTE_BITS = 8
  CRC_POLY = 4129
  CHAT_SYNC_BYTE = 170
  CHAT_ESCAPE_BYTE = 171
  CHAT_MAX_MESSAGE = 5
  CHAT_MAX_FRAME = 10
  Users = {2}
  Alphabet = {1, 170, 171}
  MaxLen = 5
  BANK_PINS = 2
  GPIO_PIN_COUNT = 4
  WORD_BITS = 12
  UDEC_DIGITS = 4
  Bases = {1, 2, 3, 10, 16, 36, 37}
  Numbers = {0, 7, 90210, 999999, 1000000, 16777215, 16777216}
  Digits = {11}
  Texts <- MCTexts
SPECIFICATION AlgorithmsSpec
CHECK_DEADLOCK FALSE
INVARIANTS
  LimbsFit
  AccumulatorRight
  TagRight
  FrameRoundTrip
  NoSyncInside
  DamageIsRejected
  StreamIsRfc8439
  PrintsReadBack
  DisplaysRead
  PinsReadTrue

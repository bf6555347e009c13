CONSTANTS
  BYTE_BITS = 2
  NONCE_LEN = 3
  CTR_LEN = 2
  TAG_LEN = 1
  Keystream <- NoKeystream
  Mac <- NoMac
  Parties = {board, client}
  Clients = {client}
  board = board
  client = client
  Lengths = {0, 1, 9}
  MAX_OUT = 8
  MaxSealed = 2
  MaxSessions = 2
SPECIFICATION Spec
INVARIANTS
  ClientNoncesStartAnew

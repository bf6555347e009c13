CONSTANTS
  Byte = {0, 1, 2}
  UART_RX_BUFFER_SIZE = 4
  MaxArrivals = 6
SPECIFICATION FairSpec
INVARIANTS
  LoadedByteIsStillThere
  AvailableNeverGoesStale
  NothingLostInside
PROPERTIES
  ImplementsByteQueue
  EveryByteIsPopped

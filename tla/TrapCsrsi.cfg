CONSTANTS
  Delays = 1
  MaxPresses = 0
  CsrsiTakes = {"mask"}
  TOClearedBy = {"zero"}
  EICRequests = {"level"}
SPECIFICATION FairSpec
PROPERTIES
  TimerInterruptEnabled

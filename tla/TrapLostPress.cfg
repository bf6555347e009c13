CONSTANTS
  Delays = 1
  MaxPresses = 2
  CsrsiTakes = {"bit"}
  TOClearedBy = {"zero"}
  EICRequests = {"level"}
SPECIFICATION Spec
INVARIANTS
  HeldPressIsSeen

CONSTANTS
  Delays = 2
  MaxPresses = 3
  CsrsiTakes = {"bit", "mask"}
  TOClearedBy = {"zero", "one"}
  EICRequests = {"level", "latch"}
SPECIFICATION FairSpec
INVARIANTS
  NoTrapUnhandled
  SteadyPressIsSeen
  SendsNeverExceedPresses
  
PROPERTIES
  SamplesForEver

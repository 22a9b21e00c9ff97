SPECIFICATION TabSpec
CONSTANTS
  c1 = c1
  c2 = c2
  Caller = {c1, c2}
  TabRequest = {r1}
  Offered <- MCOffered
  Loop = Loop
  None = None
  MaxRaised = 1
CHECK_DEADLOCK FALSE
PROPERTIES LoopDiesOfBindingsOnly PausedIsDecided CallersReturn

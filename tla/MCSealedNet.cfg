SPECIFICATION NetSpec
CONSTANTS
  Conn = {1}
  MaxChunk = 2
  Target <- MCTarget
  Answer <- MCAnswer
CHECK_DEADLOCK FALSE
INVARIANTS TunnelsAreSound
PROPERTIES ProxyEnds

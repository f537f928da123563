SPECIFICATION DevicesSpec
CONSTANTS
  Harts = {h1, h2}
  Half = 2
  Inc = 1
  Bytes = {x, y}
  QueueSize = 2
  MaxBackoff = 3
  HostBound = 2
INVARIANTS NoSpuriousMtip LineExact
PROPERTIES TimersFollow UartKeepsUp

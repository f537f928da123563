SPECIFICATION RbbFairSpec
CONSTANTS
  RequiredRti = 1
  Addresses = {"bad"}
  BufSize = 2
PROPERTIES ScansExact TicksShort

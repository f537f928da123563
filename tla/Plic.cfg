SPECIFICATION Spec
CONSTANTS
  NumIds = 3
  WordBits = 2
  NumContexts = 2
  MContexts = {0}
  Harts <- MCHarts
  HartOf <- MCHartOf
  MaxPrio = 1
INVARIANTS ClaimedPendingEnabled LevelExact
PROPERTY DeliveryExact

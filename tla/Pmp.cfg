SPECIFICATION PmpSpec
CONSTANTS
  NPmp = 2
  AddrBits = 3
  PageLg = 2
  Gran = 0
  Vals = {0, 1, 3, 4, 5, 7}
  Rules <- PmpRules
INVARIANT DecisionsExact
PROPERTY RulesHold

SPECIFICATION LoopSpec
CONSTANTS
  Quantum = 3
  CounterMod = 4
INVARIANT SerializedCurrent

SPECIFICATION HartSpec
CONSTANTS
  Quantum = 3
  CounterMod = 4
  NTrig = 2
  Pcs = {0, 1}
  TrigQuantum = 2
  Tdata1 <- TriggerWrites
  NProcs = 2
  Interleave = 3
  Mem = {a1, a2}
  Values = {0, 1}
  NoAddr = NoAddr
INVARIANTS StepOne CounterExact SerializedUnlessParted
PROPERTIES TriggersExact LinkedMemorySpec HartsGoOn

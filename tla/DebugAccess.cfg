SPECIFICATION DebugAccessSpec
CONSTANTS
  NHarts = 1
  Debugger = Debugger
  Groups = {}
  AbstractRti = 2
  SupportHasel = FALSE
  SupportHaltgroups = FALSE
  Controls <- ErrorControls
  Commands = {"read", "other", "custom", "unsupported", "badtype"}
  Autos = {{}, {"data"}, {"progbuf"}}
  ErrMasks = {{1}, {1, 2, 4}}
  Polite = FALSE
  AbstractWords = 12
  SupportCsr = TRUE
  SupportFpr = TRUE
  AccessCommands <- AccessRegisters
  MaxAccesses = 2
  WordSize = 4
  AddressWords = 2
  MaxSbaWidth = 1
  Mapped = {0, 1, 2, 3, 4, 5, 14, 15}
  Memory = 3
  MaxLen = 3
INVARIANTS HaltedInRom BlockReadInOrder TransferExact
PROPERTIES FirstErrorKept AccessInPlace

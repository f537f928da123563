SPECIFICATION FairSpec
CONSTANTS
  NHarts = 2
  Debugger = Debugger
  Groups = {1}
  AbstractRti = 0
  SupportHasel = TRUE
  SupportHaltgroups = TRUE
  Controls <- ArrayControls
  Commands = {"badtype"}
  Autos = {}
  ErrMasks = {}
  Polite = FALSE
PROPERTY HaltsEventually

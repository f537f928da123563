SPECIFICATION FairSpec
CONSTANTS
  NHarts = 2
  Debugger = Debugger
  Groups = {}
  AbstractRti = 1
  SupportHasel = FALSE
  SupportHaltgroups = FALSE
  Controls <- RunControls
  Commands = {"read", "other"}
  Autos = {{}, {"data", "progbuf"}}
  ErrMasks = {{1, 2, 4}}
  Polite = TRUE
INVARIANT CommandIsolated
PROPERTIES ReadAnswered RequestsSettle

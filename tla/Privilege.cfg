SPECIFICATION PrivilegeSpec
CONSTANTS
  Ints = {"MTI", "STI"}
  Excs = {"illegal_instruction", "page_fault"}
  InsnBits = 4
  InsnWords = {0, 1, 2, 3, 5, 6, 7, 10, 13, 14, 15}
  CacheSize = 5
  BaseInsns <- SomeInsns
  CustomInsns <- SomeExtensions
  Levels = 2
  IdxBits = 1
  VpnBits = 3
  NapotBits = 1
  Root = 1
  Tables <- SomeTables
  Statuses <- SomeStatuses
  Word = 8
INVARIANTS MprvOnlyInM DecodeExact MExact
PROPERTIES TrapsNest WalkExact

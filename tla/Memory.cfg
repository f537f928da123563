SPECIFICATION MemorySpec
CONSTANTS
  Pages = {0, 1}
  TlbEntries = 1
  IcacheEntries = 2
  Leaves <- MmuLeaves
  Pmps <- MmuPmps
  Mstatuses <- MmuMstatuses
  Triggered <- MmuTriggered
  MaxCount = 3
  MaxSectors = 2
  FileSectors = 2
  OffsetSectors = 4
  MemSectors = 2
  Data = {0, 1}
  Lines = {0, 1, 2}
  Sets <- CacheSets
  Ways <- CacheWays
INVARIANTS TlbExact IcacheExact  CachesExact

SPECIFICATION HostSpec
CONSTANTS
  MaxCommands = 3
  HostFds = {"h3"}
  Ctx = {"target", "host", "other"}
  Main = "target"
  Size = 8
  Align = 4
  MaxSize = 4
  Bytes = {0, 1}
  Parts = 2
INVARIANTS HtifExact OneRuns RangesExact
PROPERTIES FramesExact HostGoesOn

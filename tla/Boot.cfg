SPECIFICATION MCSpec
CONSTANTS
  Machines <- MCMachines
  Frames <- MCFrames
  Margin = 0
  Gradient = 0
  GlyphWidth = 3
  GlyphHeight = 2
  Pins = 24
  Width = 10
  Ratio = 2
  Sleep = 3
  Slices = 3
  APICWidth = 32
  MaxDelay = 2
  Contexts = {"main", "loop1", "loop2"}
  First = "main"
  Exceptions = {8, 14, 18}
  Requests <- MCRequests
  MaxInits = 1
  MaxExceptions = 1
  symbol_table <- MCSymbols
  ReturnTo <- MCReturnTo
INVARIANTS
  PictureShown
  FrameAgrees
  ContextRestored
  ReportedAsRaised
  TicksEnough
  TraceNamesCallers
  RoutedAsFirmwareSays
  ShiftAgrees
PROPERTY KeyHeard
CHECK_DEADLOCK FALSE

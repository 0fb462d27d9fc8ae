SPECIFICATION MCSpec
CHECK_DEADLOCK FALSE
CONSTANTS
  Bundles = {1, 2, 3}
  MaxExports = 2
INVARIANTS
  ClosureExact
  CyclesReal
  ExportComplete

SPECIFICATION MCSpec
CONSTANTS
  a = a b = b
  Bundles <- TwoBundles
  RawCached <- OneRaw
  MaxVersion = 3
  MayRevert = TRUE
  MayReselect = TRUE
  MaxChanges = 3
INVARIANTS
  MarkerTruthful
  QueueLoadable
PROPERTIES
  PendingKept
  Converges

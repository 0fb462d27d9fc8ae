SPECIFICATION FairSpec
CONSTANTS
  r1 = r1 r2 = r2
  NoRun = NoRun
  Runs <- TwoRuns
  MaxSerial = 3
INVARIANTS
  NoTornState
  CrashConsistent
  SingleWriter
  NeverBlocked
PROPERTIES
  ImplementsAtomicStore
  JournalReplayed

SPECIFICATION FairSpec
CONSTANTS
  d1 = d1 d2 = d2 e1 = e1 e2 = e2 u1 = u1 u2 = u2
  NItems = 3
  CachedBundle <- Second
  SharedOutput <- Third
  Media <- FirstTwo
  Undeletable <- First
  Unremovable <- Second
  Downloaders <- TwoDownloaders
  Extractors <- TwoExtractors
  Uploaders <- OneUploader
  ExtractCap = 1
  UploadCap = 1
  Modes = {"plain", "open"}
  MediaSlots = 1
INVARIANTS
  ProgressTracksWork
  NothingDropped
  FailedTasksExact
  CleanCompletion
  AbortLeftovers
PROPERTIES
  RemovalOrder
  ImplementsBatchRun
  RunEnds

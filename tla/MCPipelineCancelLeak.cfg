SPECIFICATION Spec
CONSTANTS
  d1 = d1 d2 = d2 e1 = e1 e2 = e2 u1 = u1 u2 = u2
  NItems = 1
  CachedBundle <- None
  SharedOutput <- None
  Media <- None
  Undeletable <- None
  Unremovable <- None
  Downloaders <- OneDownloader
  Extractors <- OneExtractor
  Uploaders <- OneUploader
  ExtractCap = 1
  UploadCap = 1
  Modes = {"plain"}
  MediaSlots = 1
INVARIANT NoFilesSurviveCancel

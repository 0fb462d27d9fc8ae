SPECIFICATION FairSpec
CHECK_DEADLOCK FALSE
CONSTANTS
  a = a b = b x = x y = y v = v w = w
  Artifacts <- OneArtifact
  Groups <- OneMixed
  Audio <- BothAudio
  Music <- None
  Backend = "auto"
  Storage = "rclone"
  Workspace <- ARemoved
  Undeletable <- DecodeOfX
  Slots <- OneSlot
INVARIANTS
  ChildrenBounded
  DoneIsComplete
  StagingRemoved
PROPERTIES
  RunEnds

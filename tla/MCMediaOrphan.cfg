SPECIFICATION Spec
CHECK_DEADLOCK FALSE
CONSTANTS
  a = a b = b x = x y = y v = v w = w
  Artifacts <- OneArtifact
  Groups <- OneGroup
  Audio <- BothAudio
  Music <- JustX
  Backend = "python"
  Storage = "rclone"
  Workspace <- ARemoved
  Undeletable <- None
  Slots <- TwoSlots
INVARIANTS
  NoChildOutlivesRun

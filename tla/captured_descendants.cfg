SPECIFICATION Spec
CONSTANTS
  Commands <- OneNoisyStream
  Descendants = {"child"}
  PipeCapacity = 1
  Faults = {"panic"}
  ReadChunk = 1
  ChunksPerTurn = 1
  DiscardMax = 1
  MaxUnbounded = 2
PROPERTIES
  ZombieIsReaped
  ReaperThreadEnds
  IsLifecycle

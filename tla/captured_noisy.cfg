SPECIFICATION Spec
CONSTANTS
  Commands <- NoisyStream
  Descendants = {}
  PipeCapacity = 1
  Faults = {"panic"}
  ReadChunk = 1
  ChunksPerTurn = 2
  DiscardMax = 1
  MaxUnbounded = 2
PROPERTIES
  EarlyTriggerNotLost
  Settles
  PipeNeverWedges

SPECIFICATION AdapterSpec
CONSTANTS
  Commands <- Calls
  Descendants = {}
  PipeCapacity = 1
  Faults = {"panic", "spawn", "reaperStart"}
  ReadChunk = 1
  ChunksPerTurn = 1
  DiscardMax = 1
  MaxUnbounded = 2
INVARIANTS
  AnswerIsProved
  OnlyDroppedIsCancelled
PROPERTIES
  DroppedIsCancelled
  DropLeavesNothing
  CallReturns

SPECIFICATION Spec
CONSTANTS
  Commands <- OneStream
  Descendants = {}
  PipeCapacity = 1
  Faults = {"hostReap"}
  ReadChunk = 1
  ChunksPerTurn = 2
  DiscardMax = 1
  MaxUnbounded = 2
INVARIANTS
  IncompleteMeansBudgetExpired

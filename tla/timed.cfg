SPECIFICATION TimedSpec
CONSTANTS
  Commands <- TimedCommands
  Descendants = {}
  PipeCapacity = 1
  Faults = {"poll"}
  ReadChunk = 1
  ChunksPerTurn = 1
  DiscardMax = 1
  MaxUnbounded = 2
  Quantum = 3
  Budget = 4
  TurnCost = 1
  Durations = {0, 2}
  LastInstant = 12
  MaxTime = 14
INVARIANTS
  SettlesWithinAllowance
  TimeoutIsPunctual
  GivenUpAfterBudget

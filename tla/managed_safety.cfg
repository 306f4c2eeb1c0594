SPECIFICATION Spec
CONSTANTS
  Commands <- OneStream
  Descendants = {}
  PipeCapacity = 1
  Faults = {"hostReap", "supervisorStart", "reaperStart", "deadline", "spawn", "interrupt", "signal", "panic"}
  ReadChunk = 1
  ChunksPerTurn = 1
  DiscardMax = 1
INVARIANTS
  LeaderHasOneOwner
  AnswerOkIsSettled
  AnswerAfterSupervisor
  OnlyCallerCancels

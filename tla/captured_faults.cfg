SPECIFICATION Spec
CONSTANTS
  Commands <- OneStream
  Descendants = {}
  PipeCapacity = 2
  Faults = {"hostReap", "reaperStart", "deadline", "spawn", "nonblock", "interrupt", "poll", "read", "allocation", "signal", "panic"}
  ReadChunk = 2
  ChunksPerTurn = 2
  DiscardMax = 2
  MaxUnbounded = 3
INVARIANTS
  LeaderHasOneOwner
  OutcomeFollowsPrecedence
  EvidenceMatchesWorld
  SuccessIsSettled

SPECIFICATION Spec
CONSTANTS
  Commands <- OneOrTwoStreams
  Descendants = {"child"}
  PipeCapacity = 2
  Faults = {}
  ReadChunk = 2
  ChunksPerTurn = 2
  DiscardMax = 2
  MaxUnbounded = 3
INVARIANTS
  TypeOK
  SuccessIsSettled
  EvidenceMatchesWorld
  OutcomeFollowsPrecedence
  GroupDoomedBeforeReap
  LeaderHasOneOwner

SPECIFICATION Spec
CONSTANTS
  Commands <- StreamOrFilter
  Descendants = {"child"}
  PipeCapacity = 1
  Faults = {"panic"}
  ReadChunk = 1
  ChunksPerTurn = 1
  DiscardMax = 1
INVARIANTS
  GroupDoomedBeforeReap
  LeaderHasOneOwner
  AnswerOkIsSettled
PROPERTIES
  EarlyTriggerNotLost
  DeadlineNeedsNoCaller
  DropLeavesNothing
  CancelReturns
  WaitReturns
  IsLifecycle

CONSTANTS
  MaxCommands = 3
  MaxLines = 3
  MaxInterrupts = 2
  Capacity = 1
SPECIFICATION FairSpec
INVARIANTS
  TypeOK
  NothingOutlives
  InterruptHitsItsCommand
  ServedIsAudited
  ShownIsPrefix
  NoCommandWhileServing
PROPERTIES
  InterruptIsAnswered
  SessionEnds
CHECK_DEADLOCK FALSE

\* A command that prints more than the pipe holds; every fault; the command may hang.
SPECIFICATION FairSpec
CONSTANTS
  MaxLines = 3
  PipeSize = 1
  Faults = {"helper", "undecodable", "db_error"}
INVARIANTS TypeOK LogIsOutput NothingLeftRunning
PROPERTIES CancelEnds CommandEnds
CHECK_DEADLOCK FALSE

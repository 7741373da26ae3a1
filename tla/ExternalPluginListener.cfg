SPECIFICATION Spec
CONSTANTS
  Timeouts = {1}
  MaxChunks = 1
  PipeCapacity = 1
INVARIANT ListenerEndsFirst
CHECK_DEADLOCK FALSE

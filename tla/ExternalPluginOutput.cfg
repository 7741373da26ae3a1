SPECIFICATION Spec
CONSTANTS
  Timeouts = {1}
  MaxChunks = 1
  PipeCapacity = 1
INVARIANT OutputIsComplete
CHECK_DEADLOCK FALSE

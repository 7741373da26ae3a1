\* Three chunks, a pipe for two, no timeout and timeouts of one and two polls.
SPECIFICATION FairSpec
CONSTANTS
  Timeouts = {0, 1, 2}
  MaxChunks = 3
  PipeCapacity = 2
INVARIANTS
  CommandHasCompleted
  TimedOutIsTerminated
  PipeHandlesClosed
  ListenerFindsChild
PROPERTY RunReturns
\* Run returns, and a command may run for ever.
CHECK_DEADLOCK FALSE

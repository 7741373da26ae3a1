\* Two plugins of the node's own, an external one with the name of one of them.
SPECIFICATION FairSpec
CONSTANTS
  BuiltIn <- MCBuiltIn
  External <- MCExternal
  Counters <- MCCounters
  Strange = "strange"
  BufferSize = 3
INVARIANTS
  AnswersInStep
  ListedIsKnown
PROPERTIES
  RequestAnswered
  SessionEnds
\* A session ends.
CHECK_DEADLOCK FALSE

\* Two clients, two socket numbers, messages with up to two readings.
SPECIFICATION FairSpec
CONSTANTS
  temp = temp
  fan = fan
  ours = ours
  status = status
  other = other
  Names = {temp, fan}
  Temperatures = {temp}
  Texts = {ours, status, other}
  NoText = NoText
  Uid = ours
  Status = status
  Readers = {r1, r2}
  Handles = {1, 2}
  Broadcasts <- MCMessages
  Malformed <- MCMalformed
INVARIANTS
  TableIsMessage
  AnswerIsTable
  NothingLeft
PROPERTIES
  ClosesOwnSocket
  StopEndsListener
\* The plugin ends.
CHECK_DEADLOCK FALSE

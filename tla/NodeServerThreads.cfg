\* Three connections, _beginthread may fail.
SPECIFICATION FairSpec
CONSTANTS
  Clients = {c1, c2, c3}
  BeginThreadMayFail = TRUE
INVARIANTS
  TypeOK
  NoUseAfterDelete
  DeletedOnce
  NoLeak
PROPERTIES
  NoAcceptAfterStop
  ServerIsShared
  StopEndsServer
  AcceptLoopResumes
\* The program ends: every thread dead is a state without a successor.
CHECK_DEADLOCK FALSE

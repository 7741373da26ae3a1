\* One installation, two uninstallations, two starts.
SPECIFICATION FairSpec
CONSTANTS
  Installers = {i1}
  Uninstallers = {u1, u2}
  MaxStarts = 2
INVARIANTS
  DeletesStopped
PROPERTIES
  StatusForward
  StopIsHeard
  UninstallReturns
\* A machine without the service has nothing left to do.
CHECK_DEADLOCK FALSE

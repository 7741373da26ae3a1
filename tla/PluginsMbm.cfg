\* Two threads list the plugins.
SPECIFICATION Spec
CONSTANTS
  Threads = {t1, t2}
  SmartPlugins = {}
  Drives = 1
  Kinds = {"absent"}
  Minute = 1
  MaxClock = 2
  Wrap = 4
  Start = 2
  MaxRefresh = 1
INVARIANT MappedOnce

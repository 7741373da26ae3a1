\* Two threads, two hard drive plugins, two drives, two refreshes.
SPECIFICATION FairSpec
CONSTANTS
  Threads = {t1, t2}
  SmartPlugins = {hd, spin}
  Drives = 2
  Kinds = {"absent", "ok"}
  Minute = 1
  MaxClock = 2
  Wrap = 4
  Start = 2
  MaxRefresh = 2
INVARIANTS
  WrappedPluginsExclusive
  ReplyIsSnapshot
PROPERTIES
  FreshAfterUpdate
  RequestsDrain

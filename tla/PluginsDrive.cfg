\* One thread and two drives are enough.
SPECIFICATION Spec
CONSTANTS
  Threads = {t1}
  SmartPlugins = {hd}
  Drives = 2
  Kinds = {"absent", "mute", "noThresholds", "ok"}
  Minute = 1
  MaxClock = 2
  Wrap = 4
  Start = 2
  MaxRefresh = 1
INVARIANT ReportsOwnDrive

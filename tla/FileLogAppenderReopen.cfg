\* One thread; a write that fails once, as on a full disk.
SPECIFICATION Spec
CONSTANTS
  t1 = t1  t2 = t2  t3 = t3
  nobody = nobody
  Threads = {t1}
  MaxTime = 4
  MaxFiles = 1
PROPERTIES
  ReopenOpens

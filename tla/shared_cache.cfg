SPECIFICATION Spec
CONSTANTS
  Threads = {t1, t2}
  Keys = {k1, k2}
  Ids = {1, 2, 3}
  None = None
  maxEntries = 3
INVARIANT EraseLive

CONSTANTS
  Calls = {m1}
  Readers = {r1}
  None = None
  Kinds <- CachedOnly
  MaxErrors = 0
SPECIFICATION Spec
INVARIANT NeverStale
CHECK_DEADLOCK FALSE

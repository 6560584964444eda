CONSTANTS
  Calls = {m1, m2, m3}
  Readers = {r1}
  None = None
  Kinds <- AllKinds
  MaxErrors = 1
SPECIFICATION FairSpec
INVARIANTS TypeOK NoLostUpdate FailedInvisible
PROPERTIES EveryCallEnds CacheConverges
CHECK_DEADLOCK FALSE

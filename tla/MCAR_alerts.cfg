CONSTANTS
  Keys = {k1}
  Checks = {c1, c2}
  NoCopy = NoCopy
  Grace = 1
  Reminder = 2
  Interval = 1
  EnvConfigured = TRUE
  Faults = {"force", "clear", "disable", "unseen", "webhook", "restart"}
  MaxFaults = 1
SPECIFICATION Spec
INVARIANTS TypeOK
PROPERTIES FiringsDue ResolvedWasFiring HeartbeatSpaced EntryFollows LastingTold LastWord

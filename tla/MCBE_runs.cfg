CONSTANTS
  SitePolicies = {s1}
  EnvPolicies = {e1}
  Guests = {g1, g2}
  Scopes <- AllOneOrNone
  Retention = 1
  Ticks = {t1}
  Manuals = {m1}
  Scheduled = {e1}
  EnvConfigured = TRUE
  None = None
  Faults = {"trigger", "poll", "read", "write", "delete", "restart"}
  MaxErrors = 1
  MaxRuns = 1
SPECIFICATION FairSpec
INVARIANTS TypeOK OneBackupAtATime SuccessHasArchive ScheduledRunsRecorded RecordsTell
PROPERTIES RunsEndComplete RunsEnd DueRuns
CHECK_DEADLOCK FALSE

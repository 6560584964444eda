CONSTANTS
  SitePolicies = {s1}
  EnvPolicies = {}
  Guests = {g1}
  Scopes <- AllGuests
  Retention = 1
  Ticks = {t1}
  Manuals = {}
  Scheduled = {s1}
  EnvConfigured = FALSE
  None = None
  Faults = {}
  MaxErrors = 0
  MaxRuns = 1
SPECIFICATION FairSpec
PROPERTY PoliciesRun
CHECK_DEADLOCK FALSE

SPECIFICATION FairSpec
CONSTANTS
  repeat_interval = 2
  escalate_after = 3
  POLLING_RESTART_MIN_DELAY = 1
  POLLING_RESTART_MAX_DELAY = 5
  POLLING_STABLE_UPTIME = 1
  MAX_AGE_SECONDS = 2
  Levels = {"INFO", "WARNING"}
INVARIANTS
  TypeOK
  OneInstance
  LockOfTheLiving
  BackoffGrows
  HealthyHasPolled
PROPERTIES
  BlamesOnlyLasting
  LastingIsBlamed
  NeverSilent

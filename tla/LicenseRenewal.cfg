CONSTANTS
  Profiles <- NoProfiles
  Validities = {0, 2, 9}
  Durations = {4, 7}
  ShortPeriod = 1
  LongPeriod = 3
  ResumeElsewhere = FALSE
SPECIFICATION RenewalFairSpec
CHECK_DEADLOCK FALSE
INVARIANTS
  RenewalTypeOK
  DeadlineIsExpiry
  LockedOnlyAtDeadline
PROPERTIES
  KeepsRenewing

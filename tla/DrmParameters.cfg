SPECIFICATION Spec
CONSTANTS
  Periods = {0, 1, 2}
  Levels = {1, 5}
  Paths = {1, 2}
  Words = {0, 1}
  MailboxSize = 3
  MaxKeys = 2
INVARIANTS
  PeriodsOrdered
  LoggerPassesAll
  LogIsAsReported
PROPERTY RefusedHasNoEffect

\* After the shutdown the process ends.
CHECK_DEADLOCK FALSE
SPECIFICATION FairSpec
CONSTANTS
  every = every
  cron = cron
  Entries = {every, cron}
  HandlerTimeout = 2
  Period <- MCPeriod
  Calendar <- MCCalendar
  Timeout <- MCTimeout
  Grace = 1
  MaxTime = 5
INVARIANTS TypeOK NoOverlap
PROPERTIES ShutdownDrains ShutdownCompletes

\* After the shutdown the process ends.
CHECK_DEADLOCK FALSE
SPECIFICATION Spec
CONSTANTS
  every = every
  cron = cron
  Entries = {every, cron}
  HandlerTimeout = 2
  Period <- MCPeriod
  Calendar <- MCCalendar
  Timeout <- MCTimeout
  Grace = 1
  MaxTime = 5
PROPERTIES SkipsOnlyWhileRunning

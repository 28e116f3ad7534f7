CONSTANTS
  Links = {l1}
  UserLinks = {}
  Lookups = {resolved, missed}
  Resolved = resolved
  Visitors = {v1}
  None = None
  NotFound = NotFound
  RedisConfigured = FALSE
  MaxCount = 9
  Environment = {"shutdown"}
  MaxRedirects = 1
  MaxHour = 0
SPECIFICATION Spec
INVARIANT NoCountsLostOnShutdown
CHECK_DEADLOCK FALSE

CONSTANTS
  Links = {l1, l2}
  UserLinks = {}
  Lookups = {resolved, missed}
  Resolved = resolved
  Visitors = {v1}
  None = None
  NotFound = NotFound
  RedisConfigured = FALSE
  MaxCount = 9
  Environment = {"delete"}
  MaxRedirects = 2
  MaxHour = 0
SPECIFICATION FairSpec
PROPERTY EveryRedirectCounts
CHECK_DEADLOCK FALSE

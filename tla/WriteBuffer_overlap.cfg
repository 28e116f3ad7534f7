CONSTANTS
  Links = {}
  UserLinks = {}
  Lookups = {resolved, missed, fallback}
  Resolved = resolved
  Visitors = {v1}
  None = None
  NotFound = NotFound
  RedisConfigured = FALSE
  MaxCount = 9
  Environment = {"shutdown"}
  MaxRedirects = 4
  MaxHour = 0
SPECIFICATION FairSpec
INVARIANTS NeverCountsTwice LostOnlyByMishap
PROPERTIES EveryCountArrives ShutdownEnds

CONSTANTS
  Links = {l1}
  UserLinks = {p1}
  Lookups = {resolved, missed}
  Resolved = resolved
  Visitors = {v1}
  None = None
  NotFound = NotFound
  RedisConfigured = TRUE
  MaxCount = 1
  Environment = {"shutdown", "timeout", "crash", "dberror", "delete"}
  MaxRedirects = 2
  MaxHour = 1
SPECIFICATION Spec
INVARIANTS TypeOK NeverCountsTwice LostOnlyByMishap HistoryAgrees
PROPERTY ImplementsLedger

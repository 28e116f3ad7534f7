CONSTANTS
  Tabs = {t1, t2}
  None = None
  HasEndSession = TRUE
  MaxFaults = 1
SPECIFICATION FairSpec
INVARIANTS TypeOK ArrivesWhereAsked SignedAsAsked
PROPERTY EveryVisitEnds
